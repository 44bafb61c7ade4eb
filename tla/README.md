# A TLA+ model of Vaultwarden, worker and upstream server

The repository holds two programs that serve the same clients. The one that is
deployed runs as a Cloudflare Worker: `worker/src` (axum handlers, models,
triggers) and `worker/migrations` (the schema). The other is the upstream Rocket
server under `src/`, from which the worker was derived. Both are modelled, as
separate modules: they keep the same tables, and differ in how they write them. Paths
below are relative to `worker/src` for the worker, and begin with `src/` for the
server.

## 1. The system

### State

| Where | What | Properties that matter |
|---|---|---|
| D1 (SQLite) | about 25 tables, one row per user, device, cipher, membership, ... | each awaited statement is atomic; the code uses neither transactions nor batches; foreign keys and UNIQUE are enforced |
| R2 | buckets `ATTACHMENTS` and `SENDS`, keys `{row}/{file}` | each call is a step of its own; most results are ignored |
| KV | counters of the rate limiter | read and written in two calls |
| Durable Objects | open sockets of the notification hub | broadcast only, nothing kept |
| Tokens | signed access, invitation, download tokens | stateless: what they carry was true when they were signed |

Foreign keys: D1 enforces them, the end-to-end tests rely on it
(`tests/e2e/models.test.ts:100`) and so does the comment at
`api/accounts.rs:345`. The comment at `api/collections.rs:338` says the
opposite; the models follow the schema.

### Operations

The worker has about 260 routes. Nearly every handler that changes something has the same form:

1. the guard (`auth.rs`, `Headers`) reads the user and the device;
2. the handler reads the row it is about and checks it;
3. it changes its copy and calls `save`, an upsert of **every** column
   (`INSERT ... ON CONFLICT(uuid) DO UPDATE`), or deletes the row;
4. follow-up statements (junction rows, R2 objects, events, notifications),
   whose failures are mostly ignored.

A second actor is `run_purges` (`lib.rs:657-867`), the scheduled trigger: every five
minutes for sends, every hour for the trash, emergency access, incomplete
logins and old requests, once a day for events.

### The upstream server

Rocket handlers over Diesel, with SQLite, MySQL or PostgreSQL. Each `conn.run` closure
is one statement; handlers use no transactions, so that two requests interleave
between closures as they do in the worker. Handlers save whole rows as well. What it does
differently is what its modules are about:

* a new security stamp rotates the refresh tokens of all devices, and a password change
  leaves a *stamp exception* open for one route and two minutes (`src/auth.rs:654`);
* rights to an item come from collections, groups and full access, with flags, and are
  computed by several separate queries (`src/db/models/cipher.rs`, `collection.rs`);
* organization policies are asked at every step of a membership and enforced in loops when one
  is enabled;
* the two emergency-access jobs may run at once, and update single columns for this reason
  (`src/api/core/emergency_access.rs:741`);
* attachments and sends have quotas; uploads come in two steps, a reservation and the file;
* a time step of an authenticator is accepted once; mailed codes have a limit of attempts.

### What makes it hard

Any number of requests and triggers interleave between two awaits. An upsert of
a copy undoes what others wrote since the copy was read, and inserts the row
again when it was deleted. A deletion is a list of statements, each of which a
foreign key may refuse, next to calls to a bucket that no transaction covers.
The jobs that must eventually happen work on copies as well. The server adds loops over
rows that stop half-way, and rules that are written down twice. The list of these
hazards, with their lines and the properties that watch them, is in
`PROJECT.json`.

## 2. How the models are built

* A request in flight is a record in the set `req`: a slot `id`, the statement it
  runs next (`at`), and the copies it holds. The first action of a handler is its
  read with all its checks; further actions run its remaining statements, one each;
  the last one removes the record. `fail` is an error of the database or the
  bucket, or a worker that is stopped: the request ends where it is.
* The modules of the server, and the small ones, write a request as the list of its
  remaining statements, `todo[r]`: a handler's action makes its first reads and checks and
  queues the statements, and the action of a statement runs the one in front, may queue others
  in its place (a loop queues one *turn* per row) or ends the request, as an early return
  does. `clean` holds the requests beside which no other has written; `torn` is set
  when one that is not clean writes, or when a statement fails.
* What is abstracted is data: names, keys and ciphertexts are model values or
  absent; a password or a code is right or wrong; time is a small clock.
* `HISTORY` variables record what the handlers *meant*, and whether two of them
  overlapped. The read-then-upsert style cannot keep every promise under every
  interleaving, so a property says precisely which promise survives: "a
  rejection that overlapped no holder of a pending copy is final". Such a
  property still ranges over all interleavings: those of requests on the row
  before and after, of requests on other rows, of the triggers, of failures. It does
  not catch the race itself, which the code loses: the notes of the hazards in
  `PROJECT.json` say for each race what is excluded and what is still covered.
  The properties without such a condition (`RowsComplete`, `RefreshTokensDistinct`,
  `ConfirmedRightly`, `RolesGranted`, `NoOrphans`, `RemindersJustified`, the first part of `CountExact`, `PasswordStays`, `SyncAgrees`,
  `UpdateNeverStuck`, `JobsKeepDecisions`, the liveness properties) hold in all interleavings.
* Definitions carry the names of the Rust functions. A definition that ends in
  `_Something` and is marked `MUTANT` is a plausible wrong version of the next
  one, used to make sure that the property can fail.

| Module | Part of the system | Code |
|---|---|---|
| `EmergencyAccess` | grants, takeover, auto-approval and reminders | `api/emergency_access.rs`, `lib.rs` |
| `Sessions` | one account, its devices and tokens | `auth.rs`, `api/identity.rs`, `api/accounts.rs`, `api/devices.rs`, `api/admin.rs`, `api/meta.rs` |
| `Sends` | sends, their files, the five-minute trigger | `api/sends.rs`, `lib.rs` |
| `Memberships` | the members of one organization | `api/organizations.rs`, `api/admin.rs`, `api/meta.rs` |
| `Vault` | ciphers, attachments, the trash and its purge | `api/ciphers.rs`, `api/attachments.rs`, `lib.rs` |
| `Links` | folders, collections, groups and the junction tables | `api/folders.rs`, `api/collections.rs`, `api/organizations.rs`, `api/policies.rs`, `api/ciphers.rs` |
| `TwoFactor` | second factors, codes, remember tokens, recovery | `api/two_factor.rs`, `api/webauthn.rs`, `api/accounts.rs`, `api/identity.rs` |
| `IncompleteLogins` | logins stopped at the second factor, reminders | `api/identity.rs`, `lib.rs` |
| `Reminders` | abstract: what a user is promised about such logins | implemented by `IncompleteLogins` |
| `AuthRequests` | login with another device | `api/auth_requests.rs`, `api/identity.rs`, `lib.rs` |
| `Deletion` | deletion of accounts and organizations, table by table | `api/accounts.rs`, `api/admin.rs`, `api/organizations.rs`, migrations |
| `Signup` | the account of one address comes into being, in both programs | `api/accounts.rs`, `api/admin.rs`, `src/api/core/accounts.rs`, `src/api/core/organizations.rs`, `src/api/identity.rs` |
| `KeyRotation` | rotation of the account key, in both programs | `api/meta.rs`, `src/api/core/accounts.rs` |
| `ApiKeys` | the API key of an organization, in both programs | `api/organizations.rs`, `src/api/core/organizations.rs` |
| `RateLimit` | the rate limiter of the worker | `ratelimit.rs` |
| `ServerAccounts` | one account, its devices and tokens | `src/auth.rs`, `src/api/identity.rs`, `src/api/core/accounts.rs`, `src/api/admin.rs` |
| `ServerAccess` | rights to an item through collections and groups | `src/db/models/{cipher,collection,group}.rs`, `src/api/core/{organizations,ciphers}.rs` |
| `ServerMembers` | memberships and policies | `src/api/core/{organizations,public}.rs`, `src/db/models/{organization,org_policy}.rs` |
| `ServerEmergency` | emergency access and its two jobs | `src/api/core/emergency_access.rs` |
| `ServerSends` | sends, files, quota, revision date | `src/api/core/sends.rs` |
| `ServerTwoFactor` | second factors, recovery | `src/api/core/two_factor/*.rs`, `src/api/identity.rs` |
| `ServerCiphers` | ciphers, folders, attachments | `src/api/core/{ciphers,folders}.rs` |
| `MC...` | instances for TLC | |
| `...Proofs`, `TwoFactorReads` | theorems; section 5 | |

### State and actions, module by module

**EmergencyAccess.** `live`/`row` are the table, `req` the handlers in flight,
`todo` the copies the hourly job selected for reminders, `password` who chose an
account's master password. Actions: `invite`, `accept`, `confirm`, `initiate`,
`approve`, `reject`, `update_access`, `delete_access`, `takeover_password` with the grantor's password,
and the hourly job in its order: `auto_approve_due` in one statement, then the
reminders, one save per row. Dates are ticks, `DayLength` of them a day;
`auto_approve_due` compares *days*, because it compares a `datetime` with an
RFC 3339 string as text.

**Sessions.** The columns of the user row that give access (enabled, security stamp,
password, API key), the refresh token of each device, the access tokens handed
out. Handlers that save the user row differ only in which of these they change;
each is an action. All random values come from one supply of fresh numbers.

**Sends.** The rows with their counter, limit, flags and dates; the bucket; the tokens for
downloads, which are checked without reading the row; the trigger with the
sends it still has to list and the objects it still has to delete. The expiry of a token is the
deletion date that was read, or an hour from now (`Hour`) when that is not a date of RFC 3339 (only
those in `Parses` are), and the decoder's default leeway (`Leeway`) comes on top.

**Memberships.** Rows of `users_organizations` with status, type and key; the organization
and the users they refer to. The bulk handlers work through a list, one row after
another, with the caller checked once at the beginning. `confirm` stores the key of the body, which
may be empty (`Keys`). `promoted` is a history of the roles given, which `RolesGranted` compares with the rows:
a role is given by the creation of the organization, by an owner or by the administrator, and is
forgotten when it is taken away or the member is removed, as long as no copy in flight carries it.

**Vault.** Rows of `ciphers` (owner, organization, contents, trash date) and
`attachments`, the bucket, the links that keep a cipher from being deleted, and
the hourly purge in its four parts.

**Links.** `links` holds the rows of all junction tables. A handler is turned into
the list of its statements when it starts and runs one per step. A change of folder reads the links
of the cipher and then the folders of the caller, in two statements. `access_all` is a
fixed attribute of a membership (`AllAccess`). A `step` may fail: the result
is ignored, like in the code.

**TwoFactor.** All rows of `twofactor` of one user, enrolled factors and the
codes, challenges and remember tokens stored in the same table, one of each type.
The codes for enrolment by mail (`activate_email_2fa`) have no limit on the
attempts in the code, so `AttemptsCapped` is about the other two kinds. `recover` takes a failed
SELECT for no factors (`recover_unread`) and ignores failed DELETEs; `RecoverClears` excuses those rows one by
one (`touched`), and the ones written after their turn.

**IncompleteLogins.** The age of each device's row, capped at `Patience`, and the
trigger between its select, its mails and its deletes. A login that passes its challenge clears the row;
one that skips it (the device is remembered, or no factor is active) or whose statement fails leaves the row, and may
be reminded of although it is complete (`skip_two_factor`, `statement_fails`; `outcome` is "left"). The trigger deletes the row
also when the user is not found or the mail is refused (`send_reminder_fails`). `Reminders` states the promise without
requests, statements or trigger: an open login ends because its challenge is passed, because the next login on the
device takes its place, or after one attempt to remind the user, which may miss. The refinement mapping (`Promise`) reads
a device's login off its row and the trigger, which knows whether the mail about the row it is at was sent and whether
a login renewed the row since; every statement is a step of the promise or invisible.

**AuthRequests.** The rows with answer and age, the answers in flight.

**Deletion.** For each owner the *set of tables* with rows of theirs, the foreign
keys between the tables, and the lists of statements of the five handlers, run one
by one. Statements that find no row are skipped, which changes nothing else. Other
handlers appear as generic writes: insert a row in any table, upload an object,
save the owner's row.

**Signup.** The users row of one address, with the password's request as its value, the
invitations, the membership, the grant and the mails that lead to a registration. `program`
says whose handlers run. The worker's `register` refuses any row; the server's completes
a row without a password if an invitation, a token or a setting admits it. Every
insert or save comes after the read it depends on, in a step of its own.

**KeyRotation.** Of every item only the generation of the account key it is encrypted
under. The worker saves the user, with a new key or without, then the ciphers and sends that the body names, and
ignores errors; it touches folders and leaves grants and recovery keys alone. The server checks
first that the request names every item (`validate_keydata`), saves items one by one, stops at the first error and
saves the user last. `stray` is a history of the items that the rotations have parted from the key of the user row:
`KeyOpensItems` says that, while no other client writes, the key opens all the others in every state, and that the server's stray
items, those of a rotation that stopped half-way, are under a newer key, so that the next rotation that
gets to its end takes them along. That a rotation which fails "should revert everything" (`src/api/core/accounts.rs:799`)
is not so, and is not what the property says.

**ApiKeys.** The rows of one organization and the keys handed out. Find-or-create in
both programs; a rotation of the worker deletes and inserts, one of the server saves the
row it found.

**RateLimit.** Counters per window, checks between their two reads and the
write, `accepted` per second. The estimate is exact: the comparison is multiplied by
the length of the window. Reads of KV may return an older value, which sets `lagged`
and ends the behaviour; `RateHolds` then bounds the checks accepted in *any* stretch of one
window, not just the aligned ones.

**ServerAccounts.** As `Sessions`, with the stamp exception and the rotation
of the refresh tokens, row by row, before the users row is saved. A token is judged by
what the guard would do with it. The guard does not read `enabled`, so `DisabledShutsOut`
also says that no device and no session of a disabled account is left.

**ServerAccess.** One item, two collections, one group, one member; the flags
`read_only`, `hide_passwords` and `manage` of each link. Operators for each query that
decides a right (`find_by_user`, `get_access_restrictions`, `is_writable_by_user`, the sets of
the sync). `access_all` is set for administrators, and for managers whose custom role came with its three
permissions. The instance starts from one link of each kind, after which the handlers
interleave, and from *all* combinations of links, rights, groups and settings, on which
the rules are compared.

**ServerMembers.** Rows of two users in two organizations with status (a revoked one is
lower by 128, as in the code) and type; enabled policies; who has a second factor. A
handler asks the policies about the row as it will be saved. The loops that enforce a policy
list the members first and take one turn each. The instance starts from one
organization with its owner, where two requests interleave, and from any rows around one user
that obey the policies, where one request runs.

**ServerEmergency.** Rows as in `EmergencyAccess`; the lists of the two jobs,
which shrink row by row while requests and the other job run. A takeover is three statements after its checks: the
password, the second factors, the memberships (`taken`).

**ServerSends.** Rows with kind, password, settings and count, the stored files, the quota, and
whether the revision date of the account is later than the client's last sync.

**ServerTwoFactor.** One row per type, factors and challenges; codes are numbers from one
supply. A behaviour is about one *family* of factors, which keeps the combinations
that share rows and drops the ones that do not. The clock counts time steps of an authenticator.

**ServerCiphers.** Two ciphers, two folders, two attachments with declared and stored
sizes; `catch` is the clean-up of `post_ciphers_create` when sharing fails.

### Composition

Requests of different components meet in the rows they share. `Deletion` composes
the tables of all components on the level of foreign keys. `Memberships` has the
users and the organization whose deletions take memberships along; `Vault` has
the links that block its deletions. `MCScheduled` runs the jobs of the trigger,
each with the handlers it races. A composition of the full modules is out of
TLC's reach (each has about a million states alone) and would add little: no
statement touches the tables of two of them except through foreign keys.

The two programs are deployed one or the other, never on one database. An MC
module therefore puts the module of the worker and that of the server for the same subject side by
side: the first choice of a behaviour is which of them runs (`program`, or
`part` where the small modules take part), and the others stay in one fixed initial state.
A property of such a run is about one of the programs, or the conjunction of what each
promises about the same thing. Where a conjunct is an action property, the invariants are
stated about its second state (`AccessesCounted`, `OwnerRemains`).

## 3. What TLC checks

| Run | Instance of the worker | of the server and the small modules | States |
|---|---|---|---|
| `ea_safety` | 2 users, 1 grant, 2 requests, a day of 2 ticks, 4 ticks | 1 grant, 2 requests, 2 days | 2.5 M |
| `sessions_safety` | 2 devices, 2 requests, 5 random values | accounts: 1 device, 5 calls, 3 values; `Signup`: 3 calls; `KeyRotation`: a folder, a grant, a cipher, 3 calls; `RateLimit`: window 3, limit 3, 9 seconds | 2.1 M |
| `sends_safety` | 1 send, 1 file, 2 requests, 2 ticks, an unlimited send with a date that parses and one of limit 1 with a date that does not | 2 sends, quota of 1 file, 3 calls, 2 requests | 3.0 M |
| `memberships_safety` | 2 users, 2 memberships, 2 requests | 2 users, 2 organizations, 2 calls, or 1 from any rows; `ApiKeys`: 4 calls | 2.9 M |
| `vault_safety` | 1 user, 1 cipher with 2 contents, 1 attachment, 2 requests | 2 ciphers, 2 folders, 2 attachments, quota 2, 2 calls | 2.6 M |
| `links_safety` | 1 user, 1 cipher, 2 folders, 1 collection, 1 group, 2 memberships, 2 requests | 1 member, 2 collections, 1 group, 3 sets of flags, 2 calls, or any rows | 1.4 M |
| `twofactor_safety` | 2 rows, 2 codes, 2 attempts, 1 device, 2 keys, 2 requests | 3 families of factors, 2 attempts, 3 calls, 2 time steps | 1.1 M |
| `scheduled` | each job with the handlers it races, under fairness | | 0.2 M |
| `deletion_safety` | an account or an organization, 2 requests, up to 4 or 5 tables with rows | | 1.9 M |

What they show, in the words of the properties:

* `ea_safety`: `RowsComplete`, `DecisionsStand` (a rejection or a deletion is final) and
  `ApprovedAtMostADayEarly` (worker), `ServerDecisionsHold` (a rejection is final until a new
  request, and the reminder job does not undo the timeout job). All proved.
* `sessions_safety`: `RotationHolds`, `DisabledHolds`, `DevicesHold` (signing out is final, refresh
  tokens are distinct) on the worker and `ServerSessionsHold` (rotation and disabling on the
  server), proved; `RegisteredOnce`, `KeyOpensItems`, `RateHolds`.
* `sends_safety`: `AccessesCounted` (count, settings and limit) and `SendFilesAccounted` on the
  worker, proved; `PasswordStays` and `ServerHolds` (limit, quota, clients notice every edit)
  on the server.
* `memberships_safety`: `RowsHold` (rows keep what was written; confirmed members accepted),
  `RolesGranted` (no one has a role that was not given; worker), `OwnerRemains`, `PoliciesHold` (server), `OneApiKey`.
* `vault_safety`: `CiphersHold` (columns, references, no cipher without an owner), `FilesAccounted`
  (worker), `VaultConsistent` (server).
* `links_safety`: `LinksIntact`, `ReplaceExact` (worker), `SyncAgrees`, `AccessHolds` (what is
  listed can be opened and updated; a removed member has no link) on the server, proved.
* `twofactor_safety`: `CodesHold` (codes are spent once, guesses are capped) and `FactorsRemoved`
  on the worker, proved; `ServerCodesHold`, `FactorsRecoverable` (server).
* `scheduled`: `RemindersJustified` (proved), `KeepsPromise` (refinement; proved), `NotDueForever`,
  `RecoveryResolved`, `ExpiredPurged`, `AuthRequestsPurged` (liveness), `AnswersHold` (proved).
* `deletion_safety`: `DeletesAll`, `DeletedStays`.
* `sends_password`, `twofactor_alone` and `deletion_refused` are violated: section 4.

**Bounds.** Two requests in flight, next to the trigger, are what a race of a
stale copy needs: one holds the copy, the other one changes the row; a third
only repeats what the second can do one after the other, since a request that ends frees
its slot. One row per component suffices where rows do not
interact (grants, sends, ciphers); memberships interact through the count of the
owners and the UNIQUE key, so there are two. Clocks run long enough to pass every
deadline once, with a tick to spare. `MaxRows` in `Deletion` bounds
the tables in use at a time, not which ones: every pair and triple of tables, with
the root, is tried, and a foreign key only ever relates two. Uuids, random values
and codes are bounded supplies: a handler that needs a new one waits when
none is left, which only shortens behaviours. A limit of two attempts at a code has a wrong guess
below it, one that reaches it and one beyond it. The worker's second factors have one
device, since none of their properties tells devices apart and the proofs hold for any number. The leeway of
the decoder is 0 ticks in `sends_safety`, where a link still works in the tick of its expiry, and any number in the
proof. The regular instance confirms members with a key only (`Keys`): with an empty one too there are 7.9 million
states and no violation, in a run of three times the length. Sends that are disabled occur in `scheduled` and in the proof.

The modules of the server bound the number of calls (`MaxOps`), since their rows are many.
`ServerAccess` and `ServerMembers` make up for it with their second start: every combination of
rows, with no call (the rules are compared on each) and with one (an inductive step for a request
that runs alone). `ServerTwoFactor`, `ServerCiphers` and
`RateLimit` end a behaviour once it is `torn` or `lagged`, since all that they promise is about
behaviours that are not. In `ServerTwoFactor` three calls activate a factor, use a code and
use it again; in `ServerSends` two uploads meet the quota, or two accesses the limit,
after a creation.

**Symmetry** is over requests, and over users, devices, keys, uuids or codes where
the model treats them alike, and over the contents of a cipher, which nothing looks into; not in `scheduled`, which checks liveness, and not over
sets that `Links` turns into sequences.

**Deadlock** is checked, except in `memberships_safety`, where the supply of uuids ends:
after the organization is deleted there is nothing left to do. A behaviour that used up its
calls stutters (`Finished`), so that a request that cannot go on would still be found.

**Fairness** (run `scheduled` only):

* the steps of a trigger are weakly fair: Cloudflare fires it on its schedule and
  a run goes on once started;
* the DELETE of an incomplete login and the purge of the sends are strongly fair:
  either may fail (its result is ignored or logged) but not for ever; without this
  the code itself gives no promise;
* in `EmergencyAccess` the clock and the writes of requests in flight go on: the
  runtime ends every request. Handlers are never obliged to start.

## 4. Where the code disagrees with its documentation

Three disagreements are runs that TLC must find violated:

* `PasswordPersisted`: a password set on a send is kept ("Hash and persist a send
  password", `api/sends.rs:711`), and `Send::save` leaves the columns of the password
  out of its statement (`db/models/send.rs:81`).
* `SingleFactorLogin`: without a second factor enrolled a login needs none, and
  `password_grant` counts every enabled row below type 1000, the one-time passcode of
  protected actions included (`api/identity.rs:670`).
* `WalksOwnedRows`: `delete_account` says it walks through the owned rows by hand;
  it has no statement for `twofactor_incomplete`, and while a login waits for its
  second factor the last DELETE is refused, after everything else is gone
  (`api/accounts.rs:400`).

Others were met while modelling. They are visible in the models, not runs of their own:

* Auto-approval of a recovery compares dates as text and comes up to a day early
  (`db/models/emergency_access.rs:116`); `ApprovedAtMostADayEarly` is the bound that
  holds, and `NeverADayEarly` proves it.
* A request to log in with another device is granted for 15 minutes
  (`api/identity.rs:385`), where two comments say 5. `WindowHolds` uses the code's.
* `max_access_count` can be exceeded by accesses that overlap; the test says it is
  enforced. `GrantsWithin` says when it is.
* The server's invitation of several addresses: `user_created` is set for a new address and
  not reset for the next (`src/api/core/organizations.rs:1065`, against "Upon error delete the user,
  invite and org member records when needed"), so that a mail that fails for a later address deletes an
  account that existed. `Signup` marks it in `swept`, and `RegisteredOnce` says what holds otherwise.
* The directory import of the server restores a revoked member without asking a policy, where a
  comment in `put_policy` says that revoked users "will not be allowed to accept or be activated"
  (`src/api/core/organizations.rs:2088`); `unasked` in `ServerMembers`.
* A link of the member overrules one of a group when the server is asked for one item ("user
  permission overrule group permissions", `src/db/models/cipher.rs:645`); the full sync looks at
  the links of each collection in turn and may show other flags. `SyncAgrees` states the direction in which the two differ.
* A takeover that checked the grant before a rejection still sets the password.
* A login completed with a remembered device, or after the last factor was removed, keeps its row, and the user is reminded
  of it, where the comment at `api/identity.rs:766` says that the row is cleared "so the cron doesn't nudge the user
  about an already-completed login"; `RemindersJustified` is about those that pass the challenge.
* The reminder job deletes the row of a login also when no mail was sent (`lib.rs:808`), so that nothing is tried again.
* A download link outlives its send by the leeway of the decoder, 60 seconds, or is valid for an hour when
  the deletion date does not parse, where a comment says that it expires when the send does
  (`auth.rs:177`). `SendFilesAccounted` states the code's bound.
* `recover` clears the recovery code also when it could not read or delete the factors (`api/two_factor.rs:719`).
* A rotation of the server's keys that fails half-way reverts nothing (`KeyRotation` above).
* Two owners that leave at the same time leave none behind; `leave_organization`
  also skips its count when the query fails.
* A member that belongs to a group cannot be removed, and leaving or being removed
  deletes no `users_collections` row, which is enough for an item to be listed
  (`db/models/cipher.rs:85`).
* `bulk_share` keeps the user of the item (`api/ciphers.rs:910`), so that the
  deletion of the account takes shared items along, or is refused by links
  of other members; a comment says that they stay.
* One link to one trashed item makes the hourly purge fail for everyone's trash,
  after the attachments are gone.
* `admin_delete_user` and `admin_delete_org` answer success when every statement
  failed.
* `admin_invite_user` is documented to create a disabled account that the invitee
  completes; it creates an enabled one, and registration then refuses the address.

## 5. What is proved

The proofs hold for every value of the constants, under the assumptions that the modules state
about them (`NobodyAssumption`, `TimeAssumption`, `FreshAssumption`, `BoundsAssumption`,
`BodiesAssumption`, `LifetimeAssumption`, `ConstantsAssumption`, `PatienceAssumption`), or that a theorem
states itself: any numbers of users, rows, devices and requests in flight. Each property below was not
inductive as it stands, for the same reason: a handler writes a copy, so the
invariant has to say of the copies, and of what the requests are still to do, what
makes the row right after they are written. Every invariant was checked with TLC on the
instance of its run before it was proved.

**`EmergencyAccessProofs`.** For the worker, `IInv` says that copies are complete too
(`CopiesComplete`), that only minted uuids are used (`OnlyMinted`), which status the copy of
each handler has (`CopyStatus`), and that no row *and no copy* contradicts a rejection or a
deletion (`Rejected`, `Deleted`). One lemma for the first step of any handler (`HoldPreserves`),
one per kind of write, one for the hourly job. From `IInv`: `TypeCorrect`, `RowsAreComplete`,
`RejectionIsFinal`, `DeletionIsFinal` and, from the last two, `DecisionsAlwaysStand`. `NeverADayEarly` is an action
property; it rests on three facts about integer division (`DayBounds`, `DayOrder`, `DaySum`). For the
server, `ServerInv` says that no request and no entry of the timeout job's list
knows of a recovery of a settled grant (`AllSettled`), and that an invitation which is saved
and then accepted at once is known to no one else (`Invitations`), since its second save
asks nothing; hence `ServerDecisionsAlwaysHold`.

**`SessionsProofs`.** `IInv` says that every value in a row or a copy was generated
(`Generated`), that no row and no copy holds a retired value (`RetiredGone`), that refresh
tokens are not used as anything else (`TokensAreNotSecrets`) nor by two devices
(`TokensOfOneDevice`), that after an undisturbed disabling only copies of
`admin_enable_user` are enabled (`OnlyEnable`), and that no one is about to write the
row of a device that was signed out (`NoWriters`). From it: `TypeCorrect`,
`RotationIsFinal`, `DisablingIsFinal`, `SignOutIsFinal`, `RefreshTokensUnambiguous`,
`DevicesAlwaysHold`. For the requests to log in with another device `AnswersInv` says that a
copy is as old as its request, also when the row is gone, and that a row that was
denied alone never says yes; `AnswersAlwaysHold` follows for any window and any age of purging.

**`ServerAccountsProofs`.** The server's account differs in that one reset writes many rows.
`AccountInv` says that neither the row nor a copy has a value that was rotated away (`UserGone`),
the same of the refresh tokens, those that a reset is about to give out included (`TokenGone`), that
until `deauth_user` has deleted the devices its new stamp is nowhere else (`StampNew`), that a reset
has given a new token to every device it is past, unless an older one was written back meanwhile
(`AllRotated`), and that after an undisturbed disabling there is no device and no request but those
of administrators, or that keep the account disabled (`ShutOut`). Hence `ServerSessionsAlwaysHold`.

**`CleanupProofs`.** For the deletions `DeletionInv` says that a row never lacks the row it refers
to (`Closed`), that what the sweep of the buckets leaves is named by no row (`Swept`), and of a deletion
that nothing disturbed that the rows left are those of the tables still ahead of it (`Covers`, `Ahead`).
The order of the statements is what makes this inductive: in each of the three lists every
table comes after those that refer to it (`CleanupOrder`, `OrgOrder`, `AdminOrder`, combined in `WalkOrder`),
hence no foreign key stands in the way (`NotReferred`): `AlwaysDeletesAll`, for any number of rows, where the
run bounds them by `MaxRows`. `GoneOwners` says that no request is about to save a row that was
deleted for good: `DeletedStaysDeleted`. For the incomplete logins `IInv` relates the mails sent to where the
trigger stands (`MailsPending`, `MailedFirst`), and the completed logins to the table and to
the rows selected (`PassedUntracked`, `NothingFinished`). From it:
`TypeCorrect`, `JustifiedReminders`, the action property `NoReminderLost`, and `PromiseKept`: that the module
implements `Reminders`, by one step per action (`PromiseStep`).

**`SendsProofs`.** `IInv` has four parts: `Typed`; `MintedOK`, a uuid that was not generated
has left no trace; `CountsOK`, a copy that will be saved has counted the accesses granted, its
own included, and has the settings of the row unless a write overlapped (`CopyExact`), and
a download token has the date of its send (`TokensExact`); `FilesOK`, a send is a text or a file for good,
in the row and in every copy (`KindsOK`, which says that *some* assignment of kinds fits, so that
no variable has to be added), every object has an owner, and the trigger's list still names the objects
of the sends it is to delete (`SweepExact`). From it: `TypeCorrect`, `AccessesAlwaysCounted` (an
action property, with `GrantedWithin` for the limit) and, with a second invariant about how long a token has to go
(`TokensEnd`), `FilesAlwaysAccounted`.

**`TwoFactorReads`, `TwoFactorProofs`.** One argument in two modules: the first has the invariant
and the handlers that only read, the second the statements that write. `IInv` says that
a code belongs to one row, by *some* assignment of codes to rows (`Owned`); that a code
held by two requests is marked as raced (`HeldOnce`); that a stored row has counted the wrong guesses at its
code, or the request that checked the last one is about to save it (`StoredCounts`); that no copy that will
be saved is of a deleted row; and that a recovery still has to delete every row it does
not answer for (`Clears`). From it: `TypeCorrect`, `CodesAlwaysHold`, `FactorsStayRemoved`.

**`AccessProofs`.** For the access rules of the server no reasoning over time is
needed beyond well-formed rows (`RowsOK`) and statements (`TodoOK`): `RowsStayWellFormed`. On such rows the rules are
compared as they are written, one lemma per pair (`SameAccess` and those after it): `SyncAlwaysAgrees`, `UpdatesNeverStuck`.
That a removed member keeps no link does need it: `LeftOK` says that no statement still to
be run gives a member who left a link without looking the member up, and `RemovalsOK` how far a
removal has come and what it has achieved if no other request started since. From it:
`RemovedStayUnlinked`, and with `UpdatesNeverStuck` `AccessAlwaysHolds`. The theorems assume that
the collections are finite (stated as: every subset has a cardinality that is a natural number), that the
rights of a link are records of three flags, and that `None` is not a row.

**Only model-checked**: all liveness properties (`NotDueForever`, `RecoveryResolved`,
`ExpiredPurged`, `AuthRequestsPurged`), since neither fairness nor ENABLED is in the prover's
reach; what sums over a data structure (`RateLimit` folds over its counters, `ServerCiphers` over the sizes of files), which needs induction over data; and, on the instances above, `Memberships`, `Vault`, `Links`,
`Signup`, `KeyRotation`, `ApiKeys`, `ServerMembers`, `ServerSends`, `ServerTwoFactor`,
`ServerCiphers`, whose invariants are not proved yet. Those of them that take
their sequence helpers from the community modules reach recursive operators, and would first have
to do without them. The type invariants of `Memberships`, `Vault` and `Links` are part of `RowsHold`,
`CiphersHold` and `LinksIntact`.

## 6. What is not modelled

| Part | Why |
|---|---|
| Policies of the worker | one row per organization and type under a UNIQUE key; no handler asks them |
| Import, contents of items, archive flag of the worker | data without control of its own |
| Change of the email address, profile fields | columns that no modelled handler reads |
| Notifications, push, events, mail | best effort, results ignored, no state others read; a mail between two statements is a step that may fail |
| Sync and list handlers, icons, static files | read-only; the rights the server's sync computes are in `ServerAccess` |
| Cryptography, JWT, TOTP arithmetic, configuration | pure functions; tokens and codes are modelled by what they carry |
| SSO, Duo contexts, `invitations` of the worker | tables that no handler writes |
| SSO client, Duo of the server | conversations with another service; what they do to an account is in `Signup` and `ServerAccounts` |
| Daily trigger | single DELETE statements on tables nothing else reads |
| Database layer, storage back ends, migrations of the server | plumbing; a statement or a file operation is atomic in the models |
| Auth requests and rate limiter of the server | the first as in the worker, the second a library |

## 7. Plan

1. *Refine*: an abstract store in which a handler is one atomic step, implemented by the
   read-then-upsert modules as long as requests do not overlap (`Memberships` and `Vault`
   already keep that store in `want`; `clean` and `torn` are the condition in the server's
   modules). `IncompleteLogins` and `Reminders` show the form.
2. *Prove*: `Memberships` (`RolesGranted`, `ConfirmedRightly`), `Vault` (`RowHolds`),
   `Signup` (`RegisteredOnce`), in this order; type correctness of each first.
3. *Model*: the import of a vault in both programs; auth requests of the server.
