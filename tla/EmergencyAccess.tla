-------------------------- MODULE EmergencyAccess --------------------------
(***************************************************************************)
(* Emergency access of the Worker: a grantor invites a contact, who may    *)
(* later recover the account after a waiting period.                       *)
(*                                                                         *)
(*   Invited -> Accepted -> Confirmed -> RecoveryInitiated                 *)
(*                              ^------------> RecoveryApproved            *)
(*                                                                         *)
(* Source: worker/src/api/emergency_access.rs (the handlers),              *)
(* worker/src/db/models/emergency_access.rs (the table) and the hourly     *)
(* branch of run_purges in worker/src/lib.rs.                              *)
(*                                                                         *)
(* Every handler reads a row, changes the copy and writes the WHOLE row    *)
(* back with one upsert.  Each statement is atomic in D1, but nothing      *)
(* holds the row between the read and the write, so a handler is two       *)
(* steps: the read with all of its checks, which leaves a copy in "req",   *)
(* and the write.  The hourly job does the same with a batch of copies.    *)
(***************************************************************************)
EXTENDS Integers, FiniteSets

CONSTANTS
    Users,          \* the accounts; a user's address is the user
    Nobody,         \* a NULL grantor, grantee or address
    Grants,         \* row uuids
    Requests,       \* slots for requests in flight
    DayLength,      \* clock ticks in a day
    MaxWait,        \* BOUND: the largest wait_time_days asked for
    MaxTime         \* BOUND: the last value of the clock

ASSUME NobodyAssumption == Nobody \notin Users
ASSUME TimeAssumption ==
    /\ DayLength \in Nat \ {0}
    /\ MaxWait \in Nat \ {0}
    /\ MaxTime \in Nat

STATUS_INVITED == 0
STATUS_ACCEPTED == 1
STATUS_CONFIRMED == 2
STATUS_RECOVERY_INITIATED == 3
STATUS_RECOVERY_APPROVED == 4

TYPE_VIEW == 0
TYPE_TAKEOVER == 1

NoDate == -1        \* recovery_initiated_at = NULL

VARIABLES
    now,        \* the clock, in ticks since some midnight
    live,       \* the uuids that have a row in emergency_access
    row,        \* the content of each row
    minted,     \* uuids handed out so far; Uuid::new_v4 never repeats one
    req,        \* requests between their read and their write
    cronPc,     \* where the hourly job stands
    todo,       \* copies pending_reminders returned, not yet written back
    password,   \* who chose each account's current master password
    closed      \* HISTORY: how the grantor last closed each grant, below

vars == <<now, live, row, minted, req, cronPc, todo, password, closed>>

\* updated_at, created_at and last_notification_at are left out: the first two
\* are never read, the last only spaces reminders 15 minutes apart, which an
\* hourly job always satisfies.
Person == Users \cup {Nobody}

Row == [grantor : Person, email : Person, grantee : Person,
        atype : {TYPE_VIEW, TYPE_TAKEOVER}, status : 0..4,
        wait : 1..MaxWait, key : BOOLEAN, initiated : Int]

\* The content of a row that is not live has no meaning.
Blank == [grantor |-> Nobody, email |-> Nobody, grantee |-> Nobody,
          atype |-> TYPE_VIEW, status |-> STATUS_INVITED,
          wait |-> 1, key |-> FALSE, initiated |-> NoDate]

Ops == {"invite", "update_access", "accept", "confirm", "initiate",
        "approve", "reject", "delete_access", "takeover_password"}

Saves == Ops \ {"delete_access", "takeover_password"}

Pending == {STATUS_RECOVERY_INITIATED, STATUS_RECOVERY_APPROVED}

-----------------------------------------------------------------------------
(* Requests in flight. *)

Free(r) == \A q \in req : q.id # r

\* The read half of a handler: the checked and changed copy "e" stays in
\* memory until the write.
Hold(r, op, u, g, e) ==
    /\ Free(r)
    /\ req' = req \cup {[id |-> r, op |-> op, user |-> u, grant |-> g, row |-> e]}
    /\ UNCHANGED <<now, live, row, cronPc, todo, password, closed>>

\* load(): the row must exist.
Load(g) == g \in live

assert_grantor(e, u) == e.grantor = u
assert_grantee(e, u) == e.grantee = u

-----------------------------------------------------------------------------
(* The handlers: the read, the checks and the change of the copy. *)

\* MUTANT: the uuid is not fresh.
invite_ReusedUuid(r, u, g, addr, t, d, known) ==
    /\ addr # u
    /\ minted' = minted \cup {g}
    /\ Hold(r, "invite", u, g,
            [grantor |-> u, email |-> addr,
             grantee |-> IF known THEN addr ELSE Nobody,
             atype |-> t, status |-> STATUS_INVITED,
             wait |-> IF d < 1 THEN 1 ELSE d,
             key |-> FALSE, initiated |-> NoDate])

\* The invited address may or may not belong to an account yet ("known").
invite(r, u, g, addr, t, d, known) ==
    /\ addr # u
    /\ g \notin minted
    /\ minted' = minted \cup {g}
    /\ Hold(r, "invite", u, g,
            [grantor |-> u, email |-> addr,
             grantee |-> IF known THEN addr ELSE Nobody,
             atype |-> t, status |-> STATUS_INVITED,
             wait |-> IF d < 1 THEN 1 ELSE d,
             key |-> FALSE, initiated |-> NoDate])

update_access(r, u, g, t, d) ==
    /\ Load(g)
    /\ assert_grantor(row[g], u)
    /\ UNCHANGED minted
    /\ Hold(r, "update_access", u, g,
            [row[g] EXCEPT !.atype = t, !.wait = IF d < 1 THEN 1 ELSE d])

delete_access(r, u, g) ==
    /\ Load(g)
    /\ assert_grantor(row[g], u) \/ assert_grantee(row[g], u)
    /\ UNCHANGED minted
    /\ Hold(r, "delete_access", u, g, row[g])

accept(r, u, g) ==
    /\ Load(g)
    /\ row[g].email = u
    /\ UNCHANGED minted
    /\ Hold(r, "accept", u, g,
            [row[g] EXCEPT !.grantee = u,
                           !.status = IF @ = STATUS_INVITED THEN STATUS_ACCEPTED
                                                            ELSE @])

\* MUTANT: the status check is dropped.
confirm_AnyStatus(r, u, g) ==
    /\ Load(g)
    /\ assert_grantor(row[g], u)
    /\ UNCHANGED minted
    /\ Hold(r, "confirm", u, g,
            [row[g] EXCEPT !.key = TRUE, !.status = STATUS_CONFIRMED])

confirm(r, u, g) ==
    /\ Load(g)
    /\ assert_grantor(row[g], u)
    /\ row[g].status = STATUS_ACCEPTED
    /\ UNCHANGED minted
    /\ Hold(r, "confirm", u, g,
            [row[g] EXCEPT !.key = TRUE, !.status = STATUS_CONFIRMED])

\* MUTANT: recovery_initiated_at is not set.
initiate_NoDate(r, u, g) ==
    /\ now + MaxWait * DayLength <= MaxTime
    /\ Load(g)
    /\ assert_grantee(row[g], u)
    /\ row[g].status = STATUS_CONFIRMED
    /\ UNCHANGED minted
    /\ Hold(r, "initiate", u, g,
            [row[g] EXCEPT !.status = STATUS_RECOVERY_INITIATED])

\* BOUND: a recovery starts only while its longest wait still fits the clock.
initiate(r, u, g) ==
    /\ now + MaxWait * DayLength <= MaxTime
    /\ Load(g)
    /\ assert_grantee(row[g], u)
    /\ row[g].status = STATUS_CONFIRMED
    /\ UNCHANGED minted
    /\ Hold(r, "initiate", u, g,
            [row[g] EXCEPT !.status = STATUS_RECOVERY_INITIATED,
                           !.initiated = now])

approve(r, u, g) ==
    /\ Load(g)
    /\ assert_grantor(row[g], u)
    /\ row[g].status = STATUS_RECOVERY_INITIATED
    /\ UNCHANGED minted
    /\ Hold(r, "approve", u, g,
            [row[g] EXCEPT !.status = STATUS_RECOVERY_APPROVED])

reject(r, u, g) ==
    /\ Load(g)
    /\ assert_grantor(row[g], u)
    /\ row[g].status \in Pending
    /\ UNCHANGED minted
    /\ Hold(r, "reject", u, g, [row[g] EXCEPT !.status = STATUS_CONFIRMED])

\* What the grantee may do with an approved recovery: view answers the
\* grantor's vault, takeover the key to re-wrap it.
CanView(g, u) ==
    /\ Load(g)
    /\ assert_grantee(row[g], u)
    /\ row[g].atype = TYPE_VIEW
    /\ row[g].status = STATUS_RECOVERY_APPROVED

CanTakeover(g, u) ==
    /\ Load(g)
    /\ assert_grantee(row[g], u)
    /\ row[g].atype = TYPE_TAKEOVER
    /\ row[g].status = STATUS_RECOVERY_APPROVED

\* takeover_password checks the grant, then reads the grantor's user row.
takeover_password(r, u, g) ==
    /\ CanTakeover(g, u)
    /\ UNCHANGED minted
    /\ Hold(r, "takeover_password", u, g, row[g])

-----------------------------------------------------------------------------
(* The writes. *)

\* Another writer still holds a copy of the grant that is pending.  A copy
\* held by initiate starts a recovery of its own and does not count.
HeldPending(g, others) ==
    \/ \E q \in others : /\ q.grant = g
                         /\ q.op # "initiate"
                         /\ q.row.status \in Pending
    \/ \E c \in todo : c.grant = g

Held(g, others) == \/ \E q \in others : q.grant = g
                   \/ \E c \in todo : c.grant = g

\* HISTORY: closed[g] is "rejected" once a reject of g was saved while no
\* other writer held a pending copy, "raced" if one did, "deleted" once g was
\* deleted while no writer held any copy, and "open" again once an initiate or
\* an approve was saved.
ClosedAfterSave(q) ==
    CASE q.op = "reject" ->
            IF HeldPending(q.grant, req \ {q}) THEN "raced" ELSE "rejected"
      [] q.op \in {"initiate", "approve"} -> "open"
      [] OTHER -> closed[q.grant]

\* EmergencyAccess::save: one upsert of the whole row.
save(q) ==
    /\ q.op \in Saves
    /\ row' = [row EXCEPT ![q.grant] = q.row]
    /\ live' = live \cup {q.grant}
    /\ req' = req \ {q}
    /\ closed' = [closed EXCEPT ![q.grant] = ClosedAfterSave(q)]
    /\ UNCHANGED <<now, minted, cronPc, todo, password>>

\* EmergencyAccess::delete.
delete(q) ==
    /\ q.op = "delete_access"
    /\ live' = live \ {q.grant}
    /\ row' = [row EXCEPT ![q.grant] = Blank]
    /\ req' = req \ {q}
    /\ closed' = [closed EXCEPT ![q.grant] =
                      IF Held(q.grant, req \ {q}) THEN @ ELSE "deleted"]
    /\ UNCHANGED <<now, minted, cronPc, todo, password>>

\* The second half of takeover_password: the grantor's row gets the grantee's
\* new password; the grant is not read again and not changed.
setPassword(q) ==
    /\ q.op = "takeover_password"
    /\ password' = [password EXCEPT ![q.row.grantor] = q.user]
    /\ req' = req \ {q}
    /\ UNCHANGED <<now, live, row, minted, cronPc, todo, closed>>

\* The last statement of a handler fails: it answers an error.
fail(q) ==
    /\ req' = req \ {q}
    /\ UNCHANGED <<now, live, row, minted, cronPc, todo, password, closed>>

-----------------------------------------------------------------------------
(* The hourly job. *)

Day(t) == t \div DayLength

\* MUTANTS: the status condition is dropped; the wait is one day short.
Due_AnyStatus(e) ==
    /\ e.initiated # NoDate
    /\ Day(e.initiated) + e.wait <= Day(now)

Due_DayShort(e) ==
    /\ e.status = STATUS_RECOVERY_INITIATED
    /\ e.initiated # NoDate
    /\ Day(e.initiated) + e.wait - 1 <= Day(now)

\* datetime(recovery_initiated_at, '+N days') <= now compares TEXT: the left
\* side reads "YYYY-MM-DD HH:MM:SS", the right side "YYYY-MM-DDTHH:...", and
\* ' ' sorts before 'T'.  On the due day the comparison is true from midnight.
Due(e) ==
    /\ e.status = STATUS_RECOVERY_INITIATED
    /\ e.initiated # NoDate
    /\ Day(e.initiated) + e.wait <= Day(now)

\* One UPDATE statement approves every due row.
auto_approve_due ==
    /\ cronPc = "idle"
    /\ row' = [g \in Grants |-> IF g \in live /\ Due(row[g])
                                THEN [row[g] EXCEPT !.status = STATUS_RECOVERY_APPROVED]
                                ELSE row[g]]
    /\ cronPc' = "reminders"
    /\ UNCHANGED <<now, live, minted, req, todo, password, closed>>

\* One SELECT copies the rows that are still waiting.
pending_reminders ==
    /\ cronPc = "reminders"
    /\ todo' = {[grant |-> g, row |-> row[g]] :
                    g \in {h \in live : /\ row[h].status = STATUS_RECOVERY_INITIATED
                                        /\ row[h].initiated # NoDate}}
    /\ cronPc' = "mailing"
    /\ UNCHANGED <<now, live, row, minted, req, password, closed>>

\* For each copy: mail the grantor, stamp last_notification_at, save the copy.
\* A copy whose grantor or grantee is gone is skipped, and a save that fails is
\* ignored.
remind(c) ==
    /\ cronPc = "mailing"
    /\ todo' = todo \ {c}
    /\ \/ UNCHANGED <<live, row>>
       \/ /\ c.row.grantee # Nobody
          /\ row' = [row EXCEPT ![c.grant] = c.row]
          /\ live' = live \cup {c.grant}
    /\ UNCHANGED <<now, minted, req, cronPc, password, closed>>

remindersDone ==
    /\ cronPc = "mailing"
    /\ todo = {}
    /\ cronPc' = "idle"
    /\ UNCHANGED <<now, live, row, minted, req, todo, password, closed>>

Hourly == \/ auto_approve_due
          \/ pending_reminders
          \/ \E c \in todo : remind(c)
          \/ remindersDone

Tick ==
    /\ now < MaxTime
    /\ now' = now + 1
    /\ UNCHANGED <<live, row, minted, req, cronPc, todo, password, closed>>

-----------------------------------------------------------------------------
(* The specification. *)

Init ==
    /\ now = 0
    /\ live = {}
    /\ row = [g \in Grants |-> Blank]
    /\ minted = {}
    /\ req = {}
    /\ cronPc = "idle"
    /\ todo = {}
    /\ password = [u \in Users |-> u]
    /\ closed = [g \in Grants |-> "open"]

Handler(r, u, g) ==
    \/ \E addr \in Users, t \in {TYPE_VIEW, TYPE_TAKEOVER},
          d \in 0..MaxWait, known \in BOOLEAN : invite(r, u, g, addr, t, d, known)
    \/ \E t \in {TYPE_VIEW, TYPE_TAKEOVER}, d \in 0..MaxWait :
          update_access(r, u, g, t, d)
    \/ delete_access(r, u, g)
    \/ accept(r, u, g)
    \/ confirm(r, u, g)
    \/ initiate(r, u, g)
    \/ approve(r, u, g)
    \/ reject(r, u, g)
    \/ takeover_password(r, u, g)

Write(q) == save(q) \/ delete(q) \/ setPassword(q)

Next == \/ \E r \in Requests, u \in Users, g \in Grants : Free(r) /\ Handler(r, u, g)
        \/ \E q \in req : Write(q) \/ fail(q)
        \/ Hourly
        \/ Tick

Spec == Init /\ [][Next]_vars

\* Cron triggers fire every hour whatever the requests do, the runtime runs a
\* started request to its end, and time passes.
Fairness == /\ WF_vars(Hourly)
            /\ WF_vars(Tick)
            /\ WF_vars(\E q \in req : Write(q))

FairSpec == Spec /\ Fairness

-----------------------------------------------------------------------------
(* Properties. *)

\* Every variable holds a value of its type.
TypeOK ==
    /\ now \in 0..MaxTime
    /\ live \subseteq Grants
    /\ row \in [Grants -> Row]
    /\ minted \subseteq Grants
    /\ \A q \in req : /\ q.id \in Requests
                      /\ q.op \in Ops
                      /\ q.user \in Users
                      /\ q.grant \in Grants
                      /\ q.row \in Row
    /\ cronPc \in {"idle", "reminders", "mailing"}
    /\ \A c \in todo : c.grant \in Grants /\ c.row \in Row
    /\ password \in [Users -> Users]
    /\ closed \in [Grants -> {"open", "rejected", "raced", "deleted"}]

\* What a row needs at each status: a grantee from Accepted on, the wrapped key
\* from Confirmed on, the start of the wait from RecoveryInitiated on (a row at
\* RecoveryInitiated without it would never be approved by the hourly job).
Complete(e) ==
    /\ e.status >= STATUS_ACCEPTED => e.grantee # Nobody
    /\ e.status >= STATUS_CONFIRMED => e.key
    /\ e.status >= STATUS_RECOVERY_INITIATED => e.initiated # NoDate

\* No interleaving of the handlers and the hourly job stores a row that has
\* outrun its flow: accept fills the grantee, confirm the key, initiate the
\* date, whatever stale copies are written back in between.
RowsComplete == \A g \in live : Complete(row[g])

\* A reject whose save overlapped no other writer is final: until the grantee
\* starts a new recovery, neither view nor takeover answers, and no
\* takeover_password is still about to replace the grantor's password.
RejectionHolds ==
    \A g \in Grants : closed[g] = "rejected" =>
        /\ \A u \in Users : ~CanView(g, u) /\ ~CanTakeover(g, u)
        /\ \A q \in req : q.grant = g => q.op # "takeover_password"

\* A grant deleted while no request and no reminder held a copy of it never
\* comes back, although every save is an upsert that could re-insert it.
DeletionHolds == \A g \in Grants : closed[g] = "deleted" => g \notin live

\* What the grantor or the grantee decided without an overlapping writer, a
\* rejection or a deletion, stands.
DecisionsStand == RejectionHolds /\ DeletionHolds

\* The hourly job compares timestamps as texts of two formats, so it may approve
\* before the wait window has elapsed; but never as much as a day before.
ApprovedAtMostADayEarly ==
    [][auto_approve_due =>
         \A g \in live : row'[g].status # row[g].status =>
             row[g].initiated + (row[g].wait - 1) * DayLength < now]_vars

\* A recovery that was initiated does not wait for ever: the hourly job
\* approves it, or the grantor decides or deletes it first.
RecoveryResolved ==
    \A g \in Grants :
        (g \in live /\ row[g].status = STATUS_RECOVERY_INITIATED)
            ~> (g \notin live \/ row[g].status # STATUS_RECOVERY_INITIATED)
=============================================================================
