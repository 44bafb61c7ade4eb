-------------------------- MODULE ServerEmergency ---------------------------
(***************************************************************************)
(* Emergency access of the upstream server: the handlers and the two jobs  *)
(* of src/api/core/emergency_access.rs over src/db/models/                 *)
(* emergency_access.rs, for the grants of one grantor to one contact.      *)
(*                                                                         *)
(* A handler reads the row, checks and changes its copy, and saves the     *)
(* whole copy; the jobs list rows and then update single columns, because  *)
(* both may run at once.  Requests and jobs interleave between a read and  *)
(* the write that follows it.                                              *)
(***************************************************************************)
EXTENDS Integers

CONSTANTS
    Grants,       \* row uuids; EmergencyAccess::new never repeats one
    Requests,     \* request slots
    None,         \* no row, no date
    Types,        \* bound: the EmergencyAccessTypes asked for
    Waits,        \* bound: the wait_time_days asked for
    MaxDay        \* bound: the last day

VARIABLES
    mail,        \* CONFIG.mail_enabled()
    day,         \* the date
    contact,     \* the contact's user row: "none", "stub" or "user"
    row,         \* emergency_access rows or None
    minted,      \* uuids handed out
    req,         \* requests between their read and their write
    timeout,     \* rows the timeout job listed and has not handled
    reminder,    \* rows the reminder job listed and has not handled
    taken,       \* what takeovers replaced or deleted: parts of TakeoverSteps
    closed,      \* HISTORY: grants rejected while nobody held a pending copy
    decided      \* HISTORY: grants the timeout job approved, until a request writes

vars == <<mail, day, contact, row, minted, req, timeout, reminder, taken, closed, decided>>

Invited == 0
Accepted == 1
Confirmed == 2
RecoveryInitiated == 3
RecoveryApproved == 4

\* the statements of a takeover
TakeoverSteps == {"password", "factors", "memberships"}

EmergencyAccess_new(t, w) ==
    [grantee |-> FALSE, email |-> TRUE, status |-> Invited, atype |-> t, wait |-> w,
     initiated |-> None, notified |-> None]

-----------------------------------------------------------------------------
(* Handlers: the read, the checks and the changed copy.                    *)

Hold(r, op, g, e) ==
    /\ \A q \in req : q.id # r
    /\ req' = req \cup {[id |-> r, op |-> op, grant |-> g, row |-> e]}
    /\ UNCHANGED <<mail, day, row, timeout, reminder, taken, closed, decided>>

ByGrantor(g) == row[g] # None
ByGrantee(g) == row[g] # None /\ row[g].grantee

post_emergency_access(r, g) ==
    \E t \in Types, w \in Waits :
        /\ ByGrantor(g)
        /\ Hold(r, "save", g, [row[g] EXCEPT !.atype = t, !.wait = w])
        /\ UNCHANGED <<contact, minted>>

delete_emergency_access(r, g) ==
    /\ ByGrantor(g)
    /\ Hold(r, "delete", g, row[g])
    /\ UNCHANGED <<contact, minted>>

\* EmergencyAccess::accept_invite on a copy
accept_copy(e) == [e EXCEPT !.status = Accepted, !.grantee = TRUE, !.email = FALSE]
Acceptable(e) == e.email /\ e.status # Accepted

\* one grant to a contact at a time; the row is saved, and saved again accepted
\* when the contact has an account and there is no mail to invite by
send_invite(r, g) ==
    \E t \in Types, w \in Waits :
        /\ g \notin minted
        /\ \A h \in Grants : row[h] = None
        /\ minted' = minted \cup {g}
        /\ contact' = IF contact = "none" THEN "stub" ELSE contact
        /\ Hold(r, IF ~mail /\ contact = "user" THEN "save, accept" ELSE "save", g,
                EmergencyAccess_new(t, w))

\* with mail, or for a stub, only the invitation is sent again
resend_invite(r, g) ==
    /\ ByGrantor(g) /\ row[g].status = Invited /\ row[g].email
    /\ ~mail /\ contact = "user"
    /\ Hold(r, "save", g, accept_copy(row[g]))
    /\ UNCHANGED <<contact, minted>>

accept_invite(r, g) ==
    /\ contact = "user"
    /\ row[g] # None /\ Acceptable(row[g])
    /\ Hold(r, "save", g, accept_copy(row[g]))
    /\ UNCHANGED <<contact, minted>>

confirm_emergency_access(r, g) ==
    /\ ByGrantor(g) /\ row[g].status = Accepted /\ row[g].grantee
    /\ Hold(r, "save", g, [row[g] EXCEPT !.status = Confirmed, !.email = FALSE])
    /\ UNCHANGED <<contact, minted>>

initiate_emergency_access(r, g) ==
    /\ ByGrantee(g) /\ row[g].status = Confirmed
    /\ Hold(r, "initiate", g, [row[g] EXCEPT !.status = RecoveryInitiated,
                                             !.initiated = day, !.notified = day])
    /\ UNCHANGED <<contact, minted>>

approve_emergency_access(r, g) ==
    /\ ByGrantor(g) /\ row[g].status = RecoveryInitiated /\ row[g].grantee
    /\ Hold(r, "approve", g, [row[g] EXCEPT !.status = RecoveryApproved])
    /\ UNCHANGED <<contact, minted>>

reject_emergency_access(r, g) ==
    /\ ByGrantor(g) /\ row[g].grantee
    /\ row[g].status \in {RecoveryInitiated, RecoveryApproved}
    /\ Hold(r, "reject", g, [row[g] EXCEPT !.status = Confirmed])
    /\ UNCHANGED <<contact, minted>>

is_valid_request(g, t) ==
    ByGrantee(g) /\ row[g].status = RecoveryApproved /\ row[g].atype = t

\* what the contact can reach through a grant
view_emergency_access(g) == is_valid_request(g, "View")
takeover_emergency_access(g) == is_valid_request(g, "Takeover")
policies_emergency_access(g) == is_valid_request(g, "Takeover")

password_emergency_access(r, g) ==
    /\ is_valid_request(g, "Takeover")
    /\ Hold(r, "password", g, row[g])
    /\ UNCHANGED <<contact, minted>>

-----------------------------------------------------------------------------
(* Writes.                                                                 *)

Done(q) == req' = req \ {q}

\* a copy that could put the grant back to a running recovery; the copy of a
\* new initiation is not one
Holders(g, others) ==
    \/ \E q \in others : /\ q.grant = g
                         /\ q.op # "initiate"
                         /\ q.row.status >= RecoveryInitiated
    \/ \E c \in timeout : c.grant = g

save(q) ==
    /\ q.op \in {"save", "initiate", "approve", "reject"}
    /\ row' = [row EXCEPT ![q.grant] = q.row]
    /\ closed' = CASE q.op = "reject" /\ ~Holders(q.grant, req \ {q}) -> closed \cup {q.grant}
                   [] q.op \in {"initiate", "approve"} -> closed \ {q.grant}
                   [] OTHER -> closed
    /\ decided' = decided \ {q.grant}
    /\ Done(q)
    /\ UNCHANGED <<mail, day, contact, minted, timeout, reminder, taken>>

save_then_accept(q) ==
    /\ q.op = "save, accept"
    /\ row' = [row EXCEPT ![q.grant] = q.row]
    /\ req' = (req \ {q}) \cup {[q EXCEPT !.op = "save", !.row = accept_copy(q.row)]}
    /\ UNCHANGED <<mail, day, contact, minted, timeout, reminder, taken, closed, decided>>

delete(q) ==
    /\ q.op = "delete"
    /\ row' = [row EXCEPT ![q.grant] = None]
    /\ decided' = decided \ {q.grant}
    /\ Done(q)
    /\ UNCHANGED <<mail, day, contact, minted, timeout, reminder, taken, closed>>

\* one statement of a takeover, and the one after it
TakeOver(q, next) ==
    /\ taken' = taken \cup {q.op}
    /\ req' = (req \ {q}) \cup next
    /\ UNCHANGED <<mail, day, contact, row, minted, timeout, reminder, closed, decided>>

\* the grantor gets the new password
set_password(q) == q.op = "password" /\ TakeOver(q, {[q EXCEPT !.op = "factors"]})

\* TwoFactor::delete_all_by_user: no second factor blocks the login
delete_factors(q) == q.op = "factors" /\ TakeOver(q, {[q EXCEPT !.op = "memberships"]})

\* the grantor leaves every organization they do not own
delete_memberships(q) == q.op = "memberships" /\ TakeOver(q, {})

fail(q) ==
    /\ Done(q)
    /\ UNCHANGED <<mail, day, contact, row, minted, timeout, reminder, taken, closed, decided>>

\* get_contacts drops the invitations of an address that has no user
delete_all_by_grantee_email ==
    /\ contact = "none"
    /\ \E g \in Grants : row[g] # None /\ row[g].email
    /\ row' = [g \in Grants |->
                  IF row[g] # None /\ row[g].email /\ row[g].status = Invited THEN None ELSE row[g]]
    /\ UNCHANGED <<mail, day, contact, minted, req, timeout, reminder, taken, closed, decided>>

\* the contact registers, or an administrator deletes the account, which takes
\* the grants it accepted and the invitations to its address with it
register ==
    /\ contact # "user" /\ contact' = "user"
    /\ UNCHANGED <<mail, day, row, minted, req, timeout, reminder, taken, closed, decided>>

delete_all_by_user ==
    /\ contact # "none" /\ contact' = "none"
    /\ row' = [g \in Grants |->
                  IF row[g] # None /\ (row[g].grantee \/ row[g].status = Invited) THEN None ELSE row[g]]
    /\ UNCHANGED <<mail, day, minted, req, timeout, reminder, taken, closed, decided>>

-----------------------------------------------------------------------------
(* The jobs.                                                               *)

find_all_recoveries_initiated_AnyStatus ==
    {[grant |-> g, row |-> row[g]] : g \in {h \in Grants : /\ row[h] # None
                                                          /\ row[h].initiated # None}}

find_all_recoveries_initiated ==
    {[grant |-> g, row |-> row[g]] : g \in {h \in Grants : /\ row[h] # None
                                                          /\ row[h].status = RecoveryInitiated
                                                          /\ row[h].initiated # None}}

\* the rows of the list that the loop will act on
emergency_request_timeout_job ==
    /\ timeout = {}
    /\ timeout' = {c \in find_all_recoveries_initiated : c.row.initiated + c.row.wait <= day}
    /\ UNCHANGED <<mail, day, contact, row, minted, req, reminder, taken, closed, decided>>

\* only the status is updated, whatever the row has become
update_access_status_and_save(c) ==
    /\ row' = [row EXCEPT ![c.grant] = IF @ = None THEN @ ELSE [@ EXCEPT !.status = RecoveryApproved]]
    /\ decided' = decided \cup {c.grant}
    /\ timeout' = timeout \ {c}
    /\ UNCHANGED <<mail, day, contact, minted, req, reminder, taken, closed>>

emergency_notification_reminder_job ==
    /\ reminder = {}
    /\ reminder' = {c \in find_all_recoveries_initiated :
                      /\ c.row.initiated + (c.row.wait - 1) <= day
                      /\ c.row.notified + 1 <= day}
    /\ UNCHANGED <<mail, day, contact, row, minted, req, timeout, taken, closed, decided>>

update_last_notification_date_and_save_WholeRow(c) ==
    /\ row' = [row EXCEPT ![c.grant] = IF @ = None THEN @ ELSE [c.row EXCEPT !.notified = day]]
    /\ reminder' = reminder \ {c}
    /\ UNCHANGED <<mail, day, contact, minted, req, timeout, taken, closed, decided>>

update_last_notification_date_and_save(c) ==
    /\ row' = [row EXCEPT ![c.grant] = IF @ = None THEN @ ELSE [@ EXCEPT !.notified = day]]
    /\ reminder' = reminder \ {c}
    /\ UNCHANGED <<mail, day, contact, minted, req, timeout, taken, closed, decided>>

\* an expect() on the way ends a job and leaves the rest of its list
job_panics ==
    /\ \/ timeout # {} /\ timeout' = {} /\ UNCHANGED reminder
       \/ reminder # {} /\ reminder' = {} /\ UNCHANGED timeout
    /\ UNCHANGED <<mail, day, contact, row, minted, req, taken, closed, decided>>

next_day ==
    /\ day < MaxDay /\ day' = day + 1
    /\ UNCHANGED <<mail, contact, row, minted, req, timeout, reminder, taken, closed, decided>>

-----------------------------------------------------------------------------
Init ==
    /\ mail \in BOOLEAN
    /\ day = 0
    /\ contact \in {"none", "user"}
    /\ row = [g \in Grants |-> None]
    /\ minted = {} /\ req = {} /\ timeout = {} /\ reminder = {} 
    /\ closed = {} /\ decided = {}
    /\ taken = {}

Handler(r, g) ==
    \/ post_emergency_access(r, g) \/ delete_emergency_access(r, g)
    \/ send_invite(r, g) \/ resend_invite(r, g) \/ accept_invite(r, g)
    \/ confirm_emergency_access(r, g) \/ initiate_emergency_access(r, g)
    \/ approve_emergency_access(r, g) \/ reject_emergency_access(r, g)
    \/ password_emergency_access(r, g)

Next ==
    \/ \E r \in Requests, g \in Grants : Handler(r, g)
    \/ \E q \in req : save(q) \/ save_then_accept(q) \/ delete(q) \/ fail(q)
    \/ \E q \in req : set_password(q) \/ delete_factors(q) \/ delete_memberships(q)
    \/ delete_all_by_grantee_email \/ register \/ delete_all_by_user
    \/ emergency_request_timeout_job
    \/ \E c \in timeout : update_access_status_and_save(c)
    \/ emergency_notification_reminder_job
    \/ \E c \in reminder : update_last_notification_date_and_save(c)
    \/ job_panics \/ next_day

Spec == Init /\ [][Next]_vars

-----------------------------------------------------------------------------
\* A rejection saved while neither a request nor the timeout job held a copy of
\* the running recovery is final: until the contact initiates again nothing can
\* be viewed or taken over, and no statement of a takeover is still to come.  The
\* date of the old initiation stays in the row, so the jobs must keep away from it.
ServerRejectionHolds ==
    \A g \in closed :
        /\ ~view_emergency_access(g) /\ ~takeover_emergency_access(g)
        /\ \A q \in req : q.grant = g => q.op \notin TakeoverSteps

\* "Updating the whole record could cause issues when the other job is active":
\* an approval by the timeout job stands until a request decides otherwise,
\* although the reminder job may have listed the row while it was still waiting.
JobsKeepDecisions ==
    \A g \in decided : row[g] # None => row[g].status = RecoveryApproved

\* Neither the handlers nor the two jobs undo a decision on the server.
ServerDecisionsHold == ServerRejectionHolds /\ JobsKeepDecisions
=============================================================================
