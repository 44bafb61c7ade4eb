-------------------------- MODULE IncompleteLogins --------------------------
(* The logins of one user that stop at the two-factor prompt: the rows of    *)
(* twofactor_incomplete, one per device, written and removed by              *)
(* password_grant, and the reminders that the hourly trigger sends about     *)
(* them.  Which code passes is the business of module TwoFactor.  The names  *)
(* of the specification say Logins, so that it can be extended with others.  *)
EXTENDS Integers

CONSTANTS
    Devices,   \* device identifiers
    LoginIds,  \* logins that may be in flight at once
    Patience   \* the age at which an incomplete login earns a reminder

ASSUME PatienceAssumption == Patience \in Nat \ {0}

VARIABLES
    incomplete,  \* the age of each device's row (login_time against the clock,
                 \* no further than Patience), or None
    logins,      \* logins in flight
    cron,        \* the hourly trigger
    mails,       \* HISTORY: reminders sent about the row
    outcome,     \* HISTORY: what became of the last login tracked on a device
    nagged       \* HISTORY: devices reminded of a challenge passed before that

loginVars == <<incomplete, logins, cron, mails, outcome, nagged>>

None == -1

\* A login that is not open any more passed its challenge, or was completed in a
\* way that left its row.
Outcome == {"open", "passed", "left"}

Passed == {d \in Devices : outcome[d] = "passed"}

Login == [id : LoginIds, dev : Devices, at : {"track", "untrack", "delete"}]

FreeLogin(r) == \A q \in logins : q.id # r

-----------------------------------------------------------------------------
(* password_grant *)

\* No provider is named: the login is about to be tracked.
require_two_factor(r, d) ==
    /\ FreeLogin(r)
    /\ logins' = logins \cup {[id |-> r, dev |-> d, at |-> "track"]}
    /\ UNCHANGED <<incomplete, cron, mails, outcome, nagged>>

\* The code of the second factor was right.
pass_two_factor(r, d) ==
    /\ FreeLogin(r)
    /\ logins' = logins \cup {[id |-> r, dev |-> d, at |-> "untrack"]}
    /\ UNCHANGED <<incomplete, cron, mails, outcome, nagged>>

\* The login that waits on the device, if any, is completed and keeps its row.
Leave(d) == outcome' = [outcome EXCEPT ![d] = IF @ = "passed" THEN @ ELSE "left"]

\* No factor is active any more, or the device is remembered: the login goes on
\* past the challenge, and does not look at the row.
skip_two_factor(d) ==
    /\ Leave(d)
    /\ UNCHANGED <<incomplete, logins, cron, mails, nagged>>

\* TwoFactorIncomplete::save, with the time of this login.
track(q) ==
    /\ q.at = "track"
    /\ logins' = logins \ {q}
    /\ incomplete' = [incomplete EXCEPT ![q.dev] = 0]
    /\ cron' = [cron EXCEPT !.renewed = @ \/ (cron.at = "delete" /\ cron.dev = q.dev)]
    /\ mails' = [mails EXCEPT ![q.dev] = 0]
    /\ outcome' = [outcome EXCEPT ![q.dev] = "open"]
    /\ UNCHANGED nagged

\* MUTANT: the row stays when the challenge was passed.
untrack_Not(q) ==
    /\ q.at = "untrack"
    /\ logins' = logins \ {q}
    /\ outcome' = [outcome EXCEPT ![q.dev] = "passed"]
    /\ UNCHANGED <<incomplete, cron, mails, nagged>>

\* TwoFactorIncomplete::find
untrack(q) ==
    /\ q.at = "untrack"
    /\ IF incomplete[q.dev] = None
       THEN /\ logins' = logins \ {q}
            /\ outcome' = [outcome EXCEPT ![q.dev] = "passed"]
       ELSE /\ logins' = (logins \ {q}) \cup {[q EXCEPT !.at = "delete"]}
            /\ UNCHANGED outcome
    /\ UNCHANGED <<incomplete, cron, mails, nagged>>

\* TwoFactorIncomplete::delete, by user and device
delete_tracked(q) ==
    /\ q.at = "delete"
    /\ logins' = logins \ {q}
    /\ incomplete' = [incomplete EXCEPT ![q.dev] = None]
    /\ mails' = [mails EXCEPT ![q.dev] = 0]
    /\ outcome' = [outcome EXCEPT ![q.dev] = "passed"]
    /\ UNCHANGED <<cron, nagged>>

\* The request goes on when a statement fails: to the prompt without a row, or
\* to the end of a login whose row stays.
statement_fails(q) ==
    /\ logins' = logins \ {q}
    /\ IF q.at = "track" THEN UNCHANGED outcome ELSE Leave(q.dev)
    /\ UNCHANGED <<incomplete, cron, mails, nagged>>

-----------------------------------------------------------------------------
(* run_purges, hourly *)

\* HISTORY in cron: finished, the devices in todo whose challenge had been passed
\* when the rows were selected; sent, the mail about this row went out; renewed, a
\* login was tracked after that.
Cron == [at : {"idle", "mail", "delete"}, todo : SUBSET Devices, dev : Devices,
         finished : SUBSET Devices, sent : BOOLEAN, renewed : BOOLEAN]

\* MUTANT: login_time >= cutoff.
Due_Young(d) == incomplete[d] # None /\ incomplete[d] < Patience

\* login_time <= now - 15 minutes
Due(d) == incomplete[d] = Patience

select_incomplete ==
    /\ cron.at = "idle"
    /\ \E d \in Devices : Due(d)
    /\ cron' = [cron EXCEPT !.at = "mail", !.todo = {d \in Devices : Due(d)},
                            !.finished = {d \in Passed : Due(d)}]
    /\ UNCHANGED <<incomplete, logins, mails, outcome, nagged>>

send_reminder(d) ==
    /\ cron.at = "mail" /\ d \in cron.todo
    /\ mails' = [mails EXCEPT ![d] = @ + 1]
    /\ nagged' = nagged \cup ({d} \cap cron.finished)
    /\ cron' = [cron EXCEPT !.at = "delete", !.dev = d, !.sent = TRUE]
    /\ UNCHANGED <<incomplete, logins, outcome>>

\* The user was not found, or could not be read, or the mail was not accepted:
\* the loop goes on to the DELETE all the same.
send_reminder_fails(d) ==
    /\ cron.at = "mail" /\ d \in cron.todo
    /\ cron' = [cron EXCEPT !.at = "delete", !.dev = d]
    /\ UNCHANGED <<incomplete, logins, mails, outcome, nagged>>

\* On to the next row that was selected.
Advance ==
    cron' = [cron EXCEPT !.at = IF cron.todo = {cron.dev} THEN "idle" ELSE "mail",
                         !.todo = @ \ {cron.dev}, !.sent = FALSE, !.renewed = FALSE]

\* MUTANT: every row of the user goes with the first one.
delete_incomplete_ByUser ==
    /\ cron.at = "delete"
    /\ incomplete' = [d \in Devices |-> None]
    /\ mails' = [mails EXCEPT ![cron.dev] = 0]
    /\ Advance
    /\ UNCHANGED <<logins, outcome, nagged>>

\* By user and device, whatever the login_time is by now.
delete_incomplete ==
    /\ cron.at = "delete"
    /\ incomplete' = [incomplete EXCEPT ![cron.dev] = None]
    /\ mails' = [mails EXCEPT ![cron.dev] = 0]
    /\ Advance
    /\ UNCHANGED <<logins, outcome, nagged>>

\* A failed DELETE is ignored; the row will be selected again.
delete_incomplete_fails ==
    /\ cron.at = "delete"
    /\ mails' = [mails EXCEPT ![cron.dev] = 0]
    /\ Advance
    /\ UNCHANGED <<incomplete, logins, outcome, nagged>>

Tick ==
    /\ incomplete' = [d \in Devices |->
          IF incomplete[d] \in 0 .. Patience - 1 THEN incomplete[d] + 1 ELSE incomplete[d]]
    /\ UNCHANGED <<logins, cron, mails, outcome, nagged>>

-----------------------------------------------------------------------------

LoginsInit ==
    /\ incomplete = [d \in Devices |-> None]
    /\ logins = {}
    /\ cron \in {c \in Cron : c.at = "idle" /\ c.todo = {} /\ c.finished = {}
                               /\ ~c.sent /\ ~c.renewed}
    /\ mails = [d \in Devices |-> 0]
    /\ outcome = [d \in Devices |-> "open"]
    /\ nagged = {}

LoginsNext ==
    \/ \E r \in LoginIds, d \in Devices : require_two_factor(r, d) \/ pass_two_factor(r, d)
    \/ \E d \in Devices : skip_two_factor(d)
    \/ \E q \in logins : track(q) \/ untrack(q) \/ delete_tracked(q) \/ statement_fails(q)
    \/ select_incomplete
    \/ \E d \in Devices : send_reminder(d) \/ send_reminder_fails(d)
    \/ delete_incomplete
    \/ delete_incomplete_fails
    \/ Tick

LoginsSpec == LoginsInit /\ [][LoginsNext]_loginVars

\* The trigger fires every hour and finishes its work, and the DELETE of a row
\* that is tried again and again does not fail every time.
Fairness ==
    /\ WF_loginVars(select_incomplete)
    /\ WF_loginVars(\E d \in Devices : send_reminder(d) \/ send_reminder_fails(d))
    /\ WF_loginVars(delete_incomplete \/ delete_incomplete_fails)
    /\ \A d \in Devices : SF_loginVars(delete_incomplete /\ cron.dev = d)

FairSpec == LoginsSpec /\ Fairness

-----------------------------------------------------------------------------
(* Properties. *)

\* Rows, logins in flight and the state of the trigger are well formed.
LoginsTyped ==
    /\ incomplete \in [Devices -> None .. Patience]
    /\ logins \subseteq Login
    /\ \A q, p \in logins : q.id = p.id => q = p
    /\ cron \in Cron
    /\ cron.at = "idle" <=> cron.todo = {}
    /\ cron.at = "delete" => cron.dev \in cron.todo
    /\ mails \in [Devices -> Nat]
    /\ outcome \in [Devices -> Outcome]
    /\ nagged \subseteq Devices

\* The trigger sends at most one reminder about a row before it tries to delete
\* it, and none about a login that password_grant had taken past the challenge
\* and cleared before the rows were selected: "so the cron doesn't nudge the user
\* about an already-completed login".  It may nudge about a login that left its
\* row: no factor was active, the device was remembered, or a statement failed.
RemindersJustified == nagged = {} /\ \A d \in Devices : mails[d] <= 1

\* Of the rows the trigger deletes only the one it is at, and that not without a
\* reminder, unless the reminder could not be sent, or a login on the same device
\* renewed the row between the reminder and the DELETE.
RemindersNotLost ==
    [][\A d \in Devices :
          cron # cron' /\ incomplete[d] # None /\ incomplete'[d] = None
            => d = cron.dev /\ (mails[d] = 1 \/ ~cron.sent \/ cron.renewed)]_loginVars

\* The logins and the trigger as module Reminders sees them.
Handled == {d \in Devices : cron.at = "delete" /\ cron.dev = d}
LastLogin == [d \in Devices |-> IF incomplete[d] = None THEN "none"
                                ELSE IF d \notin Handled \/ cron.renewed THEN "open"
                                ELSE IF cron.sent THEN "reminded" ELSE "missed"]

Promise == INSTANCE Reminders WITH
    login <- LastLogin, handling <- Handled, done <- Passed

\* password_grant and the trigger keep the promise, statement by statement: a
\* row goes when its challenge is passed, when the next login takes its place, or
\* after the one attempt to remind the user of it, which may fail; and a login
\* that passed its challenge leaves none behind.
KeepsPromise == Promise!RSpec

\* No incomplete login stays due for ever: it is reminded of and removed, or
\* completed, or another login takes its place.
NotDueForever == \A d \in Devices : []<>(incomplete[d] # Patience)
=============================================================================
