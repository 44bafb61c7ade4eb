---------------------------- MODULE MCScheduled ----------------------------
(* The jobs of run_purges that must get done in the end, for TLC: reminders  *)
(* about incomplete logins, recoveries of emergency access, expired sends,   *)
(* old requests to log in with another device.                               *)
(* They share no state, so that each behaviour runs one of them, with the    *)
(* handlers that it races, and leaves the others in their initial states.    *)
EXTENDS IncompleteLogins

CONSTANTS
    Users, Nobody, Grants, Sends, Files, Ids,
    Requests,  \* requests in flight, for answers to requests to log in
    Slots      \* requests in flight, for emergency access and sends

VARIABLES
    job,
    e_now, live, e_row, e_minted, e_req, cronPc, todo, password, closed,
    s_now, s_row, objects, s_req, s_cron, tokens, s_minted, granted, want, raced, leaked,
    a_row, a_req, age, denied, late

e_vars == <<e_now, live, e_row, e_minted, e_req, cronPc, todo, password, closed>>
s_vars == <<s_now, s_row, objects, s_req, s_cron, tokens, s_minted, granted, want, raced, leaked>>
a_vars == <<a_row, a_req, age, denied, late>>

EA == INSTANCE EmergencyAccess WITH
        Requests <- Slots, DayLength <- 2, MaxWait <- 1, MaxTime <- 3,
        now <- e_now, row <- e_row, minted <- e_minted, req <- e_req

\* A send that is to be deleted soon, and ones that are not.
Bodies ==
    {[max_access_count |-> 1, disabled |-> FALSE, deletion_date |-> 2, password_hash |-> TRUE],
     [max_access_count |-> 1, disabled |-> TRUE, deletion_date |-> 2, password_hash |-> FALSE],
     [max_access_count |-> 2, disabled |-> FALSE, deletion_date |-> 1, password_hash |-> FALSE]}

SE == INSTANCE Sends WITH
        Requests <- Slots, MaxLimit <- 1, MaxTime <- 1, MaxGrants <- 2,
        Parses <- {1}, Hour <- 1, Leeway <- 1,
        now <- s_now, row <- s_row, req <- s_req, cron <- s_cron, minted <- s_minted

AR == INSTANCE AuthRequests WITH Window <- 1, Day <- 2, row <- a_row, req <- a_req

Jobs == {"logins", "emergency_access", "sends", "auth_requests"}

MCInit == job \in Jobs /\ LoginsInit /\ EA!Init /\ SE!Init /\ AR!Init

MCNext ==
    \/ job = "logins" /\ LoginsNext /\ UNCHANGED <<job, e_vars, s_vars, a_vars>>
    \/ job = "emergency_access" /\ EA!Next /\ UNCHANGED <<job, loginVars, s_vars, a_vars>>
    \/ job = "sends" /\ SE!Next /\ UNCHANGED <<job, loginVars, e_vars, a_vars>>
    \/ job = "auth_requests" /\ AR!Next /\ UNCHANGED <<job, loginVars, e_vars, s_vars>>

\* The fairness of each module, for the behaviours that run its job.
MCFairness ==
    /\ WF_loginVars(job = "logins" /\ select_incomplete)
    /\ WF_loginVars(job = "logins" /\ \E d \in Devices : send_reminder(d) \/ send_reminder_fails(d))
    /\ WF_loginVars(job = "logins" /\ (delete_incomplete \/ delete_incomplete_fails))
    /\ \A d \in Devices : SF_loginVars(job = "logins" /\ delete_incomplete /\ cron.dev = d)
    /\ WF_e_vars(job = "emergency_access" /\ EA!Hourly)
    /\ WF_e_vars(job = "emergency_access" /\ EA!Tick)
    /\ WF_e_vars(job = "emergency_access" /\ \E q \in e_req : EA!Write(q))
    /\ WF_s_vars(job = "sends" /\ SE!Cron)
    /\ SF_s_vars(job = "sends" /\ SE!purge_expired)
    /\ WF_a_vars(job = "auth_requests" /\ AR!purge_old)

MCSpec ==
    /\ MCInit
    /\ [][MCNext]_<<job, loginVars, e_vars, s_vars, a_vars>>
    /\ MCFairness

\* A recovery that was initiated does not wait for ever: the hourly job
\* approves it, or the grantor decides or deletes it first.
RecoveryResolved == EA!RecoveryResolved

\* A send whose deletion date has passed is deleted by the five-minute job,
\* unless its owner moves the date.
ExpiredPurged == SE!ExpiredPurged

\* The hourly job removes every request to log in with another device that is
\* more than a day old.
AuthRequestsPurged == AR!Purged

\* A denial that overlapped no other answer is not granted, and no request is
\* granted after its window, not even one a late answer inserted again, which
\* keeps its age.
AnswersHold == AR!AnswersHold
=============================================================================
