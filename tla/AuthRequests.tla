---------------------------- MODULE AuthRequests ----------------------------
(* The requests of one user to log in with another device: create_request,   *)
(* the answer of a device that is logged in, the grant of a token, and the   *)
(* hourly purge.  A request is not consumed by a grant.                      *)
EXTENDS Naturals

CONSTANTS
    Ids,       \* uuids that AuthRequest::new may generate
    Requests,  \* HTTP requests that may be in flight at once
    Window,    \* the age up to which a request is granted, 15 minutes
    Day        \* the age up to which the purge leaves it, a day

VARIABLES
    row,     \* the rows of auth_requests, or NoRow
    req,     \* HTTP requests in flight
    age,     \* HISTORY: the true age of each request, up to Day + 1
    denied,  \* HISTORY: requests whose last answer was no, while no one else answered
    late     \* HISTORY: requests that were granted after their window

vars == <<row, req, age, denied, late>>

\* approved and the age of creation_date.
Row == [approved : {"pending", "yes", "no"}, age : 0 .. Day + 1]

NoRow == [approved |-> "none", age |-> 0]

\* An answer that is about to be saved, with the row that was loaded.
Answer == [id : Requests, of : Ids, copy : Row]

Fresh(i) == age[i] = 0 /\ row[i] = NoRow

Free(r) == \A q \in req : q.id # r

-----------------------------------------------------------------------------

create_request(i) ==
    /\ Fresh(i)
    /\ row' = [row EXCEPT ![i] = [approved |-> "pending", age |-> 0]]
    /\ UNCHANGED <<req, age, denied, late>>

\* MUTANT: a request that is gone is made again.
respond_request_Unchecked(r, i, approved) ==
    /\ Free(r)
    /\ req' = req \cup {[id |-> r, of |-> i, copy |-> [row[i] EXCEPT !.approved = approved]]}
    /\ UNCHANGED <<row, age, denied, late>>

\* find_by_uuid, and the answer.  There may be an answer already.
respond_request(r, i, approved) ==
    /\ Free(r)
    /\ row[i] # NoRow
    /\ req' = req \cup {[id |-> r, of |-> i, copy |-> [row[i] EXCEPT !.approved = approved]]}
    /\ UNCHANGED <<row, age, denied, late>>

\* MUTANT: the upsert takes creation_date for the date of the answer.
Saved_Redated(x) == [x EXCEPT !.age = 0]

\* The columns of an upsert: creation_date is the one that was loaded.
Saved(x) == x

\* MUTANT: approved = MAX(approved, excluded.approved).
save_Approved(q) ==
    /\ req' = req \ {q}
    /\ row' = [row EXCEPT ![q.of] =
          IF row[q.of].approved = "yes" THEN row[q.of] ELSE Saved(q.copy)]
    /\ denied' = IF q.copy.approved = "no" /\ \A p \in req \ {q} : p.of # q.of
                 THEN denied \cup {q.of} ELSE denied \ {q.of}
    /\ UNCHANGED <<age, late>>

\* AuthRequest::save, which inserts the row again if it was purged.
save(q) ==
    /\ req' = req \ {q}
    /\ row' = [row EXCEPT ![q.of] = Saved(q.copy)]
    /\ denied' = IF q.copy.approved = "no" /\ \A p \in req \ {q} : p.of # q.of
                 THEN denied \cup {q.of} ELSE denied \ {q.of}
    /\ UNCHANGED <<age, late>>

fail(q) ==
    /\ req' = req \ {q}
    /\ UNCHANGED <<row, age, denied, late>>

\* The row passes the checks of the grant.
Granted(i) == row[i].approved = "yes" /\ row[i].age <= Window

\* A token, with the right access code.
auth_request_grant(i) ==
    /\ Granted(i)
    /\ late' = IF age[i] > Window THEN late \cup {i} ELSE late
    /\ UNCHANGED <<row, req, age, denied>>

\* MUTANT: creation_date < before, with the operands swapped.
Overdue_Young(i) == row[i] # NoRow /\ row[i].age < Day

Overdue(i) == row[i] # NoRow /\ row[i].age > Day

\* The DELETE of run_purges; one that fails changes nothing.
purge_old ==
    /\ \E i \in Ids : Overdue(i)
    /\ row' = [i \in Ids |-> IF Overdue(i) THEN NoRow ELSE row[i]]
    /\ UNCHANGED <<req, age, denied, late>>

Older(n) == IF n > Day THEN n ELSE n + 1

Aged(x) == IF x = NoRow THEN x ELSE [x EXCEPT !.age = Older(@)]

Tick ==
    /\ row' = [i \in Ids |-> Aged(row[i])]
    /\ req' = {[q EXCEPT !.copy = Aged(@)] : q \in req}
    /\ age' = [i \in Ids |-> IF Fresh(i) THEN 0 ELSE Older(age[i])]
    /\ UNCHANGED <<denied, late>>

-----------------------------------------------------------------------------

Init ==
    /\ row = [i \in Ids |-> NoRow]
    /\ req = {}
    /\ age = [i \in Ids |-> 0]
    /\ denied = {}
    /\ late = {}

Next ==
    \/ \E i \in Ids : create_request(i) \/ auth_request_grant(i)
    \/ \E r \in Requests, i \in Ids, b \in {"yes", "no"} : respond_request(r, i, b)
    \/ \E q \in req : save(q) \/ fail(q)
    \/ purge_old
    \/ Tick

Spec == Init /\ [][Next]_vars

\* The hourly trigger fires, and its DELETE does not fail every time.
FairSpec == Spec /\ WF_vars(purge_old)

-----------------------------------------------------------------------------
(* Properties. *)

\* Rows and answers are well formed, and a row is as old as its request.
TypeOK ==
    /\ row \in [Ids -> Row \cup {NoRow}]
    /\ \A i \in Ids : row[i] # NoRow => row[i].age = age[i]
    /\ req \subseteq Answer
    /\ \A q, p \in req : q.id = p.id => q = p
    /\ age \in [Ids -> 0 .. Day + 1]
    /\ denied \subseteq Ids
    /\ late \subseteq Ids

\* respond_request can answer again, but a denial that overlapped no other
\* answer is not granted until a later answer approves.
DenialHolds == \A i \in denied : ~Granted(i)

\* No request is granted after its window, not even one that was purged and
\* that a late answer has inserted again.
WindowHolds == late = {}

\* The three together: neither a denial nor the window can be got round by a
\* late answer, which inserts a purged row again with its old age.
AnswersHold == TypeOK /\ DenialHolds /\ WindowHolds

\* No request stays in the table for ever once it is more than a day old.
Purged == \A i \in Ids : []<>(row[i] = NoRow \/ row[i].age <= Day)
=============================================================================
