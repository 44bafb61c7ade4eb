------------------------------ MODULE MCSends ------------------------------
(* The sends of the worker and of the upstream server, for TLC.  The two     *)
(* share no state: each behaviour runs one of them and leaves the other in   *)
(* its initial state.  Requests are interchangeable.                         *)
EXTENDS Sends, TLC

CONSTANT None

VARIABLES
    program,
    s_row, file, s_now, todo, ops, dirty, current, silent, clean, torn, used,
    s_granted, over, bare

s_vars == <<s_row, file, s_now, todo, ops, dirty, current, silent, clean, torn, used,
            s_granted, over, bare>>

\* What the owner asks the worker for: unlimited with a date that parses, limited
\* with one that does not.  The worker stores no password, so that no step
\* depends on one.  A tick is longer than the leeway, and a link still works in
\* the tick of its expiry, in which the send is closed already.
MCBodies ==
    {[max_access_count |-> NoLimit, disabled |-> FALSE,
      deletion_date |-> 1, password_hash |-> FALSE],
     [max_access_count |-> 1, disabled |-> FALSE,
      deletion_date |-> 2, password_hash |-> FALSE]}

MCParses == {1}

\* The same with a password, for the run that is about passwords.
ProtectedBodies == {[c EXCEPT !.password_hash = TRUE] : c \in MCBodies}

\* What the owner asks the server for: limited and soon deleted, expiring,
\* disabled.
MCSettings ==
    {[max |-> 1, exp |-> None, del |-> 1, disabled |-> FALSE],
     [max |-> None, exp |-> 1, del |-> 2, disabled |-> FALSE],
     [max |-> None, exp |-> None, del |-> 2, disabled |-> TRUE]}

Server == INSTANCE ServerSends WITH
            row <- s_row, now <- s_now, granted <- s_granted,
            Sends <- {1, 2}, Settings <- MCSettings, Quota <- 1, MaxOps <- 3, MaxNow <- 2

\* the bounds of the server's behaviours are reached
Finished == ops = 3 /\ \A r \in Requests : todo[r] = <<>>

MCInit == program \in {"worker", "server"} /\ Init /\ Server!Init

MCNext ==
    \/ program = "worker" /\ Next /\ UNCHANGED <<program, s_vars>>
    \/ program = "server" /\ Server!Next /\ UNCHANGED <<program, vars>>
    \/ program = "server" /\ Finished /\ UNCHANGED <<program, vars, s_vars>>

MCSpec == MCInit /\ [][MCNext]_<<program, vars, s_vars>>

\* A send of the server that was protected and that nobody opened asks for a
\* password, whatever copies of the row are written back.
PasswordStays == program = "server" => Server!PasswordStays

\* A change of the server's sends moves the account's revision date, so that a
\* client that has not seen it syncs; and as long as no two requests write beside
\* each other the server stays within the user's storage limit and within the
\* number of accesses the owner set.
ServerHolds == program = "server" => Server!EditsNoticed /\ Server!LimitsHold

Symmetry == Permutations(Requests)
=============================================================================
