------------------------- MODULE MCEmergencyAccess -------------------------
(* Emergency access of the worker and of the upstream server, for TLC.  The  *)
(* two share no state: each behaviour runs one of them and leaves the other  *)
(* in an initial state.                                                      *)
EXTENDS EmergencyAccess, TLC

CONSTANT None

VARIABLES
    program,
    mail, day, contact, s_row, s_minted, s_req, timeout, reminder, s_taken, s_closed,
    decided

s_vars == <<mail, day, contact, s_row, s_minted, s_req, timeout, reminder, s_taken, s_closed,
            decided>>

Server == INSTANCE ServerEmergency WITH
            row <- s_row, minted <- s_minted, req <- s_req, taken <- s_taken,
            closed <- s_closed, Types <- {"Takeover"}, Waits <- {1}, MaxDay <- 1

MCInit ==
    /\ program \in {"worker", "server"} /\ Init /\ Server!Init
    /\ program = "worker" => mail /\ contact = "user"

MCNext ==
    \/ program = "worker" /\ Next /\ UNCHANGED <<program, s_vars>>
    \/ program = "server" /\ Server!Next /\ UNCHANGED <<program, vars>>

MCSpec == MCInit /\ [][MCNext]_<<program, vars, s_vars>>

\* On the server, a rejection saved while nobody held a copy of the running
\* recovery is final until the contact initiates again, and an approval of the
\* timeout job outlives the reminder job that listed the row before.
ServerDecisionsHold == program = "server" => Server!ServerDecisionsHold

Symmetry == Permutations(Requests) \cup Permutations(Users)
=============================================================================
