--------------------------- MODULE MCMemberships ---------------------------
(* The memberships of the worker, the memberships and policies of the        *)
(* upstream server, and the API key of an organization in both, for TLC.     *)
(* The three share no state: each behaviour runs one `part` and leaves the   *)
(* others in an initial state.                                               *)
EXTENDS Memberships, TLC

CONSTANTS Orgs, None

VARIABLES
    part,
    conf, orgs, mem, pol, tf, stub, todo, ops, clean, torn, shut, unasked,
    program, k_rows, k_todo, k_ops, k_clean, k_torn, given, retired

s_vars == <<conf, orgs, mem, pol, tf, stub, todo, ops, clean, torn, shut, unasked>>
k_vars == <<program, k_rows, k_todo, k_ops, k_clean, k_torn, given, retired>>

Server == INSTANCE ServerMembers WITH MaxOps <- 2

Key == INSTANCE ApiKeys WITH
         rows <- k_rows, todo <- k_todo, ops <- k_ops, clean <- k_clean, torn <- k_torn,
         MaxOps <- 4

\* which organization is there first makes no difference
First == CHOOSE o \in Orgs : TRUE

\* The server starts with one organization and its owner, or with any rows that
\* obey the policies, which one more request may then change.
MCInit ==
    /\ Init /\ Key!Init
    /\ \/ part = "server" /\ Server!InitAny
       \/ part \in {"worker", "server", "key"} /\ Server!Init /\ orgs = {First}
    /\ part # "worker" => \A u \in Users : user[u] = "live"
    /\ part # "key" => program = "worker"
    /\ part # "server" =>
          /\ \A c \in DOMAIN conf : conf[c]
          /\ \A u \in Users : mem[u][First] = Server!Row(Server!Confirmed, "Owner")

MCNext ==
    \/ part = "worker" /\ Next /\ UNCHANGED <<part, s_vars, k_vars>>
    \/ part = "server" /\ Server!Next /\ UNCHANGED <<part, vars, k_vars>>
    \/ part = "key" /\ Key!Next /\ UNCHANGED <<part, vars, s_vars>>

MCSpec == MCInit /\ [][MCNext]_<<part, vars, s_vars, k_vars>>

\* The worker's rows are complete and unique, are confirmed only for members who
\* accepted and have a key, outside the bulk handlers, and, unless their writes
\* overlapped, are what the last handler meant them to be; on the server a membership revoked while
\* nobody held a copy of it stays revoked, whatever runs beside it.
RowsHold ==
    /\ part = "worker" => TypeOK /\ FieldsHold /\ ConfirmedRightly
    /\ part = "server" => Server!RevokedStays

\* Between the server's requests every member whom a policy binds obeys it,
\* unless two requests ran beside each other or the directory restored them.
PoliciesHold == part = "server" => Server!PoliciesHold

\* The worker's leave_organization leaves an owner behind when its count of the
\* owners is not stale, and an organization of the server keeps a confirmed
\* owner, as long as no two requests pass the count of the owners together.
OwnerRemains == [][LeavesOwner /\ (part = "server" => Server!OwnerRemains)']_<<vars, s_vars>>

\* An organization has one API key, in both programs, as long as no two requests
\* write beside each other; a key that was rotated away is accepted no longer.
OneApiKey == part = "key" => Key!OneApiKey

Symmetry == Permutations(Users) \cup Permutations(Requests)
=============================================================================
