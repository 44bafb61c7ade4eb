------------------------------ MODULE MCVault ------------------------------
(* The vaults of the worker and of the upstream server, for TLC.  The two   *)
(* share no state: each behaviour runs one of them and leaves the other in  *)
(* an initial state.                                                        *)
EXTENDS Vault, TLC

CONSTANT None

VARIABLES
    program,
    full, row, folder, filed, linked, fav, arch, s_att, stored, todo, ops, clean, torn, used

s_vars == <<full, row, folder, filed, linked, fav, arch, s_att, stored, todo, ops, clean, torn, used>>

\* an own cipher that is marked, and one of the organization
Marks == {[org |-> FALSE, fav |-> TRUE, arch |-> FALSE],
          [org |-> TRUE, fav |-> None, arch |-> TRUE]}

Server == INSTANCE ServerCiphers WITH
            Ciphers <- {11, 12}, Attachments <- {21, 22}, Folders <- {31, 32}, att <- s_att,
            Sizes <- {1, 2, 4}, Limit <- 2, Leeway <- 1, MaxOps <- 2

\* the bounds of the server's behaviours are reached
Finished == torn \/ (ops = 2 /\ Server!Quiet)

MCInit ==
    /\ program \in {"worker", "server"} /\ Init /\ Server!Init
    /\ program = "worker" => ~full /\ \A c \in DOMAIN row : row[c] = None

MCNext ==
    \/ program = "worker" /\ Next /\ UNCHANGED <<program, s_vars>>
    \/ program = "server" /\ Server!Next /\ UNCHANGED <<program, vars>>
    \/ program = "server" /\ Finished /\ UNCHANGED <<program, vars, s_vars>>

MCSpec == MCInit /\ [][MCNext]_<<program, vars, s_vars>>

\* The server, between requests, as long as no two wrote beside each other and
\* no statement failed: creating a cipher leaves the cipher or nothing, files
\* and rows account for each other and fit into the limit, and a cipher is in
\* one existing folder at most.
VaultConsistent ==
    program = "server" => Server!NoEmptyCiphers /\ Server!StorageAccounts /\ Server!OneFolder

\* The worker's rows refer to rows that exist, no cipher is without both a user
\* and an organization, and the rows, unless their writes overlapped, are what
\* the last handler meant them to be.
CiphersHold == TypeOK /\ RowHolds /\ NoOrphans

\* The worker's files: a row that a client may download has its object, and an
\* object belongs to a row, except where an upload or a deletion was cut short.
FilesAccounted == Downloadable /\ ObjectsOwned

\* Requests, and what clients store, are interchangeable.
Symmetry == Permutations(Requests) \cup Permutations(Data)
=============================================================================
