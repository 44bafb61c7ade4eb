------------------------------- MODULE MCLinks -------------------------------
(* The links of the worker and the access rules of the upstream server, for  *)
(* TLC.  The two share no state: each behaviour runs one of them and leaves  *)
(* the other in its initial state.                                           *)
EXTENDS ServerAccess, TLC

CONSTANTS alice, cipher, folder1, folder2, collection, theGroup, member1, member2

VARIABLES program, rows, links, req, dead, gone

w_vars == <<rows, links, req, dead, gone>>

\* read-only, hidden passwords, manage
ReadOnly == [ro |-> TRUE, hp |-> FALSE, mg |-> FALSE]
Hidden == [ro |-> FALSE, hp |-> TRUE, mg |-> FALSE]
Manage == [ro |-> FALSE, hp |-> FALSE, mg |-> TRUE]

FlagsDef == {ReadOnly, Hidden, Manage}
GrantsDef == {Manage}

\* Alice owns the folders; a second membership is what a second invitation,
\* after the first membership was deleted, creates.
W_Users == {alice}
W_Ciphers == {cipher}
W_Folders == {folder1, folder2}
W_OwnerOf == [f \in W_Folders |-> alice]
W_Collections == {collection}
W_Groups == {theGroup}
W_Members == {member1, member2}
W_UserOf == [m \in W_Members |-> alice]
W_AllAccess == {member2}

Worker == INSTANCE Links WITH
            Users <- W_Users, Ciphers <- W_Ciphers, Folders <- W_Folders, OwnerOf <- W_OwnerOf,
            Collections <- W_Collections, Groups <- W_Groups, Members <- W_Members,
            UserOf <- W_UserOf, AllAccess <- W_AllAccess, MaxRows <- 2

ASSUME WorkerAssumption == Worker!ConstantsOK

\* the bounds of the server's behaviours are reached
Finished == ops = MaxOps /\ \A r \in Requests : todo[r] = <<>>

\* beside the worker, the server has an invited member and no link of any kind
Unlinked ==
    /\ ~groups_on /\ gu = {} /\ cc = {}
    /\ \A m \in Members : member[m] = [status |-> "Invited", atype |-> "User", all |-> FALSE]
    /\ \A g \in Groups : group[g] = [all |-> FALSE]
    /\ \A c \in Collections : /\ \A m \in Members : uc[m][c] = None
                               /\ \A g \in Groups : cg[c][g] = None

\* The server starts with no links, or with any links that handlers may have
\* left behind; in the latter states only the access rules are compared.  Which
\* of the two collections is there first makes no difference.
MCInit ==
    /\ Worker!Init
    /\ \/ program = "worker" /\ InitAny /\ Unlinked
       \/ program = "server" /\ Init /\ coll = {1}
       \/ program = "server" /\ InitAny

MCNext ==
    \/ program = "worker" /\ Worker!Next /\ UNCHANGED <<program, vars>>
    \/ program = "server" /\ Next /\ UNCHANGED <<program, w_vars>>
    \/ program = "server" /\ Finished /\ UNCHANGED <<program, vars, w_vars>>

MCSpec == MCInit /\ [][MCNext]_<<program, vars, w_vars>>

\* On the worker, every link refers to rows that exist, and what was deleted
\* while no request was about to save it stays deleted.
LinksIntact == program = "worker" => Worker!LinksIntact

\* When a handler of the worker that replaces links ends, the links are the
\* ones asked for, save where another request interfered.
ReplaceExact == program = "worker" => Worker!ReplaceExact

\* Requests are interchangeable.
Symmetry == Permutations(Requests)
=============================================================================
