----------------------------- MODULE KeyRotation -----------------------------
(***************************************************************************)
(* Rotating a user's account key: rotate_user_account_keys of the worker   *)
(* and post_rotatekey of the upstream server, against the requests of the  *)
(* user's other clients that write single items.  What an item is          *)
(* encrypted under is abstracted to the generation of the account key.     *)
(* Neither program uses a transaction: the worker saves the user first and *)
(* ignores errors of the items, the server saves the user last and stops   *)
(* at the first error.                                                     *)
(***************************************************************************)
EXTENDS Integers, Sequences, FiniteSets, SequencesExt

CONSTANTS
    Folders,     \* folders
    Grants,      \* grants of emergency access and recovery keys of memberships
    Sealed,      \* ciphers and sends
    Requests,    \* request slots
    Null,
    MaxOps       \* bound: requests started

Items == Folders \cup Grants \cup Sealed

VARIABLES
    program,     \* "worker" or "server"
    key,         \* the generation of the user row's key
    enc,         \* the generation each item is encrypted under, Null without the item
    todo,        \* statements each request has left
    ops,
    clean,       \* HISTORY: requests beside which no other has written
    torn,        \* HISTORY: a request wrote that was not clean
    stray        \* HISTORY: items that the rotations so far have moved to another
                 \* key than the user row's, or have not moved along with it

vars == <<program, key, enc, todo, ops, clean, torn, stray>>

Quiet == \A r \in Requests : todo[r] = <<>>
Existing == {i \in Items : enc[i] # Null}

-----------------------------------------------------------------------------
(* Statements.                                                             *)

Running(r, op) == todo[r] # <<>> /\ Head(todo[r])[1] = op
Arg(r, i) == Head(todo[r])[i]
Continue(r) == todo' = [todo EXCEPT ![r] = Tail(@)]
Abort(r) == todo' = [todo EXCEPT ![r] = <<>>]

Wrote(r) ==
    /\ torn' = (torn \/ r \notin clean)
    /\ clean' = clean \cap {r}

\* the new key, in the server after the items and in the worker before them;
\* a body that brings no key leaves the worker with the one that was read
User_save(r) ==
    /\ Running(r, "user")
    /\ key' = Arg(r, 2)
    /\ stray' = CASE program = "server" -> {}
                  [] program = "worker" /\ Arg(r, 3) -> Items
                  [] OTHER -> stray
    /\ Continue(r) /\ Wrote(r)
    /\ UNCHANGED <<program, enc, ops>>

\* the server writes the row it listed; the worker looks the row up again,
\* so one that is gone is skipped
Item_save(r) ==
    /\ Running(r, "item")
    /\ LET i == Arg(r, 2) IN
       enc' = IF program = "worker" /\ enc[i] = Null THEN enc ELSE [enc EXCEPT ![i] = Arg(r, 3)]
    /\ stray' = IF Arg(r, 4) THEN stray \ {Arg(r, 2)} ELSE stray \cup {Arg(r, 2)}
    /\ Continue(r) /\ Wrote(r)
    /\ UNCHANGED <<program, key, ops>>

\* a client's own write, of a new or of an old item, or a deletion
Client_save(r) ==
    /\ Running(r, "client")
    /\ enc' = [enc EXCEPT ![Arg(r, 2)] = Arg(r, 3)]
    /\ stray' = stray \ {Arg(r, 2)}
    /\ Continue(r) /\ Wrote(r)
    /\ UNCHANGED <<program, key, ops>>

\* the worker only touches a folder, whose name stays under the old key
Folder_touch(r) ==
    /\ Running(r, "touch")
    /\ Continue(r) /\ Wrote(r)
    /\ UNCHANGED <<program, key, enc, ops, stray>>

\* an id in the body that the server did not list
unknown(r) ==
    /\ Running(r, "unknown")
    /\ Abort(r)
    /\ UNCHANGED <<program, key, enc, ops, clean, torn, stray>>

\* a statement fails: the worker skips an item and gives up only on the user
fail(r) ==
    /\ todo[r] # <<>>
    /\ IF program = "worker" /\ ~Running(r, "user") THEN Continue(r) ELSE Abort(r)
    /\ UNCHANGED <<program, key, enc, ops, clean, torn, stray>>

-----------------------------------------------------------------------------
(* Handlers.                                                               *)

Start(r, statements) ==
    /\ todo[r] = <<>> /\ ops < MaxOps
    /\ todo' = [todo EXCEPT ![r] = statements]
    /\ ops' = ops + 1
    /\ clean' = clean \cup {r}
    /\ UNCHANGED <<program, key, enc, torn, stray>>

\* every rotation brings a new generation
New == ops + 1

\* the statements for a set of items, in some order of the body
Each(S, Statement(_)) == {[n \in DOMAIN s |-> Statement(s[n])] : s \in SetToSeqs(S)}

\* the user, then the folders, then the rest; the body names what it likes, and
\* may bring new wrapping keys of items without a key for the user
rotate_user_account_keys(r) ==
    /\ program = "worker"
    /\ \E body \in SUBSET (Existing \ Grants), keyed \in BOOLEAN :
       \E folders \in Each(body \cap Folders, LAMBDA i : <<"touch", i>>),
          secrets \in Each(body \cap Sealed, LAMBDA i : <<"item", i, New, keyed>>) :
        Start(r, <<<<"user", IF keyed THEN New ELSE key, keyed>>>> \o folders \o secrets)

validate_keydata_Any(body) == body \subseteq Items

\* all of the user's items must be in the body
validate_keydata(body) == Existing \subseteq body

\* the listed items, folders first, and the user at last
post_rotatekey(r) ==
    /\ program = "server"
    /\ \E body \in SUBSET Items :
       LET Statement(i) == IF enc[i] = Null THEN <<"unknown">> ELSE <<"item", i, New, FALSE>> IN
       \E folders \in Each(body \cap Folders, Statement),
          grants \in Each(body \cap Grants, Statement),
          secrets \in Each(body \cap Sealed, Statement) :
        /\ validate_keydata(body)
        /\ Start(r, folders \o grants \o secrets \o <<<<"user", New, TRUE>>>>)

\* a client whose session is good, hence encrypts under the key of the user row
client(r) == \E i \in Items, e \in {key, Null} : Start(r, <<<<"client", i, e>>>>)

Init ==
    /\ program \in {"worker", "server"}
    /\ key = 0
    /\ enc \in [Items -> {0, Null}]
    /\ todo = [r \in Requests |-> <<>>] /\ ops = 0
    /\ clean = {} /\ torn = FALSE /\ stray = {}

Next ==
    \E r \in Requests :
        \/ User_save(r) \/ Item_save(r) \/ Client_save(r) \/ Folder_touch(r) \/ unknown(r) \/ fail(r)
        \/ rotate_user_account_keys(r) \/ post_rotatekey(r) \/ client(r)

Spec == Init /\ [][Next]_vars

-----------------------------------------------------------------------------

\* As long as no other client writes during a rotation, the key in the user row
\* opens every item in every state, but for the ones that the rotations so far
\* are known to have parted from it.  In the server these are the items that a
\* rotation has rewritten and whose user row it has not: it fails half-way, and
\* "it should revert everything" but does not.  They are then under a newer key,
\* never an older one, and the next rotation that gets to its end takes every
\* item along.  In the worker they are the items that have not been rewritten
\* since the user row was: left out of the body, failed, or of a kind that the
\* worker does not rewrite (folders, grants, recovery keys); and the items of a
\* body without a key.
KeyOpensItems ==
    ~torn => /\ \A i \in Existing \ stray : enc[i] = key
             /\ program = "server" => \A i \in Existing \cap stray : enc[i] > key
=============================================================================
