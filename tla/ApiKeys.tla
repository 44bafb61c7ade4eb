------------------------------- MODULE ApiKeys -------------------------------
(***************************************************************************)
(* The API key of one organization: get_org_api_key and rotate_org_api_key *)
(* of the worker, api_key of the upstream server.  Both look for the row,  *)
(* and mint one if there is none; nothing in the schema keeps a second row *)
(* out.  A rotation of the worker deletes the rows it listed and inserts a *)
(* new one, a rotation of the server saves the row it found with a new     *)
(* key.  Keys and rows are numbered by the request that made them.         *)
(***************************************************************************)
EXTENDS Integers, Sequences, FiniteSets, SequencesExt

CONSTANTS
    Requests,    \* request slots
    MaxOps       \* bound: requests started

VARIABLES
    program,     \* "worker" or "server"
    rows,        \* organization_api_key: records [id, key]
    todo,        \* statements each request has left
    ops,
    clean,       \* HISTORY: requests beside which no other has written
    torn,        \* HISTORY: a request wrote that was not clean, or failed
    given,       \* HISTORY: keys handed out
    retired      \* HISTORY: keys handed out before a rotation that was answered

vars == <<program, rows, todo, ops, clean, torn, given, retired>>

Running(r, op) == todo[r] # <<>> /\ Head(todo[r])[1] = op
Arg(r, i) == Head(todo[r])[i]
Continue(r) == todo' = [todo EXCEPT ![r] = Tail(@)]

Wrote(r) ==
    /\ torn' = (torn \/ r \notin clean)
    /\ clean' = clean \cap {r}

OrganizationApiKey_save(r) ==
    /\ Running(r, "save")
    /\ rows' = {k \in rows : k.id # Arg(r, 2).id} \cup {Arg(r, 2)}
    /\ Continue(r) /\ Wrote(r)
    /\ UNCHANGED <<program, ops, given, retired>>

OrganizationApiKey_delete(r) ==
    /\ Running(r, "delete")
    /\ rows' = {k \in rows : k.id # Arg(r, 2).id}
    /\ Continue(r) /\ Wrote(r)
    /\ UNCHANGED <<program, ops, given, retired>>

\* the answer, with the keys a rotation was asked to replace
answer(r) ==
    /\ Running(r, "answer")
    /\ given' = given \cup {Arg(r, 2)}
    /\ retired' = retired \cup Arg(r, 3)
    /\ Continue(r)
    /\ UNCHANGED <<program, rows, ops, clean, torn>>

\* a save that fails ends the request; the worker ignores a failed deletion
fail(r) ==
    /\ todo[r] # <<>>
    /\ \/ Running(r, "save") /\ todo' = [todo EXCEPT ![r] = <<>>]
       \/ Running(r, "delete") /\ Continue(r)
    /\ torn' = TRUE
    /\ UNCHANGED <<program, rows, ops, clean, given, retired>>

-----------------------------------------------------------------------------

Start(r, statements, failed) ==
    /\ todo[r] = <<>> /\ ops < MaxOps
    /\ todo' = [todo EXCEPT ![r] = statements]
    /\ ops' = ops + 1
    /\ clean' = clean \cup {r}
    /\ torn' = (torn \/ failed)
    /\ UNCHANGED <<program, rows, given, retired>>

New == [id |-> ops, key |-> ops]
Mint(replaced) == <<<<"save", New>>, <<"answer", New.key, replaced>>>>

\* the worker takes a list that could not be read for an empty one
Listed == {[rows |-> rows, failed |-> FALSE], [rows |-> {}, failed |-> TRUE]}

get_org_api_key(r) ==
    /\ program = "worker"
    /\ \E l \in Listed :
        \/ l.rows = {} /\ Start(r, Mint({}), l.failed)
        \/ \E k \in l.rows : Start(r, <<<<"answer", k.key, {}>>>>, l.failed)

rotate_org_api_key_Adds(r) ==
    /\ program = "worker"
    /\ Start(r, Mint(given), FALSE)

rotate_org_api_key(r) ==
    /\ program = "worker"
    /\ \E l \in Listed : \E s \in SetToSeqs(l.rows) :
        Start(r, [n \in DOMAIN s |-> <<"delete", s[n]>>] \o Mint(given), l.failed)

\* find_by_org_uuid returns the first of the rows
api_key(r, rotate) ==
    /\ program = "server"
    /\ \/ rows = {} /\ Start(r, Mint(IF rotate THEN given ELSE {}), FALSE)
       \/ \E k \in rows :
            Start(r, IF rotate
                     THEN <<<<"save", [k EXCEPT !.key = ops]>>, <<"answer", ops, given>>>>
                     ELSE <<<<"answer", k.key, {}>>>>, FALSE)

Init ==
    /\ program \in {"worker", "server"}
    /\ rows = {}
    /\ todo = [r \in Requests |-> <<>>] /\ ops = 0
    /\ clean = {} /\ torn = FALSE /\ given = {} /\ retired = {}

Next ==
    \E r \in Requests :
        \/ OrganizationApiKey_save(r) \/ OrganizationApiKey_delete(r) \/ answer(r) \/ fail(r)
        \/ get_org_api_key(r) \/ rotate_org_api_key(r)
        \/ \E rotate \in BOOLEAN : api_key(r, rotate)

Spec == Init /\ [][Next]_vars

-----------------------------------------------------------------------------

\* While no two requests write beside each other and none fails, an
\* organization has one key: everybody who asks is given the same one, and none
\* that a rotation has replaced is left among the rows.
OneApiKey ==
    ~torn => /\ Cardinality(rows) <= 1
             /\ \A k \in rows : k.key \notin retired
=============================================================================
