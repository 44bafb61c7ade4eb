----------------------- MODULE EmergencyAccessProofs -----------------------
(* Proofs about EmergencyAccess and ServerEmergency, for any number of users, *)
(* grants, requests in flight and any waiting period.                        *)
EXTENDS EmergencyAccess, TLAPS

-----------------------------------------------------------------------------
(* The inductive invariant. *)

\* Every copy of a row that some writer holds is as complete as a stored row.
CopiesComplete ==
    /\ \A q \in req : Complete(q.row)
    /\ \A c \in todo : Complete(c.row)

\* A row, or a copy of one, exists only for a uuid that was handed out.
OnlyMinted ==
    /\ live \subseteq minted
    /\ \A q \in req : q.grant \in minted
    /\ \A c \in todo : c.grant \in minted

\* The status of the copy that takeover_password checked and reject changed.
CopyStatus ==
    \A q \in req :
        /\ q.op = "takeover_password" => q.row.status = STATUS_RECOVERY_APPROVED
        /\ q.op = "reject" => q.row.status = STATUS_CONFIRMED

\* After a rejection that overlapped nobody, no stored or held copy is pending,
\* other than the copy of a grantee who is starting anew.
NothingPending(g) ==
    /\ row[g].status \notin Pending
    /\ \A q \in req : q.grant = g /\ q.op # "initiate" => q.row.status \notin Pending
    /\ \A c \in todo : c.grant # g

\* After a deletion that overlapped nobody, the grant is gone from the table
\* and from every writer's memory, and its uuid is not handed out again.
Gone(g) ==
    /\ g \notin live
    /\ g \in minted
    /\ \A q \in req : q.grant # g
    /\ \A c \in todo : c.grant # g

Rejected == \A g \in Grants : closed[g] = "rejected" => NothingPending(g)
Deleted == \A g \in Grants : closed[g] = "deleted" => Gone(g)

IInv ==
    /\ TypeOK
    /\ RowsComplete
    /\ CopiesComplete
    /\ OnlyMinted
    /\ CopyStatus
    /\ Rejected
    /\ Deleted

-----------------------------------------------------------------------------
(* The read half of a handler. *)

\* A read step preserves the invariant when the copy it keeps is a complete
\* row of a live grant that is not pending after a rejection, whichever
\* handler of emergency_access.rs it belongs to.
LEMMA HoldPreserves ==
    ASSUME IInv,
           NEW r \in Requests, NEW op \in Ops, NEW u \in Users,
           NEW g \in Grants, NEW e \in Row,
           Hold(r, op, u, g, e),
           Complete(e),
           minted \subseteq minted', minted' \subseteq Grants, g \in minted',
           closed[g] # "deleted",
           closed[g] = "rejected" /\ op # "initiate" => e.status \notin Pending,
           op = "takeover_password" => e.status = STATUS_RECOVERY_APPROVED,
           op = "reject" => e.status = STATUS_CONFIRMED
    PROVE  IInv'
<1> DEFINE q == [id |-> r, op |-> op, user |-> u, grant |-> g, row |-> e]
<1>1. /\ req' = req \cup {q}
      /\ UNCHANGED <<now, live, row, cronPc, todo, password, closed>>
  BY DEF Hold
<1>2. /\ q.id = r /\ q.op = op /\ q.user = u /\ q.grant = g /\ q.row = e
  OBVIOUS
<1> HIDE DEF q
<1>3. TypeOK'
  BY <1>1, <1>2 DEF IInv, TypeOK
<1>4. RowsComplete'
  BY <1>1 DEF IInv, RowsComplete, Complete
<1>5. CopiesComplete'
  BY <1>1, <1>2 DEF IInv, CopiesComplete, Complete
<1>6. OnlyMinted'
  BY <1>1, <1>2 DEF IInv, OnlyMinted
<1>7. CopyStatus'
  BY <1>1, <1>2 DEF IInv, CopyStatus
<1>8. Rejected'
  BY <1>1, <1>2 DEF IInv, Rejected, NothingPending
<1>9. Deleted'
  BY <1>1, <1>2 DEF IInv, Deleted, Gone
<1> QED
  BY <1>3, <1>4, <1>5, <1>6, <1>7, <1>8, <1>9 DEF IInv

\* What load() gives a handler of a live grant: a complete row of the right
\* type, of a uuid that was handed out, that is not deleted and, after a
\* rejection, not pending.
LEMMA LoadedRow ==
    ASSUME IInv, NEW g \in Grants, Load(g)
    PROVE  /\ row[g] \in Row
           /\ Complete(row[g])
           /\ g \in minted
           /\ minted \subseteq Grants
           /\ closed[g] # "deleted"
           /\ closed[g] = "rejected" => row[g].status \notin Pending
  BY DEF IInv, TypeOK, RowsComplete, OnlyMinted, Rejected, NothingPending,
         Deleted, Gone, Load

\* A row with two columns changed is a row: update_access, accept, confirm and
\* initiate.
LEMMA RowExcept ==
    ASSUME NEW e \in Row
    PROVE  /\ \A t \in {TYPE_VIEW, TYPE_TAKEOVER}, d \in 1..MaxWait :
                 [e EXCEPT !.atype = t, !.wait = d] \in Row
           /\ \A u \in Person, s \in 0..4 :
                 [e EXCEPT !.grantee = u, !.status = s] \in Row
           /\ \A s \in 0..4 : [e EXCEPT !.key = TRUE, !.status = s] \in Row
           /\ \A s \in 0..4, n \in Int :
                 [e EXCEPT !.status = s, !.initiated = n] \in Row
  BY Zenon DEF Row

\* Every handler of emergency_access.rs keeps the invariant with its read.
LEMMA HandlerPreserves ==
    ASSUME IInv, NEW r \in Requests, NEW u \in Users, NEW g \in Grants,
           Handler(r, u, g)
    PROVE  IInv'
<1> USE TimeAssumption, NobodyAssumption
        DEF STATUS_INVITED, STATUS_ACCEPTED, STATUS_CONFIRMED,
            STATUS_RECOVERY_INITIATED, STATUS_RECOVERY_APPROVED,
            TYPE_VIEW, TYPE_TAKEOVER, NoDate
<1>0. now \in Nat /\ minted \subseteq Grants
  BY DEF IInv, TypeOK
<1>1. ASSUME NEW addr \in Users, NEW t \in {TYPE_VIEW, TYPE_TAKEOVER},
             NEW d \in 0..MaxWait, NEW known \in BOOLEAN,
             invite(r, u, g, addr, t, d, known)
      PROVE  IInv'
  <2> DEFINE e == [grantor |-> u, email |-> addr,
                   grantee |-> IF known THEN addr ELSE Nobody,
                   atype |-> t, status |-> STATUS_INVITED,
                   wait |-> IF d < 1 THEN 1 ELSE d,
                   key |-> FALSE, initiated |-> NoDate]
  <2>1. e \in Row
    BY DEF Row, Person
  <2>2. Complete(e) /\ e.status \notin Pending
    BY DEF Complete, Pending
  <2>3. /\ Hold(r, "invite", u, g, e)
        /\ minted' = minted \cup {g}
        /\ g \notin minted
    BY <1>1 DEF invite
  <2>4. closed[g] # "deleted"
    BY <2>3 DEF IInv, Deleted, Gone
  <2>5. "invite" \in Ops
    BY DEF Ops
  <2> HIDE DEF e
  <2> QED
    BY <1>0, <2>1, <2>2, <2>3, <2>4, <2>5, HoldPreserves
<1>2. ASSUME NEW t \in {TYPE_VIEW, TYPE_TAKEOVER}, NEW d \in 0..MaxWait,
             update_access(r, u, g, t, d)
      PROVE  IInv'
  <2> DEFINE e == [row[g] EXCEPT !.atype = t, !.wait = IF d < 1 THEN 1 ELSE d]
  <2>1. Load(g) /\ Hold(r, "update_access", u, g, e) /\ minted' = minted
    BY <1>2 DEF update_access
  <2>2. e \in Row /\ Complete(e) /\ e.status = row[g].status
    <3>1. row[g] \in Row /\ Complete(row[g])
      BY <2>1, LoadedRow
    <3>2. /\ e.status = row[g].status /\ e.grantee = row[g].grantee
          /\ e.key = row[g].key /\ e.initiated = row[g].initiated
      BY <3>1 DEF Row
    <3>3. (IF d < 1 THEN 1 ELSE d) \in 1..MaxWait
      OBVIOUS
    <3>4. e \in Row
      BY <3>1, <3>3, RowExcept, Zenon
    <3> QED
      BY <3>1, <3>2, <3>4 DEF Complete
  <2>3. "update_access" \in Ops
    BY DEF Ops
  <2> HIDE DEF e
  <2> QED
    BY <2>1, <2>2, <2>3, LoadedRow, HoldPreserves
<1>3. CASE delete_access(r, u, g)
  <2>1. Load(g) /\ Hold(r, "delete_access", u, g, row[g]) /\ minted' = minted
    BY <1>3 DEF delete_access
  <2>2. "delete_access" \in Ops
    BY DEF Ops
  <2> QED
    BY <2>1, <2>2, LoadedRow, HoldPreserves
<1>4. CASE accept(r, u, g)
  <2> DEFINE e == [row[g] EXCEPT !.grantee = u,
                                 !.status = IF @ = STATUS_INVITED
                                            THEN STATUS_ACCEPTED ELSE @]
  <2>1. Load(g) /\ Hold(r, "accept", u, g, e) /\ minted' = minted
    BY <1>4 DEF accept
  <2>2. e \in Row
    <3>1. row[g] \in Row
      BY <2>1, LoadedRow
    <3>2. /\ u \in Person
          /\ (IF row[g].status = STATUS_INVITED
              THEN STATUS_ACCEPTED ELSE row[g].status) \in 0..4
      BY <3>1 DEF Row, Person
    <3> QED
      BY <3>1, <3>2, RowExcept, Zenon
  <2>3. Complete(e)
    BY <2>1, LoadedRow DEF Row, Complete
  <2>4. closed[g] = "rejected" => e.status \notin Pending
    BY <2>1, LoadedRow DEF Row, Pending
  <2>5. "accept" \in Ops
    BY DEF Ops
  <2> HIDE DEF e
  <2> QED
    BY <2>1, <2>2, <2>3, <2>4, <2>5, LoadedRow, HoldPreserves
<1>5. CASE confirm(r, u, g)
  <2> DEFINE e == [row[g] EXCEPT !.key = TRUE, !.status = STATUS_CONFIRMED]
  <2>1. /\ Load(g) /\ Hold(r, "confirm", u, g, e) /\ minted' = minted
        /\ row[g].status = STATUS_ACCEPTED
    BY <1>5 DEF confirm
  <2>2. e \in Row
    <3>1. row[g] \in Row /\ STATUS_CONFIRMED \in 0..4
      BY <2>1, LoadedRow
    <3> QED
      BY <3>1, RowExcept, Zenon
  <2>3. Complete(e) /\ e.status \notin Pending
    BY <2>1, LoadedRow DEF Row, Complete, Pending
  <2>4. "confirm" \in Ops
    BY DEF Ops
  <2> HIDE DEF e
  <2> QED
    BY <2>1, <2>2, <2>3, <2>4, LoadedRow, HoldPreserves
<1>6. CASE initiate(r, u, g)
  <2> DEFINE e == [row[g] EXCEPT !.status = STATUS_RECOVERY_INITIATED,
                                 !.initiated = now]
  <2>1. /\ Load(g) /\ Hold(r, "initiate", u, g, e) /\ minted' = minted
        /\ row[g].status = STATUS_CONFIRMED
    BY <1>6 DEF initiate
  <2>2. e \in Row
    <3>1. row[g] \in Row /\ STATUS_RECOVERY_INITIATED \in 0..4 /\ now \in Int
      BY <1>0, <2>1, LoadedRow
    <3> QED
      BY <3>1, RowExcept, Zenon
  <2>3. Complete(e)
    BY <1>0, <2>1, LoadedRow DEF Row, Complete
  <2>4. "initiate" \in Ops
    BY DEF Ops
  <2> HIDE DEF e
  <2> QED
    BY <2>1, <2>2, <2>3, <2>4, LoadedRow, HoldPreserves
<1>7. CASE approve(r, u, g)
  <2> DEFINE e == [row[g] EXCEPT !.status = STATUS_RECOVERY_APPROVED]
  <2>1. /\ Load(g) /\ Hold(r, "approve", u, g, e) /\ minted' = minted
        /\ row[g].status = STATUS_RECOVERY_INITIATED
    BY <1>7 DEF approve
  <2>2. e \in Row /\ Complete(e)
    BY <2>1, LoadedRow DEF Row, Complete
  <2>3. "approve" \in Ops
    BY DEF Ops
  <2>4. closed[g] # "rejected"
    BY <2>1, LoadedRow DEF Pending
  <2> HIDE DEF e
  <2> QED
    BY <2>1, <2>2, <2>3, <2>4, LoadedRow, HoldPreserves
<1>8. CASE reject(r, u, g)
  <2> DEFINE e == [row[g] EXCEPT !.status = STATUS_CONFIRMED]
  <2>1. /\ Load(g) /\ Hold(r, "reject", u, g, e) /\ minted' = minted
        /\ row[g].status \in Pending
    BY <1>8 DEF reject
  <2>2. /\ e \in Row /\ Complete(e) /\ e.status = STATUS_CONFIRMED
        /\ e.status \notin Pending
    BY <2>1, LoadedRow DEF Row, Complete, Pending
  <2>3. "reject" \in Ops
    BY DEF Ops
  <2> HIDE DEF e
  <2> QED
    BY <2>1, <2>2, <2>3, LoadedRow, HoldPreserves
<1>9. CASE takeover_password(r, u, g)
  <2>1. /\ Load(g) /\ Hold(r, "takeover_password", u, g, row[g])
        /\ minted' = minted
        /\ row[g].status = STATUS_RECOVERY_APPROVED
    BY <1>9 DEF takeover_password, CanTakeover
  <2>2. "takeover_password" \in Ops
    BY DEF Ops
  <2>3. closed[g] # "rejected"
    BY <2>1, LoadedRow DEF Pending
  <2> QED
    BY <2>1, <2>2, <2>3, LoadedRow, HoldPreserves
<1> QED
  BY <1>1, <1>2, <1>3, <1>4, <1>5, <1>6, <1>7, <1>8, <1>9 DEF Handler

-----------------------------------------------------------------------------
(* The writes and the hourly job. *)

\* The upsert at the end of a handler keeps the invariant: it stores a copy
\* that was complete, and a reject closes the grant only when no other copy
\* could undo it.
LEMMA SavePreserves ==
    ASSUME IInv, NEW q \in req, save(q)
    PROVE  IInv'
<1> DEFINE g == q.grant
<1>1. /\ row' = [row EXCEPT ![g] = q.row]
      /\ live' = live \cup {g}
      /\ req' = req \ {q}
      /\ closed' = [closed EXCEPT ![g] = ClosedAfterSave(q)]
      /\ UNCHANGED <<now, minted, cronPc, todo, password>>
      /\ q.op \in Saves
  BY DEF save
<1>2. /\ g \in Grants /\ q.row \in Row /\ Complete(q.row) /\ g \in minted
      /\ closed[g] # "deleted"
      /\ closed \in [Grants -> {"open", "rejected", "raced", "deleted"}]
      /\ row \in [Grants -> Row]
  BY DEF IInv, TypeOK, CopiesComplete, OnlyMinted, Deleted, Gone
<1>3. TypeOK'
  <2>1. ClosedAfterSave(q) \in {"open", "rejected", "raced", "deleted"}
    BY <1>2 DEF ClosedAfterSave
  <2> QED
    BY <1>1, <1>2, <2>1 DEF IInv, TypeOK
<1>4. RowsComplete'
  BY <1>1, <1>2 DEF IInv, RowsComplete, Complete, TypeOK
<1>5. CopiesComplete' /\ OnlyMinted' /\ CopyStatus'
  BY <1>1, <1>2 DEF IInv, CopiesComplete, OnlyMinted, CopyStatus, Complete
<1>6. Rejected'
  <2> SUFFICES ASSUME NEW h \in Grants, closed'[h] = "rejected"
               PROVE  NothingPending(h)'
    BY DEF Rejected
  <2>1. CASE h # g
    BY <1>1, <1>2, <2>1 DEF IInv, Rejected, NothingPending
  <2>2. CASE h = g /\ q.op = "reject"
    <3>1. ~HeldPending(g, req \ {q})
      BY <1>1, <1>2, <2>2 DEF ClosedAfterSave
    <3>2. q.row.status \notin Pending
      BY <2>2 DEF IInv, CopyStatus, Pending, STATUS_CONFIRMED,
                  STATUS_RECOVERY_INITIATED, STATUS_RECOVERY_APPROVED
    <3> QED
      BY <1>1, <1>2, <2>2, <3>1, <3>2 DEF HeldPending, NothingPending
  <2>3. CASE h = g /\ q.op # "reject"
    <3>1. closed[g] = "rejected" /\ q.op # "initiate"
      BY <1>1, <1>2, <2>3 DEF ClosedAfterSave
    <3> QED
      BY <1>1, <1>2, <2>3, <3>1 DEF IInv, Rejected, NothingPending
  <2> QED
    BY <2>1, <2>2, <2>3
<1>7. Deleted'
  <2>1. ClosedAfterSave(q) # "deleted"
    BY <1>2 DEF ClosedAfterSave
  <2> QED
    BY <1>1, <1>2, <2>1 DEF IInv, Deleted, Gone
<1> QED
  BY <1>3, <1>4, <1>5, <1>6, <1>7 DEF IInv

\* delete_access keeps the invariant: the grant is marked deleted only when no
\* writer holds a copy that could bring it back.
LEMMA DeletePreserves ==
    ASSUME IInv, NEW q \in req, delete(q)
    PROVE  IInv'
<1> DEFINE g == q.grant
<1>1. /\ live' = live \ {g}
      /\ row' = [row EXCEPT ![g] = Blank]
      /\ req' = req \ {q}
      /\ closed' = [closed EXCEPT ![g] = IF Held(g, req \ {q}) THEN @ ELSE "deleted"]
      /\ UNCHANGED <<now, minted, cronPc, todo, password>>
  BY DEF delete
<1>2. /\ g \in Grants /\ g \in minted
      /\ closed \in [Grants -> {"open", "rejected", "raced", "deleted"}]
      /\ row \in [Grants -> Row]
  BY DEF IInv, TypeOK, OnlyMinted
<1>3. Blank \in Row /\ Blank.status \notin Pending
  BY TimeAssumption DEF Blank, Row, Person, Pending, NoDate, TYPE_VIEW,
     STATUS_INVITED, STATUS_RECOVERY_INITIATED, STATUS_RECOVERY_APPROVED
<1>4. TypeOK'
  BY <1>1, <1>2, <1>3 DEF IInv, TypeOK
<1>5. RowsComplete' /\ CopiesComplete' /\ OnlyMinted' /\ CopyStatus'
  BY <1>1, <1>2 DEF IInv, RowsComplete, CopiesComplete, OnlyMinted,
                    CopyStatus, Complete, TypeOK
<1>6. Rejected'
  BY <1>1, <1>2, <1>3 DEF IInv, Rejected, NothingPending
<1>7. Deleted'
  BY <1>1, <1>2 DEF IInv, Deleted, Gone, Held
<1> QED
  BY <1>4, <1>5, <1>6, <1>7 DEF IInv

\* The last step of takeover_password writes the user row, not the grant.
LEMMA SetPasswordPreserves ==
    ASSUME IInv, NEW q \in req, setPassword(q)
    PROVE  IInv'
<1>1. /\ req' = req \ {q}
      /\ password' = [password EXCEPT ![q.row.grantor] = q.user]
      /\ UNCHANGED <<now, live, row, minted, cronPc, todo, closed>>
  BY DEF setPassword
<1>2. TypeOK'
  BY <1>1, Zenon DEF IInv, TypeOK
<1>3. RowsComplete' /\ CopiesComplete' /\ OnlyMinted' /\ CopyStatus'
  BY <1>1 DEF IInv, RowsComplete, CopiesComplete, OnlyMinted, CopyStatus, Complete
<1>4. Rejected' /\ Deleted'
  BY <1>1 DEF IInv, Rejected, NothingPending, Deleted, Gone
<1> QED
  BY <1>2, <1>3, <1>4 DEF IInv

\* A request that ends without a write takes its copy with it.
LEMMA FailPreserves ==
    ASSUME IInv, NEW q \in req, fail(q)
    PROVE  IInv'
<1>1. /\ req' = req \ {q}
      /\ UNCHANGED <<now, live, row, minted, cronPc, todo, password, closed>>
  BY DEF fail
<1> QED
  BY <1>1 DEF IInv, TypeOK, RowsComplete, CopiesComplete, OnlyMinted, CopyStatus,
              Complete, Rejected, NothingPending, Deleted, Gone

\* The hourly job keeps the invariant: it approves only what is pending, and
\* its reminders write back the copies it holds.
LEMMA HourlyPreserves ==
    ASSUME IInv, Hourly
    PROVE  IInv'
<1>0. /\ row \in [Grants -> Row] /\ live \subseteq Grants
      /\ \A c \in todo : c.grant \in Grants /\ c.row \in Row
  BY DEF IInv, TypeOK
<1>1. CASE auto_approve_due
  <2>1. /\ UNCHANGED <<now, live, minted, req, todo, password, closed>>
        /\ cronPc' = "reminders"
        /\ row' = [g \in Grants |-> IF g \in live /\ Due(row[g])
                        THEN [row[g] EXCEPT !.status = STATUS_RECOVERY_APPROVED]
                        ELSE row[g]]
    BY <1>1 DEF auto_approve_due
  <2>2. ASSUME NEW g \in Grants
        PROVE  \/ row'[g] = row[g]
               \/ /\ row[g].status = STATUS_RECOVERY_INITIATED
                  /\ row'[g] = [row[g] EXCEPT !.status = STATUS_RECOVERY_APPROVED]
    BY <2>1 DEF Due
  <2>3. ASSUME NEW g \in Grants
        PROVE  /\ row'[g] \in Row
               /\ Complete(row[g]) => Complete(row'[g])
               /\ row[g].status \notin Pending => row'[g].status \notin Pending
    <3>1. row[g] \in Row
      BY <1>0
    <3>2. CASE row'[g] = row[g]
      BY <3>1, <3>2
    <3>3. CASE /\ row[g].status = STATUS_RECOVERY_INITIATED
               /\ row'[g] = [row[g] EXCEPT !.status = STATUS_RECOVERY_APPROVED]
      BY <3>1, <3>3 DEF Row, Complete, Pending, STATUS_ACCEPTED, STATUS_CONFIRMED,
                        STATUS_RECOVERY_INITIATED, STATUS_RECOVERY_APPROVED
    <3> QED
      BY <2>2, <3>2, <3>3
  <2>4. row' \in [Grants -> Row]
    BY <2>1, <2>3, Zenon
  <2>5. TypeOK'
    BY <2>1, <2>4 DEF IInv, TypeOK
  <2>6. RowsComplete'
    BY <1>0, <2>1, <2>3 DEF IInv, RowsComplete
  <2>7. CopiesComplete' /\ OnlyMinted' /\ CopyStatus'
    BY <2>1 DEF IInv, CopiesComplete, OnlyMinted, CopyStatus, Complete
  <2>8. Rejected' /\ Deleted'
    BY <2>1, <2>3 DEF IInv, Rejected, NothingPending, Deleted, Gone
  <2> QED
    BY <2>5, <2>6, <2>7, <2>8 DEF IInv
<1>2. CASE pending_reminders
  <2> DEFINE waiting == {h \in live : /\ row[h].status = STATUS_RECOVERY_INITIATED
                                      /\ row[h].initiated # NoDate}
  <2>1. /\ UNCHANGED <<now, live, row, minted, req, password, closed>>
        /\ cronPc' = "mailing"
        /\ todo' = {[grant |-> g, row |-> row[g]] : g \in waiting}
    BY <1>2 DEF pending_reminders
  <2>2. ASSUME NEW c \in todo'
        PROVE  /\ c.grant \in live
               /\ c.row = row[c.grant]
               /\ row[c.grant].status = STATUS_RECOVERY_INITIATED
    BY <2>1
  <2> HIDE DEF waiting
  <2>3. TypeOK'
    BY <1>0, <2>1, <2>2 DEF IInv, TypeOK
  <2>4. RowsComplete' /\ CopiesComplete' /\ OnlyMinted' /\ CopyStatus'
    BY <2>1, <2>2 DEF IInv, RowsComplete, CopiesComplete, OnlyMinted, CopyStatus,
                      Complete
  <2>5. Rejected' /\ Deleted'
    BY <2>1, <2>2 DEF IInv, Rejected, NothingPending, Deleted, Gone, Pending
  <2> QED
    BY <2>3, <2>4, <2>5 DEF IInv
<1>3. ASSUME NEW c \in todo, remind(c)
      PROVE  IInv'
  <2>1. /\ UNCHANGED <<now, minted, req, cronPc, password, closed>>
        /\ todo' = todo \ {c}
        /\ \/ UNCHANGED <<live, row>>
           \/ /\ row' = [row EXCEPT ![c.grant] = c.row]
              /\ live' = live \cup {c.grant}
    BY <1>3 DEF remind
  <2>2. /\ Complete(c.row) /\ c.grant \in minted
        /\ closed[c.grant] # "rejected" /\ closed[c.grant] # "deleted"
    BY <1>0 DEF IInv, CopiesComplete, OnlyMinted, Rejected, NothingPending,
                Deleted, Gone
  <2>3. TypeOK'
    BY <1>0, <2>1 DEF IInv, TypeOK
  <2>4. RowsComplete'
    BY <1>0, <2>1, <2>2 DEF IInv, RowsComplete, Complete
  <2>5. CopiesComplete' /\ OnlyMinted' /\ CopyStatus'
    BY <2>1, <2>2 DEF IInv, CopiesComplete, OnlyMinted, CopyStatus, Complete
  <2>6. Rejected' /\ Deleted'
    BY <1>0, <2>1, <2>2 DEF IInv, Rejected, NothingPending, Deleted, Gone
  <2> QED
    BY <2>3, <2>4, <2>5, <2>6 DEF IInv
<1>4. CASE remindersDone
  <2>1. UNCHANGED <<now, live, row, minted, req, todo, password, closed>>
        /\ cronPc' = "idle"
    BY <1>4 DEF remindersDone
  <2> QED
    BY <2>1 DEF IInv, TypeOK, RowsComplete, CopiesComplete, OnlyMinted, CopyStatus,
                Complete, Rejected, NothingPending, Deleted, Gone
<1> QED
  BY <1>1, <1>2, <1>3, <1>4 DEF Hourly

-----------------------------------------------------------------------------
(* The theorems. *)

\* The inductive invariant holds in every reachable state.
THEOREM Invariance == Spec => []IInv
<1>1. Init => IInv
  BY TimeAssumption
  DEF Init, IInv, TypeOK, RowsComplete, CopiesComplete, OnlyMinted, CopyStatus,
      Rejected, Deleted, Blank, Row, Person, NoDate, TYPE_VIEW, STATUS_INVITED
<1>2. IInv /\ [Next]_vars => IInv'
  <2> SUFFICES ASSUME IInv, [Next]_vars
               PROVE  IInv'
    OBVIOUS
  <2>1. ASSUME NEW r \in Requests, NEW u \in Users, NEW g \in Grants,
               Handler(r, u, g)
        PROVE  IInv'
    BY <2>1, HandlerPreserves
  <2>2. ASSUME NEW q \in req, Write(q) \/ fail(q)
        PROVE  IInv'
    BY <2>2, SavePreserves, DeletePreserves, SetPasswordPreserves, FailPreserves
    DEF Write
  <2>3. CASE Hourly
    BY <2>3, HourlyPreserves
  <2>4. CASE Tick
    BY <2>4, TimeAssumption
    DEF Tick, IInv, TypeOK, RowsComplete, CopiesComplete, OnlyMinted, CopyStatus,
        Complete, Rejected, NothingPending, Deleted, Gone
  <2>5. CASE UNCHANGED vars
    BY <2>5
    DEF vars, IInv, TypeOK, RowsComplete, CopiesComplete, OnlyMinted, CopyStatus,
        Complete, Rejected, NothingPending, Deleted, Gone
  <2> QED
    BY <2>1, <2>2, <2>3, <2>4, <2>5 DEF Next
<1> QED
  BY <1>1, <1>2, PTL DEF Spec

\* Every variable keeps its type under every interleaving.
THEOREM TypeCorrect == Spec => []TypeOK
  BY Invariance, PTL DEF IInv

\* Every stored row has the grantee, key and date its status needs, whatever
\* stale copies the handlers and the hourly job write back.
THEOREM RowsAreComplete == Spec => []RowsComplete
  BY Invariance, PTL DEF IInv

\* A reject that overlapped no other writer ends the recovery: no view, no
\* takeover and no password replacement until the grantee initiates again.
THEOREM RejectionIsFinal == Spec => []RejectionHolds
<1>1. IInv => RejectionHolds
  BY DEF IInv, Rejected, NothingPending, CopyStatus, RejectionHolds, CanView,
         CanTakeover, Pending
<1> QED
  BY <1>1, Invariance, PTL

\* A grant deleted while no writer held a copy of it never comes back.
THEOREM DeletionIsFinal == Spec => []DeletionHolds
<1>1. IInv => DeletionHolds
  BY DEF IInv, Deleted, Gone, DeletionHolds
<1> QED
  BY <1>1, Invariance, PTL

\* Rejections and deletions without an overlapping writer stand.
THEOREM DecisionsAlwaysStand == Spec => []DecisionsStand
<1>1. RejectionHolds /\ DeletionHolds => DecisionsStand
  BY DEF DecisionsStand
<1> QED
  BY <1>1, RejectionIsFinal, DeletionIsFinal, PTL

-----------------------------------------------------------------------------
(* How early the hourly job may approve. *)

\* The day that holds a tick starts at or before it and ends after it.
LEMMA DayBounds ==
    ASSUME NEW D \in Nat \ {0}, NEW t \in Int
    PROVE  /\ t \div D \in Int
           /\ D * (t \div D) <= t
           /\ t < D * (t \div D) + D
  BY SMT

\* Multiplying by a positive number keeps the order, and distributes.
LEMMA DayOrder ==
    ASSUME NEW D \in Nat \ {0}, NEW a \in Int, NEW b \in Int, a <= b
    PROVE  D * a <= D * b
  BY SMT

LEMMA DaySum ==
    ASSUME NEW D \in Nat \ {0}, NEW a \in Int, NEW w \in Int
    PROVE  D * (a + w) = D * a + (w - 1) * D + D
  BY SMT

\* Comparing days instead of moments, as auto_approve_due does, errs by less
\* than one day.
LEMMA DayComparison ==
    ASSUME NEW D \in Nat \ {0}, NEW i \in Int, NEW n \in Int, NEW w \in Int,
           (i \div D) + w <= n \div D
    PROVE  i + (w - 1) * D < n
<1> DEFINE qi == i \div D
           qn == n \div D
<1>1. qi \in Int /\ i < D * qi + D /\ qn \in Int /\ D * qn <= n
  BY DayBounds
<1>2. D * (qi + w) <= D * qn
  BY <1>1, DayOrder
<1>3. D * (qi + w) = D * qi + (w - 1) * D + D
  BY <1>1, DaySum
<1> HIDE DEF qi, qn
<1>4. D * (qi + w) \in Int /\ D * qi \in Int /\ (w - 1) * D \in Int /\ D * qn \in Int
  BY <1>1
<1> QED
  BY <1>1, <1>2, <1>3, <1>4

\* The hourly job approves a recovery less than a day before its wait window
\* has elapsed, for every waiting period and every length of the day.
THEOREM NeverADayEarly == Spec => ApprovedAtMostADayEarly
<1> DEFINE Early ==
      auto_approve_due =>
         \A g \in live : row'[g].status # row[g].status =>
             row[g].initiated + (row[g].wait - 1) * DayLength < now
<1>1. IInv => [Early]_vars
  <2> SUFFICES ASSUME IInv, auto_approve_due, NEW g \in live,
                      row'[g].status # row[g].status
               PROVE  row[g].initiated + (row[g].wait - 1) * DayLength < now
    OBVIOUS
  <2>1. /\ g \in Grants /\ row[g] \in Row /\ now \in Int
    BY TimeAssumption DEF IInv, TypeOK
  <2>2. Due(row[g])
    BY <2>1 DEF auto_approve_due
  <2>3. row[g].initiated \in Int /\ row[g].wait \in Int
    BY <2>1, TimeAssumption DEF Row
  <2>4. (row[g].initiated \div DayLength) + row[g].wait <= now \div DayLength
    BY <2>2 DEF Due, Day
  <2> QED
    BY <2>1, <2>3, <2>4, DayComparison, TimeAssumption
<1>2. Spec => [][Early]_vars
  BY <1>1, Invariance, PTL
<1> QED
  BY <1>2 DEF ApprovedAtMostADayEarly

-----------------------------------------------------------------------------
(* The upstream server: rejections and the approvals of its timeout job.     *)

CONSTANTS None, Types, Waits, MaxDay

VARIABLES mail, day, contact, s_row, s_minted, s_req, timeout, reminder, s_taken,
          s_closed, decided

SE == INSTANCE ServerEmergency WITH
        row <- s_row, minted <- s_minted, req <- s_req, taken <- s_taken,
        closed <- s_closed

Dates == Int \cup {None}

ServerRows ==
    [grantee : BOOLEAN, email : BOOLEAN, status : 0 .. 4, atype : Types, wait : Waits,
     initiated : Dates, notified : Dates]

ServerOps == {"save", "save, accept", "delete", "initiate", "approve", "reject"}
               \cup SE!TakeoverSteps

\* A row, or a copy that a handler reads to write it back.  The status of the
\* copy tells what the handler checked.
ServerCopy(q) ==
    /\ q \in [id : Requests, op : ServerOps, grant : Grants, row : ServerRows]
    /\ q.op = "reject" => q.row.status = SE!Confirmed
    /\ q.op \in SE!TakeoverSteps => q.row.status = SE!RecoveryApproved

ServerTypes ==
    /\ day \in Int
    /\ s_row \in [Grants -> ServerRows \cup {None}]
    /\ s_minted \subseteq Grants /\ s_closed \subseteq Grants /\ decided \subseteq Grants
    /\ \A q \in s_req : ServerCopy(q)
    /\ \A c \in timeout : c.grant \in Grants
    /\ \A c \in reminder : c.grant \in Grants

\* Nothing is known of a uuid before it is handed out.
Unused(g) ==
    /\ s_row[g] = None /\ g \notin decided
    /\ \A q \in s_req : q.grant # g
    /\ \A c \in timeout : c.grant # g

\* An invitation that send_invite is about to save and then to accept has no
\* row yet, so neither a request nor the timeout job knows of it.
OwnInvitation(q) ==
    /\ s_row[q.grant] = None /\ q.grant \notin decided
    /\ \A p \in s_req : p.grant = q.grant => p = q
    /\ \A c \in timeout : c.grant # q.grant

\* No recovery of a rejected grant is running, and nobody but a contact who
\* initiates anew holds a copy with one.
Settled(g) ==
    /\ s_row[g] = None \/ s_row[g].status <= SE!Confirmed
    /\ \A q \in s_req : q.grant = g => q.op = "initiate" \/ q.row.status <= SE!Confirmed
    /\ \A c \in timeout : c.grant # g

AllUnused == \A g \in Grants \ s_minted : Unused(g)
Invitations == \A q \in s_req : q.op = "save, accept" => OwnInvitation(q)
AllSettled == \A g \in s_closed : Settled(g)

ServerInv ==
    /\ ServerTypes
    /\ AllUnused
    /\ Invitations
    /\ AllSettled
    /\ SE!JobsKeepDecisions

\* Rows whose columns are set are rows.
LEMMA SetStatus ==
    ASSUME NEW e \in ServerRows, NEW s \in 0 .. 4
    PROVE  [e EXCEPT !.status = s] \in ServerRows /\ [e EXCEPT !.status = s].status = s
  BY DEF ServerRows

LEMMA SetDates ==
    ASSUME NEW e \in ServerRows, NEW d \in Dates
    PROVE  /\ [e EXCEPT !.initiated = d] \in ServerRows
           /\ [e EXCEPT !.notified = d] \in ServerRows
           /\ [e EXCEPT !.notified = d].status = e.status
  BY DEF ServerRows

LEMMA SetFlags ==
    ASSUME NEW e \in ServerRows, NEW b \in BOOLEAN
    PROVE  /\ [e EXCEPT !.email = b] \in ServerRows /\ [e EXCEPT !.email = b].status = e.status
           /\ [e EXCEPT !.grantee = b] \in ServerRows /\ [e EXCEPT !.grantee = b].status = e.status
  BY DEF ServerRows

\* A handler that read a row keeps the invariant when the copy it holds is a
\* row that is not of a running recovery after a rejection.
LEMMA ServerHoldPreserves ==
    ASSUME ServerInv, NEW r \in Requests, NEW g \in Grants, NEW op \in ServerOps, NEW e \in ServerRows,
           SE!Hold(r, op, g, e), s_row[g] # None, UNCHANGED s_minted,
           op # "save, accept",
           op = "reject" => e.status = SE!Confirmed,
           op \in SE!TakeoverSteps => e.status = SE!RecoveryApproved,
           g \in s_closed => op = "initiate" \/ e.status <= SE!Confirmed
    PROVE  ServerInv'
<1> DEFINE n == [id |-> r, op |-> op, grant |-> g, row |-> e]
<1>1. /\ s_req' = s_req \cup {n}
      /\ UNCHANGED <<mail, day, s_row, timeout, reminder, s_taken, s_closed, decided>>
  BY Zenon DEF SE!Hold
<1>2. n.op = op /\ n.grant = g /\ n.row = e
  BY Zenon
<1>3. ServerCopy(n)
  BY Zenon DEF ServerCopy
<1> HIDE DEF n
<1>4. ServerTypes'
  BY <1>1, <1>3, Zenon DEF ServerInv, ServerTypes, ServerCopy
<1>5. AllUnused'
  BY <1>1, <1>2, Zenon DEF ServerInv, AllUnused, Unused
<1>6. Invitations'
  <2> SUFFICES ASSUME NEW q \in s_req', q.op = "save, accept" PROVE OwnInvitation(q)'
    BY Zenon DEF Invitations
  <2>1. q \in s_req /\ OwnInvitation(q)
    BY <1>1, <1>2, Zenon DEF ServerInv, Invitations
  <2> QED
    BY <1>1, <1>2, <2>1, Zenon DEF OwnInvitation
<1>7. AllSettled'
  BY <1>1, <1>2, Zenon DEF ServerInv, AllSettled, Settled, SE!Confirmed
<1>8. SE!JobsKeepDecisions'
  BY <1>1, Zenon DEF ServerInv, SE!JobsKeepDecisions
<1> QED
  BY <1>4, <1>5, <1>6, <1>7, <1>8, Zenon DEF ServerInv

\* accept_invite on a copy.
LEMMA AcceptedCopy ==
    ASSUME NEW e \in ServerRows
    PROVE  SE!accept_copy(e) \in ServerRows /\ SE!accept_copy(e).status = 1
<1> DEFINE k == [e EXCEPT !.status = 1]
           l == [k EXCEPT !.grantee = TRUE]
           m == [l EXCEPT !.email = FALSE]
<1>0. FALSE \in BOOLEAN /\ TRUE \in BOOLEAN /\ 1 \in 0 .. 4
  OBVIOUS
<1>1. k \in ServerRows /\ k.status = 1
  BY <1>0, SetStatus, Zenon
<1> HIDE DEF k
<1>2. l \in ServerRows /\ l.status = k.status
  BY <1>0, <1>1, SetFlags, Zenon
<1> HIDE DEF l
<1>3. m \in ServerRows /\ m.status = l.status
  BY <1>0, <1>2, SetFlags, Zenon
<1>4. SE!accept_copy(e) = m
  BY DEF k, l, SE!accept_copy, SE!Accepted
<1> HIDE DEF m
<1> QED
  BY <1>1, <1>2, <1>3, <1>4, Zenon

\* send_invite holds the only copy of a grant whose uuid is new.
LEMMA ServerInvite ==
    ASSUME ServerInv, NEW r \in Requests, NEW g \in Grants, SE!send_invite(r, g)
    PROVE  ServerInv'
<1>1. PICK t \in Types, w \in Waits :
        /\ g \notin s_minted /\ s_minted' = s_minted \cup {g}
        /\ SE!Hold(r, IF ~mail /\ contact = "user" THEN "save, accept" ELSE "save", g,
                   SE!EmergencyAccess_new(t, w))
  BY Zenon DEF SE!send_invite
<1> DEFINE op == IF ~mail /\ contact = "user" THEN "save, accept" ELSE "save"
           e == SE!EmergencyAccess_new(t, w)
           n == [id |-> r, op |-> op, grant |-> g, row |-> e]
<1>2. /\ s_req' = s_req \cup {n}
      /\ UNCHANGED <<mail, day, s_row, timeout, reminder, s_taken, s_closed, decided>>
  BY <1>1, Zenon DEF SE!Hold
<1>3. op \in {"save", "save, accept"} /\ e \in ServerRows /\ e.status = 0
  BY DEF SE!EmergencyAccess_new, ServerRows, Dates, SE!Invited
<1>4. n.op = op /\ n.grant = g /\ n.row = e
  OBVIOUS
<1>5. ServerCopy(n)
  BY <1>3 DEF ServerCopy, ServerOps, SE!TakeoverSteps
<1>6. Unused(g)
  BY <1>1, Zenon DEF ServerInv, AllUnused
<1> HIDE DEF n, op, e
<1>7. ServerTypes'
  BY <1>1, <1>2, <1>5, Zenon DEF ServerInv, ServerTypes, ServerCopy
<1>8. AllUnused'
  BY <1>1, <1>2, <1>4, Zenon DEF ServerInv, AllUnused, Unused
<1>9. Invitations'
  BY <1>2, <1>4, <1>6, Zenon DEF ServerInv, Invitations, OwnInvitation, Unused
<1>10. AllSettled'
  <2>1. n.row.status = 0
    BY <1>3, <1>4, Zenon
  <2> QED
    BY <1>2, <2>1 DEF ServerInv, AllSettled, Settled, SE!Confirmed
<1>11. SE!JobsKeepDecisions'
  BY <1>2 DEF ServerInv, SE!JobsKeepDecisions
<1> QED
  BY <1>7, <1>8, <1>9, <1>10, <1>11 DEF ServerInv

\* The copies that the other handlers hold.
LEMMA ServerHandlers ==
    ASSUME ServerInv, NEW r \in Requests, NEW g \in Grants, SE!Handler(r, g)
    PROVE  ServerInv'
<1> DEFINE e == s_row[g]
<1>0. /\ s_row[g] # None => e \in ServerRows /\ e.status \in 0 .. 4
      /\ g \in s_closed => s_row[g] = None \/ e.status <= SE!Confirmed
      /\ day \in Dates
  BY DEF ServerInv, ServerTypes, ServerRows, AllSettled, Settled, Dates
<1> USE DEF SE!Confirmed, SE!RecoveryInitiated, SE!RecoveryApproved, SE!Accepted
<1>1. CASE SE!post_emergency_access(r, g)
  <2>1. PICK t \in Types, w \in Waits :
          /\ e # None /\ SE!Hold(r, "save", g, [e EXCEPT !.atype = t, !.wait = w])
          /\ UNCHANGED s_minted
    BY <1>1, Zenon DEF SE!post_emergency_access, SE!ByGrantor
  <2>2. /\ [e EXCEPT !.atype = t, !.wait = w] \in ServerRows
        /\ [e EXCEPT !.atype = t, !.wait = w].status = e.status
    BY <1>0, <2>1, Zenon DEF ServerRows
  <2> QED
    BY <1>0, <2>1, <2>2, ServerHoldPreserves, Zenon DEF ServerOps, SE!TakeoverSteps
<1>2. CASE SE!delete_emergency_access(r, g) \/ SE!password_emergency_access(r, g)
  BY <1>0, <1>2, ServerHoldPreserves
  DEF SE!delete_emergency_access, SE!password_emergency_access, SE!ByGrantor,
      SE!is_valid_request, SE!ByGrantee, ServerOps, SE!TakeoverSteps
<1>3. CASE SE!send_invite(r, g)
  BY <1>3, ServerInvite
<1>4. CASE SE!resend_invite(r, g) \/ SE!accept_invite(r, g)
  <2>1. e # None /\ SE!Hold(r, "save", g, SE!accept_copy(e)) /\ UNCHANGED s_minted
    BY <1>4 DEF SE!resend_invite, SE!accept_invite, SE!ByGrantor
  <2>2. SE!accept_copy(e) \in ServerRows /\ SE!accept_copy(e).status = 1
    BY <1>0, <2>1, AcceptedCopy
  <2> QED
    BY <2>1, <2>2, ServerHoldPreserves DEF ServerOps, SE!TakeoverSteps
<1>5. CASE SE!confirm_emergency_access(r, g)
  <2> DEFINE k == [e EXCEPT !.status = 2]
             c == [e EXCEPT !.status = 2, !.email = FALSE]
  <2>1. e # None /\ SE!Hold(r, "save", g, c) /\ UNCHANGED s_minted
    BY <1>5 DEF SE!confirm_emergency_access, SE!ByGrantor
  <2>2. k \in ServerRows /\ k.status = 2
    BY <1>0, <2>1, SetStatus, 2 \in 0 .. 4, Zenon
  <2>3. c = [k EXCEPT !.email = FALSE]
    OBVIOUS
  <2> HIDE DEF k
  <2>4. c \in ServerRows /\ c.status = k.status
    BY <2>2, <2>3, SetFlags, FALSE \in BOOLEAN, Zenon
  <2> HIDE DEF c
  <2> QED
    BY <2>1, <2>2, <2>4, ServerHoldPreserves DEF ServerOps, SE!TakeoverSteps
<1>6. CASE SE!initiate_emergency_access(r, g)
  <2> DEFINE k == [e EXCEPT !.status = 3]
             l == [k EXCEPT !.initiated = day]
             c == [e EXCEPT !.status = 3, !.initiated = day, !.notified = day]
  <2>1. e # None /\ SE!Hold(r, "initiate", g, c) /\ UNCHANGED s_minted
    BY <1>6 DEF SE!initiate_emergency_access, SE!ByGrantee
  <2>2. k \in ServerRows
    BY <1>0, <2>1, SetStatus, 3 \in 0 .. 4, Zenon
  <2>3. c = [l EXCEPT !.notified = day]
    OBVIOUS
  <2> HIDE DEF k
  <2>4. l \in ServerRows
    BY <1>0, <2>2, SetDates, Zenon
  <2> HIDE DEF l
  <2>5. c \in ServerRows
    BY <1>0, <2>3, <2>4, SetDates, Zenon
  <2> HIDE DEF c
  <2> QED
    BY <2>1, <2>5, ServerHoldPreserves DEF ServerOps, SE!TakeoverSteps
<1>7. CASE SE!approve_emergency_access(r, g)
  <2> DEFINE c == [e EXCEPT !.status = 4]
  <2>1. e # None /\ e.status = 3 /\ SE!Hold(r, "approve", g, c) /\ UNCHANGED s_minted
    BY <1>7 DEF SE!approve_emergency_access, SE!ByGrantor
  <2>2. c \in ServerRows
    BY <1>0, <2>1, SetStatus, 4 \in 0 .. 4, Zenon
  <2> HIDE DEF c
  <2>3. g \notin s_closed
    BY <1>0, <2>1
  <2> QED
    BY <2>1, <2>2, <2>3, ServerHoldPreserves DEF ServerOps, SE!TakeoverSteps
<1>8. CASE SE!reject_emergency_access(r, g)
  <2> DEFINE c == [e EXCEPT !.status = 2]
  <2>1. e # None /\ SE!Hold(r, "reject", g, c) /\ UNCHANGED s_minted
    BY <1>8 DEF SE!reject_emergency_access, SE!ByGrantor
  <2>2. c \in ServerRows /\ c.status = 2
    BY <1>0, <2>1, SetStatus, 2 \in 0 .. 4, Zenon
  <2> HIDE DEF c
  <2> QED
    BY <2>1, <2>2, ServerHoldPreserves DEF ServerOps, SE!TakeoverSteps
<1> QED
  BY <1>1, <1>2, <1>3, <1>4, <1>5, <1>6, <1>7, <1>8 DEF SE!Handler

\* A handler saves its copy: only a reject that overlapped no holder of a
\* running recovery settles the grant, and only then.
LEMMA ServerSave ==
    ASSUME ServerInv, NEW q \in s_req, SE!save(q)
    PROVE  ServerInv'
<1>1. /\ q.op \in {"save", "initiate", "approve", "reject"}
      /\ s_row' = [s_row EXCEPT ![q.grant] = q.row]
      /\ decided' = decided \ {q.grant}
      /\ s_req' = s_req \ {q}
      /\ UNCHANGED <<day, s_minted, timeout, reminder>>
  BY DEF SE!save, SE!Done
<1>2. /\ q.grant \in Grants /\ q.row \in ServerRows /\ q.row.status \in 0 .. 4
      /\ q.op = "reject" => q.row.status = SE!Confirmed
      /\ s_row \in [Grants -> ServerRows \cup {None}]
  BY DEF ServerInv, ServerTypes, ServerCopy, ServerRows
<1>3. /\ s_closed' \subseteq s_closed \cup {q.grant}
      /\ q.grant \in s_closed' /\ q.grant \notin s_closed =>
             q.op = "reject" /\ ~SE!Holders(q.grant, s_req \ {q})
      /\ q.grant \in s_closed' => q.op \in {"save", "reject"}
  <2>1. CASE q.op = "reject"
    BY <2>1 DEF SE!save
  <2>2. CASE q.op \in {"initiate", "approve"}
    BY <2>2 DEF SE!save
  <2>3. CASE q.op = "save"
    BY <2>3 DEF SE!save
  <2> QED
    BY <1>1, <2>1, <2>2, <2>3
<1>4. ServerTypes'
  BY <1>1, <1>2, <1>3 DEF ServerInv, ServerTypes, ServerCopy
<1>5. AllUnused'
  BY <1>1, <1>2 DEF ServerInv, AllUnused, Unused
<1>6. Invitations'
  <2> SUFFICES ASSUME NEW p \in s_req', p.op = "save, accept" PROVE OwnInvitation(p)'
    BY Zenon DEF Invitations
  <2>1. p \in s_req /\ OwnInvitation(p) /\ p # q
    BY <1>1, Zenon DEF ServerInv, Invitations
  <2>2. q.grant # p.grant
    BY <2>1, Zenon DEF OwnInvitation
  <2>3. p.grant \in Grants
    BY <2>1, Zenon DEF ServerInv, ServerTypes, ServerCopy
  <2> QED
    BY <1>1, <1>2, <2>1, <2>2, <2>3, Zenon DEF OwnInvitation
<1>7. AllSettled'
  <2> SUFFICES ASSUME NEW g \in s_closed' PROVE Settled(g)'
    BY DEF AllSettled
  <2>1. CASE g # q.grant
    <3>1. g \in s_closed /\ Settled(g) /\ g \in Grants
      BY <1>3, <2>1 DEF ServerInv, AllSettled, ServerTypes
    <3> QED
      BY <1>1, <1>2, <2>1, <3>1 DEF Settled
  <2>2. CASE g = q.grant /\ g \in s_closed
    <3>1. Settled(g) /\ q.op \in {"save", "reject"}
      BY <1>3, <2>2 DEF ServerInv, AllSettled
    <3>2. q.row.status <= SE!Confirmed
      BY <2>2, <3>1 DEF Settled
    <3> QED
      BY <1>1, <1>2, <2>2, <3>1, <3>2 DEF Settled
  <2>3. CASE g = q.grant /\ g \notin s_closed
    <3>1. q.row.status <= SE!Confirmed /\ ~SE!Holders(g, s_req \ {q})
      BY <1>2, <1>3, <2>3 DEF SE!Confirmed
    <3>2. \A c \in timeout : c.grant # g
      BY <3>1 DEF SE!Holders
    <3>3. ASSUME NEW p \in s_req \ {q}, p.grant = g, p.op # "initiate"
          PROVE  p.row.status <= SE!Confirmed
      <4>1. ~(p.row.status >= SE!RecoveryInitiated) /\ p.row.status \in 0 .. 4
        BY <3>1, <3>3 DEF SE!Holders, ServerInv, ServerTypes, ServerCopy, ServerRows
      <4> QED
        BY <4>1 DEF SE!RecoveryInitiated, SE!Confirmed
    <3> QED
      BY <1>1, <1>2, <2>3, <3>1, <3>2, <3>3 DEF Settled
  <2> QED
    BY <2>1, <2>2, <2>3
<1>8. SE!JobsKeepDecisions'
  BY <1>1, <1>2 DEF ServerInv, ServerTypes, SE!JobsKeepDecisions
<1> QED
  BY <1>4, <1>5, <1>6, <1>7, <1>8 DEF ServerInv

\* send_invite saves the row, and holds it to save it once more, accepted.
LEMMA ServerSaveThenAccept ==
    ASSUME ServerInv, NEW q \in s_req, SE!save_then_accept(q)
    PROVE  ServerInv'
<1> DEFINE n == [q EXCEPT !.op = "save", !.row = SE!accept_copy(q.row)]
<1>1. /\ q.op = "save, accept" /\ OwnInvitation(q)
      /\ s_row' = [s_row EXCEPT ![q.grant] = q.row]
      /\ s_req' = (s_req \ {q}) \cup {n}
      /\ UNCHANGED <<day, s_minted, timeout, reminder, s_closed, decided>>
  BY Zenon DEF SE!save_then_accept, ServerInv, Invitations
<1>2. /\ q.grant \in Grants /\ q.row \in ServerRows
      /\ q \in [id : Requests, op : ServerOps, grant : Grants, row : ServerRows]
      /\ s_row \in [Grants -> ServerRows \cup {None}]
  BY DEF ServerInv, ServerTypes, ServerCopy
<1>3. SE!accept_copy(q.row) \in ServerRows /\ SE!accept_copy(q.row).status = 1
  BY <1>2, AcceptedCopy
<1>4. n.op = "save" /\ n.grant = q.grant /\ n.row = SE!accept_copy(q.row) /\ ServerCopy(n)
  BY <1>2, <1>3, Zenon DEF ServerCopy, ServerOps, SE!TakeoverSteps
<1> HIDE DEF n
<1>5. ServerTypes'
  BY <1>1, <1>2, <1>4, Zenon DEF ServerInv, ServerTypes, ServerCopy
<1>6. AllUnused'
  BY <1>1, <1>2, <1>4, Zenon DEF ServerInv, AllUnused, Unused
<1>7. Invitations'
  <2> SUFFICES ASSUME NEW p \in s_req', p.op = "save, accept" PROVE OwnInvitation(p)'
    BY Zenon DEF Invitations
  <2>1. p \in s_req /\ OwnInvitation(p) /\ p # q /\ p.grant \in Grants
    BY <1>1, <1>4, Zenon DEF ServerInv, Invitations, ServerTypes, ServerCopy
  <2>2. q.grant # p.grant
    BY <2>1, Zenon DEF OwnInvitation
  <2> QED
    BY <1>1, <1>2, <1>4, <2>1, <2>2, Zenon DEF OwnInvitation
<1>8. AllSettled'
  <2> SUFFICES ASSUME NEW g \in s_closed PROVE Settled(g)'
    BY <1>1, Zenon DEF AllSettled
  <2>1. Settled(g) /\ g \in Grants
    BY DEF ServerInv, AllSettled, ServerTypes
  <2>2. g = q.grant => q.row.status <= SE!Confirmed
    BY <1>1, <2>1, Zenon DEF Settled
  <2>3. n.row.status <= SE!Confirmed
    BY <1>3, <1>4 DEF SE!Confirmed
  <2>4. s_row'[g] = None \/ s_row'[g].status <= SE!Confirmed
    BY <1>1, <1>2, <2>1, <2>2, Zenon DEF Settled
  <2>5. \A p \in s_req' : p.grant = g => p.op = "initiate" \/ p.row.status <= SE!Confirmed
    BY <1>1, <2>1, <2>3, Zenon DEF Settled
  <2> QED
    BY <1>1, <2>1, <2>4, <2>5, Zenon DEF Settled
<1>9. SE!JobsKeepDecisions'
  BY <1>1, <1>2, Zenon DEF ServerInv, ServerTypes, SE!JobsKeepDecisions, OwnInvitation
<1> QED
  BY <1>5, <1>6, <1>7, <1>8, <1>9 DEF ServerInv

\* Rows of which each is kept or removed, and requests of which some end, keep
\* the invariant, whichever decisions are forgotten.
LEMMA ServerShrinks ==
    ASSUME ServerInv, day' \in Int,
           s_req' \subseteq s_req, decided' \subseteq decided,
           timeout' \subseteq timeout, reminder' \subseteq reminder,
           UNCHANGED <<s_minted, s_closed>>,
           s_row' \in [Grants -> ServerRows \cup {None}],
           \A g \in Grants : s_row'[g] \in {s_row[g], None}
    PROVE  ServerInv'
<1>1. ServerTypes'
  BY DEF ServerInv, ServerTypes, ServerCopy
<1>2. AllUnused'
  BY DEF ServerInv, AllUnused, Unused
<1>3. Invitations'
  BY Zenon DEF ServerInv, ServerTypes, ServerCopy, Invitations, OwnInvitation
<1>4. AllSettled'
  <2> SUFFICES ASSUME NEW g \in s_closed PROVE Settled(g)'
    BY DEF AllSettled
  <2>1. Settled(g) /\ s_row'[g] \in {s_row[g], None}
    BY DEF ServerInv, AllSettled, ServerTypes
  <2> QED
    BY <2>1 DEF Settled
<1>5. SE!JobsKeepDecisions'
  BY DEF ServerInv, ServerTypes, SE!JobsKeepDecisions
<1> QED
  BY <1>1, <1>2, <1>3, <1>4, <1>5 DEF ServerInv

\* A takeover goes on to its next statement, with the copy of the row that it read.
LEMMA ServerTakeover ==
    ASSUME ServerInv, NEW q \in s_req, SE!set_password(q) \/ SE!delete_factors(q)
    PROVE  ServerInv'
<1>1. PICK op \in SE!TakeoverSteps :
        /\ s_req' = (s_req \ {q}) \cup {[q EXCEPT !.op = op]}
        /\ q.op \in SE!TakeoverSteps
        /\ UNCHANGED <<day, s_row, s_minted, timeout, reminder, s_closed, decided>>
  BY DEF SE!set_password, SE!delete_factors, SE!TakeOver, SE!TakeoverSteps
<1> DEFINE n == [q EXCEPT !.op = op]
<1>2. ServerCopy(q)
  BY DEF ServerInv, ServerTypes
<1>3. n \in [id : Requests, op : ServerOps, grant : Grants, row : ServerRows]
  BY <1>1, <1>2, Zenon DEF ServerCopy, ServerOps
<1>4. n.op = op /\ n.grant = q.grant /\ n.row = q.row
  BY <1>2, Zenon DEF ServerCopy
<1>5. s_req' = (s_req \ {q}) \cup {n}
  BY <1>1
<1> HIDE DEF n
<1>6. op \notin {"reject", "save, accept", "initiate"} /\ q.op \notin {"save, accept", "initiate"}
  BY <1>1 DEF SE!TakeoverSteps
<1>7. ServerCopy(n)
  BY <1>1, <1>2, <1>3, <1>4, <1>6, Zenon DEF ServerCopy
<1>8. ServerTypes'
  BY <1>1, <1>5, <1>7, Zenon DEF ServerInv, ServerTypes, ServerCopy
<1>9. AllUnused'
  BY <1>1, <1>4, <1>5, Zenon DEF ServerInv, AllUnused, Unused
<1>10. Invitations'
  <2> SUFFICES ASSUME NEW p \in s_req', p.op = "save, accept" PROVE OwnInvitation(p)'
    BY Zenon DEF Invitations
  <2>1. p \in s_req /\ OwnInvitation(p) /\ p # q
    BY <1>4, <1>5, <1>6, Zenon DEF ServerInv, Invitations
  <2>2. q.grant # p.grant
    BY <2>1, Zenon DEF OwnInvitation
  <2> QED
    BY <1>1, <1>4, <1>5, <2>1, <2>2, Zenon DEF OwnInvitation
<1>11. AllSettled'
  <2> SUFFICES ASSUME NEW g \in s_closed PROVE Settled(g)'
    BY <1>1 DEF AllSettled
  <2>1. Settled(g)
    BY DEF ServerInv, AllSettled
  <2>2. n.grant = g => n.row.status <= SE!Confirmed
    BY <1>4, <1>6, <2>1 DEF Settled
  <2> QED
    BY <1>1, <1>5, <2>1, <2>2, Zenon DEF Settled, SE!Confirmed
<1>12. SE!JobsKeepDecisions'
  BY <1>1, Zenon DEF ServerInv, SE!JobsKeepDecisions
<1> QED
  BY <1>8, <1>9, <1>10, <1>11, <1>12 DEF ServerInv

\* Deletions, failures, the end of a takeover, the account of the contact, the end
\* of a job and the passing of time.
LEMMA ServerRest ==
    ASSUME ServerInv,
           \/ \E q \in s_req : SE!delete(q) \/ SE!delete_memberships(q) \/ SE!fail(q)
           \/ SE!delete_all_by_grantee_email \/ SE!register \/ SE!delete_all_by_user
           \/ SE!job_panics \/ SE!next_day
    PROVE  ServerInv'
<1>0. day \in Int /\ s_row \in [Grants -> ServerRows \cup {None}]
  BY DEF ServerInv, ServerTypes
<1>1. ASSUME NEW q \in s_req, SE!delete(q) PROVE ServerInv'
  <2>1. q.grant \in Grants
    BY DEF ServerInv, ServerTypes, ServerCopy
  <2>2. /\ s_row' = [s_row EXCEPT ![q.grant] = None] /\ decided' = decided \ {q.grant}
        /\ s_req' = s_req \ {q} /\ UNCHANGED <<day, s_minted, timeout, reminder, s_closed>>
    BY <1>1 DEF SE!delete, SE!Done
  <2> QED
    BY <1>0, <2>1, <2>2, ServerShrinks
<1>2. ASSUME NEW q \in s_req, SE!delete_memberships(q) \/ SE!fail(q) PROVE ServerInv'
  BY <1>0, <1>2, ServerShrinks DEF SE!delete_memberships, SE!TakeOver, SE!fail, SE!Done
<1>3. CASE SE!delete_all_by_grantee_email
  <2>1. /\ \A g \in Grants : s_row'[g] \in {s_row[g], None}
        /\ s_row' \in [Grants -> ServerRows \cup {None}]
        /\ UNCHANGED <<day, s_minted, s_req, timeout, reminder, s_closed, decided>>
    BY <1>0, <1>3 DEF SE!delete_all_by_grantee_email
  <2> QED
    BY <1>0, <2>1, ServerShrinks
<1>4. CASE SE!delete_all_by_user
  <2>1. /\ \A g \in Grants : s_row'[g] \in {s_row[g], None}
        /\ s_row' \in [Grants -> ServerRows \cup {None}]
        /\ UNCHANGED <<day, s_minted, s_req, timeout, reminder, s_closed, decided>>
    BY <1>0, <1>4 DEF SE!delete_all_by_user
  <2> QED
    BY <1>0, <2>1, ServerShrinks
<1>5. CASE SE!register \/ SE!job_panics \/ SE!next_day
  <2>1. /\ day' \in Int /\ timeout' \subseteq timeout /\ reminder' \subseteq reminder
        /\ UNCHANGED <<s_row, s_minted, s_req, s_closed, decided>>
    BY <1>0, <1>5 DEF SE!register, SE!job_panics, SE!next_day
  <2> QED
    BY <1>0, <2>1, ServerShrinks
<1> QED
  BY <1>1, <1>2, <1>3, <1>4, <1>5

\* The jobs list rows of a running recovery, and write one column of a row.
LEMMA ServerJobs ==
    ASSUME ServerInv,
           \/ SE!emergency_request_timeout_job \/ SE!emergency_notification_reminder_job
           \/ \E c \in timeout : SE!update_access_status_and_save(c)
           \/ \E c \in reminder : SE!update_last_notification_date_and_save(c)
    PROVE  ServerInv'
<1>0. /\ day \in Dates /\ s_row \in [Grants -> ServerRows \cup {None}]
      /\ \A c \in SE!find_all_recoveries_initiated :
            c.grant \in Grants /\ s_row[c.grant] # None /\ s_row[c.grant].status = 3
  BY DEF ServerInv, ServerTypes, Dates, SE!find_all_recoveries_initiated, SE!RecoveryInitiated
<1>1. CASE SE!emergency_request_timeout_job
  <2>1. /\ timeout' \subseteq SE!find_all_recoveries_initiated
        /\ UNCHANGED <<day, s_row, s_minted, s_req, reminder, s_closed, decided>>
    BY <1>1, Zenon DEF SE!emergency_request_timeout_job
  <2>2. \A c \in timeout' : c.grant \in Grants /\ s_row[c.grant] # None /\ s_row[c.grant].status = 3
    BY <1>0, <2>1
  <2>3. ServerTypes'
    BY <2>1, <2>2 DEF ServerInv, ServerTypes, ServerCopy
  <2>4. AllUnused' /\ Invitations'
    BY <2>1, <2>2, Zenon DEF ServerInv, AllUnused, Unused, Invitations, OwnInvitation
  <2>5. AllSettled'
    BY <2>1, <2>2 DEF ServerInv, AllSettled, Settled, SE!Confirmed
  <2> QED
    BY <2>1, <2>3, <2>4, <2>5 DEF ServerInv, SE!JobsKeepDecisions
<1>2. CASE SE!emergency_notification_reminder_job
  <2>1. /\ reminder' \subseteq SE!find_all_recoveries_initiated
        /\ UNCHANGED <<day, s_row, s_minted, s_req, timeout, s_closed, decided>>
    BY <1>2 DEF SE!emergency_notification_reminder_job
  <2>2. ServerTypes'
    BY <1>0, <2>1 DEF ServerInv, ServerTypes, ServerCopy
  <2> QED
    BY <2>1, <2>2
   , Zenon DEF ServerInv, AllUnused, Unused, Invitations, OwnInvitation, AllSettled, Settled,
        SE!JobsKeepDecisions
<1>3. ASSUME NEW c \in timeout, SE!update_access_status_and_save(c) PROVE ServerInv'
  <2> DEFINE g == c.grant
             e == IF s_row[g] = None THEN None ELSE [s_row[g] EXCEPT !.status = 4]
  <2>1. /\ s_row' = [s_row EXCEPT ![g] = e]
        /\ decided' = decided \cup {g} /\ timeout' = timeout \ {c}
        /\ UNCHANGED <<day, s_minted, s_req, reminder, s_closed>>
    BY <1>3, Zenon DEF SE!update_access_status_and_save, SE!RecoveryApproved
  <2>2. g \in Grants
    BY DEF ServerInv, ServerTypes
  <2>3. /\ e \in ServerRows \cup {None}
        /\ e = None \/ e.status = 4
        /\ s_row[g] = None => e = None
    BY <1>0, <2>2, SetStatus, 4 \in 0 .. 4, Zenon
  <2> HIDE DEF e, g
  <2>4. g \notin s_closed /\ g \in s_minted /\ \A q \in s_req : q.op = "save, accept" => q.grant # g
    BY <2>2, Zenon DEF ServerInv, AllSettled, Settled, AllUnused, Unused, Invitations, OwnInvitation, g
  <2>5. ServerTypes'
    BY <2>1, <2>2, <2>3 DEF ServerInv, ServerTypes, ServerCopy
  <2>6. AllUnused'
    BY <1>0, <2>1, <2>2, <2>4, Zenon DEF ServerInv, AllUnused, Unused
  <2>7. Invitations'
    BY <1>0, <2>1, <2>2, <2>4, Zenon DEF ServerInv, ServerTypes, ServerCopy, Invitations, OwnInvitation
  <2>8. AllSettled'
    BY <1>0, <2>1, <2>2, <2>4, Zenon DEF ServerInv, ServerTypes, AllSettled, Settled
  <2>9. SE!JobsKeepDecisions'
    BY <1>0, <2>1, <2>2, <2>3 DEF ServerInv, ServerTypes, SE!JobsKeepDecisions, SE!RecoveryApproved
  <2> QED
    BY <2>5, <2>6, <2>7, <2>8, <2>9 DEF ServerInv
<1>4. ASSUME NEW c \in reminder, SE!update_last_notification_date_and_save(c) PROVE ServerInv'
  <2> DEFINE g == c.grant
             e == IF s_row[g] = None THEN None ELSE [s_row[g] EXCEPT !.notified = day]
  <2>1. /\ s_row' = [s_row EXCEPT ![g] = e] /\ reminder' = reminder \ {c}
        /\ UNCHANGED <<day, s_minted, s_req, timeout, s_closed, decided>>
    BY <1>4, Zenon DEF SE!update_last_notification_date_and_save
  <2>2. g \in Grants
    BY DEF ServerInv, ServerTypes
  <2>3. /\ e \in ServerRows \cup {None}
        /\ s_row[g] = None => e = None
        /\ s_row[g] # None => e.status = s_row[g].status
    BY <1>0, <2>2, SetDates, Zenon
  <2> HIDE DEF e, g
  <2>4. \A h \in Grants :
          /\ s_row[h] = None => s_row'[h] = None
          /\ s_row[h] # None => s_row'[h].status = s_row[h].status
    BY <1>0, <2>1, <2>3
  <2>5. ServerTypes'
    BY <2>1, <2>2, <2>3 DEF ServerInv, ServerTypes, ServerCopy
  <2>6. AllUnused' /\ Invitations'
    BY <2>1, <2>4, Zenon DEF ServerInv, ServerTypes, ServerCopy, AllUnused, Unused, Invitations, OwnInvitation
  <2>7. AllSettled'
    BY <2>1, <2>4 DEF ServerInv, ServerTypes, AllSettled, Settled
  <2>8. SE!JobsKeepDecisions'
    BY <2>1, <2>4 DEF ServerInv, ServerTypes, SE!JobsKeepDecisions
  <2> QED
    BY <2>5, <2>6, <2>7, <2>8 DEF ServerInv
<1> QED
  BY <1>1, <1>2, <1>3, <1>4

\* On the server a rejection that overlapped no holder of the running recovery
\* is final until the contact initiates again, and an approval by the timeout
\* job outlives the reminder job, for any number of grants and requests.
THEOREM ServerDecisionsAlwaysHold == SE!Spec => []SE!ServerDecisionsHold
<1>1. SE!Init => ServerInv
  BY DEF SE!Init, ServerInv, ServerTypes, AllUnused, Unused, Invitations, AllSettled,
         SE!JobsKeepDecisions
<1>2. ServerInv /\ [SE!Next]_SE!vars => ServerInv'
  <2> SUFFICES ASSUME ServerInv, [SE!Next]_SE!vars PROVE ServerInv'
    OBVIOUS
  <2>1. CASE UNCHANGED SE!vars
    BY <2>1, ServerShrinks, Zenon DEF SE!vars, ServerInv, ServerTypes
  <2>2. CASE SE!Next
    BY <2>2, ServerHandlers, ServerSave, ServerSaveThenAccept, ServerTakeover, ServerRest, ServerJobs
    DEF SE!Next
  <2> QED
    BY <2>1, <2>2
<1>3. ServerInv => SE!ServerDecisionsHold
  <2> SUFFICES ASSUME ServerInv, NEW g \in s_closed
               PROVE  /\ ~SE!view_emergency_access(g) /\ ~SE!takeover_emergency_access(g)
                      /\ \A q \in s_req : q.grant = g => q.op \notin SE!TakeoverSteps
    BY DEF ServerInv, SE!ServerDecisionsHold, SE!ServerRejectionHolds
  <2>1. Settled(g)
    BY DEF ServerInv, AllSettled
  <2>2. ~SE!view_emergency_access(g) /\ ~SE!takeover_emergency_access(g)
    BY <2>1 DEF Settled, SE!view_emergency_access, SE!takeover_emergency_access,
                SE!is_valid_request, SE!ByGrantee, SE!Confirmed, SE!RecoveryApproved
  <2>3. ASSUME NEW q \in s_req, q.grant = g, q.op \in SE!TakeoverSteps PROVE FALSE
    BY <2>1, <2>3 DEF ServerInv, ServerTypes, ServerCopy, Settled, SE!Confirmed, SE!RecoveryApproved,
                      SE!TakeoverSteps
  <2> QED
    BY <2>2, <2>3
<1> QED
  BY <1>1, <1>2, <1>3, PTL DEF SE!Spec
=============================================================================
