----------------------------- MODULE SendsProofs -----------------------------
(* For any sends, files and requests in flight, any settings and any limits:  *)
(* the worker counts the accesses it grants, keeps what the owner saved, and  *)
(* leaves no object behind, and no link for a download beyond its time.       *)
EXTENDS Sends, TLAPS

Kinds == {SEND_TYPE_TEXT, SEND_TYPE_FILE}

\* The form of a request that deletes objects, and of the trigger's state.
Drop == [id : Requests, at : {"drop"}, send : Sends, keys : SUBSET Files]
Sweep == [at : {"sweep"}, iso : 0 .. MaxTime, keys : SUBSET (Sends \X Files), todo : SUBSET Sends]

Typed ==
    /\ TypeOK
    /\ \A q \in req : q.at = "drop" => q \in Drop
    /\ cron = Idle \/ cron \in Sweep

\* A uuid that was not generated yet has left no trace.
Unused(s) ==
    /\ row[s] = NoRow /\ granted[s] = 0
    /\ \A q \in req : q.send # s
    /\ \A k \in objects : k[1] # s
    /\ \A t \in tokens : t.send # s

MintedOK == \A s \in Sends \ minted : Unused(s)

\* A send is a text or a file for good, in the row and in every copy of it, and
\* only files have objects.
RequestOfKind(q, kind) ==
    /\ q.at \in Saves => q.row.atype = kind[q.send]
    /\ q.at = "delete" => (q.was_file_send <=> kind[q.send] = SEND_TYPE_FILE)
    /\ q.at = "put_object" => kind[q.send] = SEND_TYPE_FILE

OfKind(kind) ==
    /\ \A s \in Sends : row[s] # NoRow => row[s].atype = kind[s]
    /\ \A q \in req : RequestOfKind(q, kind)
    /\ \A k \in objects : kind[k[1]] = SEND_TYPE_FILE

KindsOK == \E kind \in [Sends -> Kinds] : OfKind(kind)

\* What a request that will save the row holds is what the row holds, but for
\* what it will change, unless a write overlapped another.
Counts(q) == IF q.at = "save" THEN 0 ELSE 1

CopyExact(q) ==
    /\ q.row.access_count <= granted[q.send] + Counts(q)
    /\ q.at # "save" /\ q.row.max_access_count # NoLimit =>
          q.row.access_count <= q.row.max_access_count
    /\ ~raced[q.send] =>
          /\ row[q.send] # NoRow
          /\ q.row.access_count = granted[q.send] + Counts(q)
          /\ q.at # "save" =>
                /\ q.row.max_access_count = row[q.send].max_access_count
                /\ q.row.disabled = row[q.send].disabled
                /\ q.row.deletion_date = row[q.send].deletion_date

CopiesExact == \A q \in req : q.at \in Saves => CopyExact(q)

\* A token was issued with the deletion date that its send still has.
TokensExact ==
    \A t \in tokens : ~t.moved /\ row[t.send] # NoRow /\ ~raced[t.send] =>
        t.date = row[t.send].deletion_date

\* A token ends at the date it was issued with, or within the hour.
TokensEnd ==
    \A t \in tokens : IF t.date \in Parses THEN t.exp = t.date ELSE t.exp <= now + Hour

\* An object whose send the trigger is about to delete is still to be deleted.
SweepExact ==
    cron.at = "sweep" =>
        \A k \in objects : \/ leaked[k[1]] \/ k \in cron.keys \/ k[1] \in cron.todo
                           \/ row[k[1]] = NoRow \/ row[k[1]].deletion_date > cron.iso

\* The inductive invariant: what the counts, and what the objects rest on.
CountsOK == CountExact /\ SettingsHold /\ CopiesExact /\ TokensExact
FilesOK == KindsOK /\ ObjectsOwned /\ SweepExact

IInv == Typed /\ MintedOK /\ CountsOK /\ FilesOK

-----------------------------------------------------------------------------
(* Rows, and the copies that handlers make of them. *)

\* A row has its fields, and is not the row that stands for none.
LEMMA RowFields ==
    ASSUME NEW c \in Row
    PROVE  /\ c # NoRow /\ c.atype \in Kinds
           /\ c.max_access_count \in 0 .. NoLimit /\ c.access_count \in 0 .. MaxGrants
           /\ c.disabled \in BOOLEAN /\ c.deletion_date \in Dates /\ c.password_hash \in BOOLEAN
  BY DEF Row, NoRow, Kinds, SEND_TYPE_TEXT, SEND_TYPE_FILE

\* Send::find_by_uuid and Send::save lose the password and nothing else.
LEMMA StoredFields ==
    ASSUME NEW c \in Row
    PROVE  /\ Stored(c) \in Row
           /\ Stored(c).atype = c.atype /\ Stored(c).max_access_count = c.max_access_count
           /\ Stored(c).access_count = c.access_count /\ Stored(c).disabled = c.disabled
           /\ Stored(c).deletion_date = c.deletion_date
<1>1. Stored(c) \in Row
  BY Zenon DEF Stored, Row
<1> QED
  BY <1>1 DEF Stored, Row

\* What a row in the table looks like when it is loaded.
LEMMA LoadedFields ==
    ASSUME TypeOK, NEW s \in Sends, row[s] # NoRow
    PROVE  /\ row[s] \in Row /\ Loaded(s) = Stored(row[s])
  BY DEF TypeOK, Loaded, Stored

\* A copy with the settings of a body.
LEMMA EditedFields ==
    ASSUME NEW c \in Row, NEW b \in Bodies
    PROVE  LET e == [c EXCEPT !.max_access_count = b.max_access_count, !.disabled = b.disabled,
                              !.deletion_date = b.deletion_date, !.password_hash = b.password_hash]
           IN  e \in Row /\ e.atype = c.atype /\ e.access_count = c.access_count
<1> DEFINE e == [c EXCEPT !.max_access_count = b.max_access_count, !.disabled = b.disabled,
                          !.deletion_date = b.deletion_date, !.password_hash = b.password_hash]
<1>1. /\ b.max_access_count \in 0 .. NoLimit /\ b.disabled \in BOOLEAN
      /\ b.deletion_date \in Dates /\ b.password_hash \in BOOLEAN
  BY BodiesAssumption DEF Settings
<1>2. e \in Row
  BY <1>1, Zenon DEF Row
<1>3. e.atype = c.atype /\ e.access_count = c.access_count
  BY DEF Row
<1> QED
  BY <1>2, <1>3

\* A copy that is counted up.
LEMMA CountedFields ==
    ASSUME TypeOK, NEW s \in Sends, row[s] # NoRow, row[s].access_count < MaxGrants
    PROVE  LET e == CountedUp(s)
           IN  /\ e \in Row /\ e.atype = row[s].atype
               /\ e.access_count = row[s].access_count + 1
               /\ e.max_access_count = row[s].max_access_count
               /\ e.disabled = row[s].disabled /\ e.deletion_date = row[s].deletion_date
<1> DEFINE l == Stored(row[s])
<1>1. l \in Row /\ row[s] \in Row /\ CountedUp(s) = [l EXCEPT !.access_count = @ + 1]
  BY LoadedFields, StoredFields DEF CountedUp
<1>2. /\ l.atype = row[s].atype /\ l.max_access_count = row[s].max_access_count
      /\ l.access_count = row[s].access_count /\ l.disabled = row[s].disabled
      /\ l.deletion_date = row[s].deletion_date
  BY <1>1, StoredFields
<1> HIDE DEF l
<1>3. l.access_count + 1 \in 0 .. MaxGrants
  BY <1>1, <1>2, RowFields, BoundsAssumption
<1>4. [l EXCEPT !.access_count = @ + 1] \in Row
  BY <1>1, <1>3 DEF Row
<1>5. LET e == [l EXCEPT !.access_count = @ + 1]
      IN  /\ e.atype = l.atype /\ e.access_count = l.access_count + 1
          /\ e.max_access_count = l.max_access_count
          /\ e.disabled = l.disabled /\ e.deletion_date = l.deletion_date
  BY <1>1 DEF Row
<1> QED
  BY <1>1, <1>2, <1>4, <1>5

-----------------------------------------------------------------------------
(* The first statement of a handler: a request is in flight. *)

\* A request whose copy of the row is exact joins the others.
LEMMA StartStep ==
    ASSUME IInv, NEW p, Start(p), IsRequest(p), p.at \notin {"list", "drop"}, row[p.send] # NoRow,
           \A kind \in [Sends -> Kinds] : OfKind(kind) => RequestOfKind(p, kind),
           p.at \in Saves => CopyExact(p)
    PROVE  IInv'
<1>1. /\ req' = req \cup {p}
      /\ UNCHANGED <<now, row, objects, cron, tokens, minted, granted, want, raced, leaked>>
  BY DEF Start
<1>2. Typed'
  BY <1>1 DEF IInv, Typed, TypeOK
<1>3. MintedOK'
  <2>1. p.send \in Sends /\ p.send \in minted
    BY DEF IInv, MintedOK, Unused, IsRequest
  <2> QED
    BY <1>1, <2>1 DEF IInv, MintedOK, Unused
<1>4. CountsOK'
  <2>1. CountExact' /\ SettingsHold' /\ TokensExact'
    BY <1>1 DEF IInv, CountsOK, CountExact, SettingsHold, TokensExact
  <2>2. CopiesExact'
    BY <1>1 DEF IInv, CountsOK, CopiesExact, CopyExact
  <2> QED
    BY <2>1, <2>2 DEF CountsOK
<1>5. FilesOK'
  <2>1. KindsOK'
    BY <1>1 DEF IInv, FilesOK, KindsOK, OfKind
  <2>2. ObjectsOwned' /\ SweepExact'
    BY <1>1 DEF IInv, FilesOK, ObjectsOwned, SweepExact
  <2> QED
    BY <2>1, <2>2 DEF FilesOK
<1> QED
  BY <1>2, <1>3, <1>4, <1>5 DEF IInv

\* The owner's handlers start.
LEMMA OwnerStep ==
    ASSUME IInv, NEW r \in Requests, NEW s \in Sends, Owner(r, s)
    PROVE  IInv'
<1>0. TypeOK /\ granted[s] \in Nat /\ (row[s] # NoRow => row[s] \in Row)
  BY LoadedFields, BoundsAssumption DEF IInv, Typed, TypeOK
<1>1. ASSUME NEW c \in Bodies, put_send(r, s, c) PROVE IInv'
  <2> DEFINE e == [Loaded(s) EXCEPT !.max_access_count = c.max_access_count,
                                    !.disabled = c.disabled,
                                    !.deletion_date = c.deletion_date,
                                    !.password_hash = c.password_hash]
             p == [id |-> r, at |-> "save", send |-> s, op |-> "put", row |-> e]
  <2>1. row[s] # NoRow /\ Start(p)
    BY <1>1 DEF put_send
  <2>2. e \in Row /\ e.atype = row[s].atype /\ e.access_count = row[s].access_count
    <3>1. /\ Loaded(s) \in Row /\ Loaded(s).atype = row[s].atype
          /\ Loaded(s).access_count = row[s].access_count
      BY <1>0, <2>1, LoadedFields, StoredFields
    <3>2. e \in Row /\ e.atype = Loaded(s).atype /\ e.access_count = Loaded(s).access_count
      BY <3>1, EditedFields, Zenon
    <3> QED
      BY <3>1, <3>2
  <2> HIDE DEF e
  <2>3. p.id = r /\ p.at = "save" /\ p.send = s /\ p.op = "put" /\ p.row = e
    OBVIOUS
  <2> HIDE DEF p
  <2>4. IsRequest(p)
    BY <2>2, <2>3 DEF IsRequest, Saves
  <2>5. CopyExact(p)
    BY <1>0, <2>1, <2>2, <2>3, RowFields DEF IInv, CountsOK, CountExact, CopyExact, Counts
  <2>6. \A kind \in [Sends -> Kinds] : OfKind(kind) => RequestOfKind(p, kind)
    BY <2>1, <2>2, <2>3 DEF OfKind, RequestOfKind
  <2> QED
    BY <2>1, <2>3, <2>4, <2>5, <2>6, StartStep
<1>2. CASE remove_password(r, s)
  <2> DEFINE e == Stored(Stored(row[s]))
             p == [id |-> r, at |-> "save", send |-> s, op |-> "remove_password", row |-> e]
  <2>1. row[s] # NoRow /\ Start(p)
    BY <1>0, <1>2, LoadedFields, Zenon DEF remove_password, Stored
  <2>2. e \in Row /\ e.atype = row[s].atype /\ e.access_count = row[s].access_count
    BY <1>0, <2>1, StoredFields
  <2> HIDE DEF e
  <2>3. p.id = r /\ p.at = "save" /\ p.send = s /\ p.op = "remove_password" /\ p.row = e
    OBVIOUS
  <2> HIDE DEF p
  <2>4. IsRequest(p)
    BY <2>2, <2>3 DEF IsRequest, Saves
  <2>5. CopyExact(p)
    BY <1>0, <2>1, <2>2, <2>3, RowFields DEF IInv, CountsOK, CountExact, CopyExact, Counts
  <2>6. \A kind \in [Sends -> Kinds] : OfKind(kind) => RequestOfKind(p, kind)
    BY <2>1, <2>2, <2>3 DEF OfKind, RequestOfKind
  <2> QED
    BY <2>1, <2>3, <2>4, <2>5, <2>6, StartStep
<1>3. CASE delete_send(r, s)
  <2> DEFINE p == [id |-> r, at |-> "delete", send |-> s, was_file_send |-> row[s].atype = SEND_TYPE_FILE]
  <2>1. row[s] # NoRow /\ Start(p)
    BY <1>3 DEF delete_send
  <2>2. p.id = r /\ p.at = "delete" /\ p.send = s /\ (p.was_file_send <=> row[s].atype = SEND_TYPE_FILE)
        /\ p.was_file_send \in BOOLEAN
    BY Zenon
  <2> HIDE DEF p
  <2>3. IsRequest(p)
    BY <2>2 DEF IsRequest, Saves
  <2>4. \A kind \in [Sends -> Kinds] : OfKind(kind) => RequestOfKind(p, kind)
    BY <2>1, <2>2 DEF OfKind, RequestOfKind, Saves
  <2> QED
    BY <2>1, <2>2, <2>3, <2>4, StartStep DEF Saves
<1>4. ASSUME NEW f \in Files, upload_file_send(r, s, f) PROVE IInv'
  <2> DEFINE p == [id |-> r, at |-> "put_object", send |-> s, file |-> f]
  <2>1. row[s].atype = SEND_TYPE_FILE /\ Start(p) /\ row[s] # NoRow
    BY <1>4 DEF upload_file_send, NoRow, SEND_TYPE_FILE
  <2>2. p.id = r /\ p.at = "put_object" /\ p.send = s /\ p.file = f
    OBVIOUS
  <2> HIDE DEF p
  <2>3. IsRequest(p)
    BY <2>2 DEF IsRequest, Saves
  <2>4. \A kind \in [Sends -> Kinds] : OfKind(kind) => RequestOfKind(p, kind)
    BY <2>1, <2>2 DEF OfKind, RequestOfKind, Saves
  <2> QED
    BY <2>1, <2>2, <2>3, <2>4, StartStep DEF Saves
<1> QED
  BY <1>1, <1>2, <1>3, <1>4 DEF Owner

\* The anonymous handlers start.
LEMMA AnonymousStep ==
    ASSUME IInv, NEW r \in Requests, NEW s \in Sends, Anonymous(r, s)
    PROVE  IInv'
<1>0. TypeOK
  BY DEF IInv, Typed
<1>1. ASSUME NEW p, Start(p), row[s] # NoRow, NEW pw \in BOOLEAN, Available(Loaded(s), pw),
             row[s].access_count < MaxGrants, p.id = r, p.at \in {"access", "init"}, p.send = s,
             p.row = CountedUp(s), p.at = "init" => p.file \in Files
      PROVE  IInv'
  <2>1. /\ p.row \in Row /\ p.row.atype = row[s].atype
        /\ p.row.access_count = row[s].access_count + 1
        /\ p.row.max_access_count = row[s].max_access_count
        /\ p.row.disabled = row[s].disabled /\ p.row.deletion_date = row[s].deletion_date
    BY <1>0, <1>1, CountedFields
  <2>2. IsRequest(p)
    BY <1>1, <2>1 DEF IsRequest, Saves
  <2>3. \A kind \in [Sends -> Kinds] : OfKind(kind) => RequestOfKind(p, kind)
    BY <1>1, <2>1 DEF OfKind, RequestOfKind
  <2>4. row[s].max_access_count # NoLimit => row[s].access_count < row[s].max_access_count
    BY <1>0, <1>1, LoadedFields, StoredFields DEF Available
  <2>5. row[s] \in Row /\ granted[s] \in Nat
    BY <1>0, <1>1, LoadedFields, BoundsAssumption DEF TypeOK
  <2>6. CopyExact(p)
    <3>1. row[s].access_count \in Nat /\ row[s].max_access_count \in Nat
      BY <2>5, RowFields, BoundsAssumption DEF NoLimit
    <3>2. row[s].access_count <= granted[s] /\ (~raced[s] => row[s].access_count = granted[s])
      BY <1>1 DEF IInv, CountsOK, CountExact
    <3> QED
      BY <1>1, <2>1, <2>4, <2>5, <3>1, <3>2 DEF CopyExact, Counts
  <2> QED
    BY <1>1, <2>2, <2>3, <2>6, StartStep
<1>2. ASSUME NEW pw \in BOOLEAN, public_access(r, s, pw) PROVE IInv'
  <2> DEFINE p == [id |-> r, at |-> "access", send |-> s, row |-> CountedUp(s)]
  <2>1. row[s] # NoRow /\ Available(Loaded(s), pw) /\ row[s].access_count < MaxGrants /\ Start(p)
    BY <1>2 DEF public_access
  <2>2. p.id = r /\ p.at = "access" /\ p.send = s /\ p.row = CountedUp(s)
    OBVIOUS
  <2> HIDE DEF p
  <2> QED
    BY <1>1, <2>1, <2>2
<1>3. ASSUME NEW pw \in BOOLEAN, NEW f \in Files, public_access_file_init(r, s, f, pw) PROVE IInv'
  <2> DEFINE p == [id |-> r, at |-> "init", send |-> s, file |-> f, row |-> CountedUp(s)]
  <2>1. row[s] # NoRow /\ Available(Loaded(s), pw) /\ row[s].access_count < MaxGrants /\ Start(p)
    BY <1>3 DEF public_access_file_init, NoRow, SEND_TYPE_FILE
  <2>2. p.id = r /\ p.at = "init" /\ p.send = s /\ p.row = CountedUp(s) /\ p.file = f
    OBVIOUS
  <2> HIDE DEF p
  <2> QED
    BY <1>1, <2>1, <2>2
<1> QED
  BY <1>2, <1>3 DEF Anonymous

-----------------------------------------------------------------------------
(* The statements that write a row. *)

\* One INSERT makes a send, under a uuid that nothing refers to.
LEMMA PostStep ==
    ASSUME IInv, NEW s \in Sends, NEW c \in Bodies, NEW atype \in Kinds, Post(s, atype, c)
    PROVE  IInv'
<1> DEFINE e == [atype |-> atype, access_count |-> 0,
                 max_access_count |-> c.max_access_count, disabled |-> c.disabled,
                 deletion_date |-> c.deletion_date, password_hash |-> c.password_hash]
<1>1. /\ s \notin minted /\ minted' = minted \cup {s}
      /\ row' = [row EXCEPT ![s] = Stored(e)] /\ want' = [want EXCEPT ![s] = c]
      /\ UNCHANGED <<now, objects, req, cron, tokens, granted, raced, leaked>>
  BY DEF Post
<1>2. c \in Settings
  BY BodiesAssumption
<1>3. e \in Row
  BY <1>2, BoundsAssumption DEF Row, Settings, Kinds
<1>4. /\ e.atype = atype /\ e.access_count = 0 /\ e.max_access_count = c.max_access_count
      /\ e.disabled = c.disabled /\ e.deletion_date = c.deletion_date
  OBVIOUS
<1> HIDE DEF e
<1>5. /\ Stored(e) \in Row /\ Stored(e) # NoRow
      /\ Stored(e).atype = atype /\ Stored(e).access_count = 0
      /\ Stored(e).max_access_count = c.max_access_count
      /\ Stored(e).disabled = c.disabled /\ Stored(e).deletion_date = c.deletion_date
  BY <1>3, <1>4, StoredFields, RowFields
<1>6. /\ row'[s] = Stored(e) /\ want'[s] = c
      /\ \A t \in Sends \ {s} : row'[t] = row[t] /\ want'[t] = want[t]
  BY <1>1 DEF IInv, Typed, TypeOK
<1>7. Unused(s)
  BY <1>1 DEF IInv, MintedOK
<1>8. Typed'
  BY <1>1, <1>2, <1>5 DEF IInv, Typed, TypeOK
<1>9. MintedOK'
  BY <1>1, <1>6 DEF IInv, MintedOK, Unused
<1>10. CountsOK'
  <2>1. CountExact'
    BY <1>1, <1>5, <1>6, <1>7 DEF IInv, CountsOK, CountExact, Unused
  <2>2. SettingsHold'
    BY <1>1, <1>5, <1>6 DEF IInv, CountsOK, SettingsHold
  <2>3. CopiesExact'
    <3>1. \A q \in req : q.send \in Sends \ {s}
      BY <1>7 DEF IInv, Typed, TypeOK, IsRequest, Unused
    <3> QED
      BY <1>1, <1>6, <3>1 DEF IInv, CountsOK, CopiesExact, CopyExact, Counts
  <2>4. TokensExact'
    <3>1. \A t \in tokens : t.send \in Sends \ {s}
      BY <1>7 DEF IInv, Typed, TypeOK, Unused, Claims
    <3> QED
      BY <1>1, <1>6, <3>1 DEF IInv, CountsOK, TokensExact
  <2> QED
    BY <2>1, <2>2, <2>3, <2>4 DEF CountsOK
<1>11. FilesOK'
  <2>0. /\ \A q \in req : q.send \in Sends \ {s}
        /\ \A k \in objects : k[1] \in Sends \ {s}
    BY <1>7 DEF IInv, Typed, TypeOK, IsRequest, Unused
  <2>1. KindsOK'
    <3>1. PICK kind \in [Sends -> Kinds] : OfKind(kind)
      BY DEF IInv, FilesOK, KindsOK
    <3> DEFINE new == [kind EXCEPT ![s] = atype]
    <3>2. new \in [Sends -> Kinds] /\ new[s] = atype /\ \A t \in Sends \ {s} : new[t] = kind[t]
      OBVIOUS
    <3> HIDE DEF new
    <3>3. OfKind(new)'
      <4>1. \A t \in Sends : row'[t] # NoRow => row'[t].atype = new[t]
        BY <1>5, <1>6, <3>1, <3>2 DEF OfKind
      <4>2. \A q \in req : RequestOfKind(q, new)
        BY <2>0, <3>1, <3>2 DEF OfKind, RequestOfKind
      <4>3. \A k \in objects : new[k[1]] = SEND_TYPE_FILE
        BY <2>0, <3>1, <3>2 DEF OfKind
      <4> QED
        BY <1>1, <4>1, <4>2, <4>3 DEF OfKind
    <3> QED
      BY <3>2, <3>3 DEF KindsOK
  <2>2. ObjectsOwned'
    BY <1>1, <1>6, <2>0 DEF IInv, FilesOK, ObjectsOwned
  <2>3. SweepExact'
    BY <1>1, <1>6, <2>0 DEF IInv, FilesOK, SweepExact
  <2> QED
    BY <2>1, <2>2, <2>3 DEF FilesOK
<1> QED
  BY <1>8, <1>9, <1>10, <1>11 DEF IInv

\* What a save of a copy, by q, leaves to show: the objects and the kinds do not
\* depend on what is in the copy.
LEMMA SavedFiles ==
    ASSUME IInv, NEW q \in req, q.at \in Saves, req' = req \ {q},
           row' = [row EXCEPT ![q.send] = Stored(q.row)], Overlaps(q.send),
           UNCHANGED <<objects, cron>>
    PROVE  FilesOK'
<1>1. /\ q.send \in Sends /\ q.row \in Row /\ Stored(q.row) # NoRow
      /\ Stored(q.row).atype = q.row.atype
  BY StoredFields, RowFields DEF IInv, Typed, TypeOK, IsRequest
<1>2. /\ row'[q.send] = Stored(q.row) /\ leaked'[q.send] = (leaked[q.send] \/ cron.at = "sweep")
      /\ \A s \in Sends \ {q.send} : row'[s] = row[s] /\ leaked'[s] = leaked[s]
  BY <1>1 DEF IInv, Typed, TypeOK, Overlaps
<1>3. \A k \in objects : k[1] \in Sends
  BY DEF IInv, Typed, TypeOK
<1>4. KindsOK'
  <2>1. PICK kind \in [Sends -> Kinds] : OfKind(kind)
    BY DEF IInv, FilesOK, KindsOK
  <2>2. OfKind(kind)'
    BY <1>1, <1>2, <2>1 DEF OfKind, RequestOfKind
  <2> QED
    BY <2>2 DEF KindsOK
<1>5. ObjectsOwned'
  <2>1. q.at # "list" /\ q.at # "drop"
    BY DEF Saves
  <2>2. ASSUME NEW k \in objects
        PROVE  \/ row'[k[1]] # NoRow \/ leaked'[k[1]]
               \/ \E p \in req' : p.send = k[1] /\ (p.at = "list" \/ (p.at = "drop" /\ k[2] \in p.keys))
    BY <1>1, <1>2, <1>3, <2>1 DEF IInv, FilesOK, ObjectsOwned
  <2> QED
    BY <2>2 DEF ObjectsOwned
<1>6. SweepExact'
  BY <1>2, <1>3, Zenon DEF IInv, FilesOK, SweepExact
<1> QED
  BY <1>4, <1>5, <1>6 DEF FilesOK

\* A save of the row marks the tokens that were issued with another date.
LEMMA SavedTokens ==
    ASSUME IInv, NEW q \in req, save(q), NEW u \in tokens'
    PROVE  /\ u \in Claims
           /\ \E t \in tokens :
                /\ u.send = t.send /\ u.exp = t.exp /\ u.date = t.date
                /\ u.moved <=> t.moved \/ (t.send = q.send /\ t.date # q.row.deletion_date)
<1>1. PICK t \in tokens :
        u = [t EXCEPT !.moved = t.moved \/ (t.send = q.send /\ t.date # q.row.deletion_date)]
  BY DEF save
<1>2. t \in Claims
  BY DEF IInv, Typed, TypeOK
<1>3. u \in Claims
  BY <1>1, <1>2, Zenon DEF Claims
<1>4. u.send = t.send /\ u.exp = t.exp /\ u.date = t.date
      /\ (u.moved <=> t.moved \/ (t.send = q.send /\ t.date # q.row.deletion_date))
  BY <1>1, <1>2, Zenon DEF Claims
<1> QED
  BY <1>3, <1>4

\* put_send and remove_password save their copy.
LEMMA SaveStep ==
    ASSUME IInv, NEW q \in req, save(q)
    PROVE  IInv'
<1> DEFINE s == q.send
<1>1. /\ q.at = "save" /\ row' = [row EXCEPT ![s] = Stored(q.row)] /\ req' = req \ {q}
      /\ Races(s, q) /\ Overlaps(s)
      /\ want' = [want EXCEPT ![s] = IF q.op = "put" /\ want[s].password_hash
                                     THEN [SettingsOf(q.row) EXCEPT !.password_hash = TRUE]
                                     ELSE SettingsOf(q.row)]
      /\ UNCHANGED <<now, objects, cron, minted, granted>>
  BY DEF save
<1>2. s \in Sends /\ q.row \in Row /\ CopyExact(q) /\ s \in minted
  BY <1>1 DEF IInv, Typed, TypeOK, IsRequest, Saves, CountsOK, CopiesExact, MintedOK, Unused
<1>3. /\ Stored(q.row) \in Row /\ Stored(q.row) # NoRow
      /\ Stored(q.row).access_count = q.row.access_count
      /\ Stored(q.row).max_access_count = q.row.max_access_count
      /\ Stored(q.row).disabled = q.row.disabled
      /\ Stored(q.row).deletion_date = q.row.deletion_date
  BY <1>2, StoredFields, RowFields
<1>4. SettingsOf(q.row) \in Settings /\ [SettingsOf(q.row) EXCEPT !.password_hash = TRUE] \in Settings
  BY <1>2, RowFields, Zenon DEF SettingsOf, Settings
<1>5. want'[s].max_access_count = q.row.max_access_count /\ want'[s].disabled = q.row.disabled
      /\ want'[s].deletion_date = q.row.deletion_date /\ want'[s] \in Settings
  <2>1. want'[s] \in {SettingsOf(q.row), [SettingsOf(q.row) EXCEPT !.password_hash = TRUE]}
    BY <1>1, <1>2 DEF IInv, Typed, TypeOK
  <2>2. \A w \in {SettingsOf(q.row), [SettingsOf(q.row) EXCEPT !.password_hash = TRUE]} :
           /\ w.max_access_count = q.row.max_access_count /\ w.disabled = q.row.disabled
           /\ w.deletion_date = q.row.deletion_date /\ w \in Settings
    <3>1. LET w == SettingsOf(q.row)
          IN  /\ w.max_access_count = q.row.max_access_count /\ w.disabled = q.row.disabled
              /\ w.deletion_date = q.row.deletion_date
      BY DEF SettingsOf
    <3>2. LET w == [SettingsOf(q.row) EXCEPT !.password_hash = TRUE]
          IN  /\ w.max_access_count = q.row.max_access_count /\ w.disabled = q.row.disabled
              /\ w.deletion_date = q.row.deletion_date
      BY DEF SettingsOf
    <3> QED
      BY <1>4, <3>1, <3>2, Zenon
  <2> QED
    BY <2>1, <2>2, Zenon
<1>6. /\ row'[s] = Stored(q.row) /\ raced'[s] = (raced[s] \/ OtherSavers(s, q) # {})
      /\ leaked'[s] = (leaked[s] \/ cron.at = "sweep")
      /\ \A t \in Sends \ {s} : /\ row'[t] = row[t] /\ want'[t] = want[t] /\ raced'[t] = raced[t]
                                /\ leaked'[t] = leaked[t]
  BY <1>1, <1>2 DEF IInv, Typed, TypeOK, Races, Overlaps
<1>7. ASSUME NEW u \in tokens'
      PROVE  /\ u \in Claims /\ u.send \in Sends
             /\ \E t \in tokens : /\ u.send = t.send /\ u.date = t.date
                                  /\ u.moved <=> t.moved \/ (t.send = s /\ t.date # q.row.deletion_date)
  BY SavedTokens, Zenon DEF Claims
<1>8. Typed'
  <2>1. row' \in [Sends -> Row \cup {NoRow}] /\ want' \in [Sends -> Settings]
    BY <1>1, <1>2, <1>3, <1>5, <1>6 DEF IInv, Typed, TypeOK
  <2>2. raced' \in [Sends -> BOOLEAN] /\ leaked' \in [Sends -> BOOLEAN]
    BY <1>1, <1>2 DEF IInv, Typed, TypeOK, Races, Overlaps
  <2> QED
    BY <1>1, <1>7, <2>1, <2>2 DEF IInv, Typed, TypeOK
<1>9. MintedOK'
  BY <1>1, <1>2, <1>6, <1>7 DEF IInv, MintedOK, Unused
<1>10. CountsOK'
  <2>1. CountExact'
    <3>1. q.row.access_count <= granted[s] /\ (~raced[s] => q.row.access_count = granted[s])
      BY <1>1, <1>2, BoundsAssumption DEF CopyExact, Counts, IInv, Typed, TypeOK
    <3> QED
      BY <1>1, <1>2, <1>3, <1>6, <3>1, Zenon DEF IInv, CountsOK, CountExact
  <2>2. SettingsHold'
    BY <1>3, <1>5, <1>6 DEF IInv, CountsOK, SettingsHold
  <2>3. CopiesExact'
    <3>1. ASSUME NEW p \in req', p.at \in Saves PROVE CopyExact(p)'
      <4>1. p \in req /\ p # q /\ CopyExact(p) /\ p.send \in Sends
        BY <1>1, <3>1 DEF IInv, Typed, TypeOK, IsRequest, CountsOK, CopiesExact
      <4>2. CASE p.send = s
        <5>1. p \in OtherSavers(s, q)
          BY <3>1, <4>1, <4>2 DEF OtherSavers
        <5>2. raced'[p.send]
          BY <1>6, <4>2, <5>1, Zenon
        <5> QED
          BY <1>1, <4>1, <5>2 DEF CopyExact, Counts
      <4>3. CASE p.send # s
        BY <1>1, <1>6, <4>1, <4>3 DEF CopyExact, Counts
      <4> QED
        BY <4>2, <4>3
    <3> QED
      BY <3>1 DEF CopiesExact
  <2>4. TokensExact'
    <3>1. ASSUME NEW u \in tokens', ~u.moved, row'[u.send] # NoRow, ~raced'[u.send]
          PROVE  u.date = row'[u.send].deletion_date
      <4>1. PICK t \in tokens : /\ u.send = t.send /\ u.date = t.date
                                /\ u.moved <=> t.moved \/ (t.send = s /\ t.date # q.row.deletion_date)
        BY <1>7
      <4>2. u.send \in Sends /\ ~t.moved
        BY <1>7, <3>1, <4>1
      <4> QED
        BY <1>3, <1>6, <3>1, <4>1, <4>2 DEF IInv, CountsOK, TokensExact
    <3> QED
      BY <3>1 DEF TokensExact
  <2> QED
    BY <2>1, <2>2, <2>3, <2>4 DEF CountsOK
<1>11. FilesOK'
  BY <1>1, SavedFiles, Zenon DEF Saves
<1> QED
  BY <1>8, <1>9, <1>10, <1>11 DEF IInv

\* public_access and public_access_file_init save their copy, counted up, and
\* answer; the file handler with a token.
LEMMA GrantStep ==
    ASSUME IInv, NEW q \in req, grant(q)
    PROVE  IInv'
<1> DEFINE s == q.send
           Written == /\ row' = [row EXCEPT ![s] = Stored(q.row)]
                      /\ Races(s, q) /\ Overlaps(s)
           Lost == raced' = [raced EXCEPT ![s] = TRUE] /\ UNCHANGED <<row, leaked>>
<1>1. /\ q.at \in {"access", "init"} /\ granted[s] < MaxGrants
      /\ Written \/ Lost
      /\ granted' = [granted EXCEPT ![s] = granted[s] + 1]
      /\ tokens' = IF q.at = "access" THEN tokens ELSE tokens \cup {Token(q)}
      /\ req' = req \ {q}
      /\ UNCHANGED <<now, objects, cron, minted, want>>
  BY DEF grant
<1>2. s \in Sends /\ q.row \in Row /\ CopyExact(q) /\ s \in minted /\ q.at \in Saves
  BY <1>1 DEF IInv, Typed, TypeOK, IsRequest, Saves, CountsOK, CopiesExact, MintedOK, Unused
<1>3. /\ Stored(q.row) \in Row /\ Stored(q.row) # NoRow
      /\ Stored(q.row).access_count = q.row.access_count
      /\ Stored(q.row).max_access_count = q.row.max_access_count
      /\ Stored(q.row).disabled = q.row.disabled
      /\ Stored(q.row).deletion_date = q.row.deletion_date
  BY <1>2, StoredFields, RowFields
<1>4. \A t \in Sends \ {s} : /\ row'[t] = row[t] /\ raced'[t] = raced[t]
                             /\ leaked'[t] = leaked[t] /\ granted'[t] = granted[t]
  BY <1>1, <1>2 DEF IInv, Typed, TypeOK, Races, Overlaps
<1>5. granted'[s] = granted[s] + 1 /\ granted[s] \in Nat
  BY <1>1, <1>2, BoundsAssumption DEF IInv, Typed, TypeOK
<1>6. \/ /\ Written /\ row'[s] = Stored(q.row)
         /\ raced'[s] = (raced[s] \/ OtherSavers(s, q) # {})
      \/ Lost /\ row'[s] = row[s] /\ raced'[s]
  BY <1>1, <1>2 DEF IInv, Typed, TypeOK, Races
<1>7. ASSUME NEW t \in tokens'
      PROVE  \/ t \in tokens
             \/ t.send = s /\ t.date = q.row.deletion_date
  BY <1>1 DEF Token
<1>8. tokens' \subseteq Claims
  <2>1. CASE q.at = "access"
    BY <1>1, <2>1 DEF IInv, Typed, TypeOK
  <2>2. CASE q.at = "init"
    <3>1. q.file \in Files /\ q.row.deletion_date \in Dates
      BY <1>2, <2>2, RowFields DEF IInv, Typed, TypeOK, IsRequest
    <3>2. Token(q).exp \in Nat
      BY <3>1, BoundsAssumption, LifetimeAssumption DEF Token, Dates, IInv, Typed, TypeOK
    <3>3. Token(q) \in Claims
      BY <1>2, <3>1, <3>2 DEF Token, Claims
    <3> QED
      BY <1>1, <2>2, <3>3 DEF IInv, Typed, TypeOK
  <2> QED
    BY <1>1, <2>1, <2>2
<1>9. Typed'
  <2>1. row' \in [Sends -> Row \cup {NoRow}]
    BY <1>1, <1>2, <1>3 DEF IInv, Typed, TypeOK
  <2>2. raced' \in [Sends -> BOOLEAN] /\ leaked' \in [Sends -> BOOLEAN]
    BY <1>1, <1>2, Zenon DEF IInv, Typed, TypeOK, Races, Overlaps
  <2>3. granted' \in [Sends -> 0 .. MaxGrants]
    <3>1. granted[s] + 1 \in 0 .. MaxGrants
      BY <1>1, <1>5, BoundsAssumption
    <3> QED
      BY <1>1, <3>1, Zenon DEF IInv, Typed, TypeOK
  <2> QED
    BY <1>1, <1>8, <2>1, <2>2, <2>3 DEF IInv, Typed, TypeOK
<1>10. MintedOK'
  <2>1. \A t \in Sends \ minted : t \in Sends \ {s} /\ Unused(t)
    BY <1>2 DEF IInv, MintedOK
  <2> QED
    BY <1>1, <1>4, <1>7, <2>1 DEF MintedOK, Unused
<1>11. CountsOK'
  <2>0. q.row.access_count <= granted'[s] /\ (~raced[s] => q.row.access_count = granted'[s])
    BY <1>1, <1>2, <1>5 DEF CopyExact, Counts
  <2>1. CountExact'
    <3>1. ASSUME row'[s] # NoRow
          PROVE  /\ row'[s].access_count <= granted'[s]
                 /\ ~raced'[s] => row'[s].access_count = granted'[s]
      <4>1. CASE row'[s] = Stored(q.row) /\ (raced[s] => raced'[s])
        BY <1>3, <2>0, <4>1
      <4>2. CASE row'[s] = row[s] /\ raced'[s]
        <5>1. row[s] \in Row /\ row[s].access_count <= granted[s]
          BY <1>2, <3>1, <4>2 DEF IInv, Typed, TypeOK, CountsOK, CountExact
        <5> QED
          BY <1>5, <4>2, <5>1, RowFields, BoundsAssumption
      <4> QED
        BY <1>6, <4>1, <4>2, Zenon
    <3> QED
      BY <1>4, <3>1 DEF IInv, CountsOK, CountExact
  <2>2. SettingsHold'
    <3>1. ASSUME ~raced'[s]
          PROVE  /\ row'[s].max_access_count = want[s].max_access_count
                 /\ row'[s].disabled = want[s].disabled
                 /\ row'[s].deletion_date = want[s].deletion_date
      <4>1. row'[s] = Stored(q.row) /\ ~raced[s]
        BY <1>6, <3>1, Zenon
      <4> QED
        BY <1>1, <1>2, <1>3, <4>1 DEF IInv, CountsOK, SettingsHold, CopyExact
    <3> QED
      BY <1>1, <1>4, <3>1 DEF IInv, CountsOK, SettingsHold
  <2>3. CopiesExact'
    <3>1. ASSUME NEW p \in req', p.at \in Saves PROVE CopyExact(p)'
      <4>1. p \in req /\ p # q /\ CopyExact(p) /\ p.send \in Sends /\ p.row \in Row
        BY <1>1, <3>1 DEF IInv, Typed, TypeOK, IsRequest, CountsOK, CopiesExact
      <4>2. CASE p.send = s
        <5>1. p \in OtherSavers(s, q)
          BY <3>1, <4>1, <4>2 DEF OtherSavers
        <5>2. raced'[p.send]
          BY <1>6, <4>2, <5>1, Zenon
        <5>3. p.row.access_count <= granted'[p.send] + Counts(p)
          BY <1>5, <4>1, <4>2, RowFields, BoundsAssumption DEF CopyExact, Counts
        <5> QED
          BY <4>1, <5>2, <5>3 DEF CopyExact, Counts
      <4>3. CASE p.send # s
        BY <1>4, <4>1, <4>3 DEF CopyExact, Counts
      <4> QED
        BY <4>2, <4>3
    <3> QED
      BY <3>1 DEF CopiesExact
  <2>4. TokensExact'
    <3>1. ASSUME NEW t \in tokens', ~t.moved, row'[t.send] # NoRow, ~raced'[t.send]
          PROVE  t.date = row'[t.send].deletion_date
      <4>1. t.send \in Sends
        BY <1>8 DEF Claims
      <4>2. CASE t.send = s
        <5>1. row'[s] = Stored(q.row) /\ ~raced[s]
          BY <1>6, <3>1, <4>2, Zenon
        <5>2. /\ row[s] # NoRow /\ q.row.deletion_date = row[s].deletion_date
          BY <1>1, <1>2, <5>1 DEF CopyExact
        <5> QED
          BY <1>3, <1>7, <3>1, <4>2, <5>1, <5>2 DEF IInv, CountsOK, TokensExact
      <4>3. CASE t.send # s
        BY <1>4, <1>7, <3>1, <4>1, <4>3 DEF IInv, CountsOK, TokensExact
      <4> QED
        BY <4>2, <4>3
    <3> QED
      BY <3>1 DEF TokensExact
  <2> QED
    BY <2>1, <2>2, <2>3, <2>4 DEF CountsOK
<1>12. FilesOK'
  <2>1. CASE Written
    BY <1>1, <1>2, <2>1, SavedFiles, Zenon
  <2>2. CASE Lost
    <3>1. KindsOK'
      <4>1. PICK kind \in [Sends -> Kinds] : OfKind(kind)
        BY DEF IInv, FilesOK, KindsOK
      <4>2. OfKind(kind)'
        BY <1>1, <2>2, <4>1 DEF OfKind
      <4> QED
        BY <4>2 DEF KindsOK
    <3>2. ObjectsOwned'
      BY <1>1, <2>2 DEF IInv, FilesOK, ObjectsOwned
    <3>3. SweepExact'
      BY <1>1, <2>2 DEF IInv, FilesOK, SweepExact
    <3> QED
      BY <3>1, <3>2, <3>3 DEF FilesOK
  <2> QED
    BY <1>1, <2>1, <2>2
<1> QED
  BY <1>9, <1>10, <1>11, <1>12 DEF IInv

-----------------------------------------------------------------------------
(* Deletions, and the objects of the bucket. *)

\* What rows, copies and tokens say is not touched by a step that leaves them,
\* and turns no request into one that saves.
LEMMA CountsFrame ==
    ASSUME IInv, UNCHANGED <<row, tokens, granted, want, raced>>,
           \A p \in req' : p.at \in Saves => p \in req
    PROVE  CountsOK'
<1>1. CountExact' /\ SettingsHold' /\ TokensExact'
  BY DEF IInv, CountsOK, CountExact, SettingsHold, TokensExact
<1>2. CopiesExact'
  BY DEF IInv, CountsOK, CopiesExact, CopyExact, Counts
<1> QED
  BY <1>1, <1>2 DEF CountsOK

\* The kinds of the sends stay when requests only end, or go on to list and to
\* delete objects.
LEMMA KindsFrame ==
    ASSUME IInv, objects' \subseteq objects,
           \A s \in Sends : row'[s] = row[s] \/ row'[s] = NoRow,
           \A p \in req' : p \in req \/ p.at \in {"list", "drop"}
    PROVE  KindsOK'
<1>1. PICK kind \in [Sends -> Kinds] : OfKind(kind)
  BY DEF IInv, FilesOK, KindsOK
<1>2. \A p \in req' : RequestOfKind(p, kind)
  BY <1>1 DEF OfKind, RequestOfKind, Saves
<1>3. OfKind(kind)'
  BY <1>1, <1>2 DEF OfKind
<1> QED
  BY <1>3 DEF KindsOK

\* delete_send deletes the row; the objects of a file send come next.
LEMMA DeleteStep ==
    ASSUME IInv, NEW q \in req, delete(q)
    PROVE  IInv'
<1> DEFINE s == q.send
           p == [id |-> q.id, at |-> "list", send |-> q.send]
<1>1. /\ q.at = "delete" /\ row' = [row EXCEPT ![s] = NoRow]
      /\ req' = (req \ {q}) \cup IF q.was_file_send THEN {p} ELSE {}
      /\ Races(s, q)
      /\ UNCHANGED <<now, objects, cron, tokens, minted, granted, want, leaked>>
  BY DEF delete
<1>2. s \in Sends /\ s \in minted /\ q.id \in Requests
  BY DEF IInv, Typed, TypeOK, IsRequest, MintedOK, Unused
<1>3. p.id = q.id /\ p.at = "list" /\ p.send = s
  OBVIOUS
<1> HIDE DEF p
<1>4. IsRequest(p)
  BY <1>2, <1>3 DEF IsRequest, Saves
<1>5. /\ row'[s] = NoRow /\ raced'[s] = (raced[s] \/ OtherSavers(s, q) # {})
      /\ \A t \in Sends \ {s} : row'[t] = row[t] /\ raced'[t] = raced[t]
  BY <1>1, <1>2 DEF IInv, Typed, TypeOK, Races
<1>6. Typed'
  <2>1. raced' \in [Sends -> BOOLEAN] /\ row' \in [Sends -> Row \cup {NoRow}]
    BY <1>1, <1>2 DEF IInv, Typed, TypeOK, Races
  <2>2. \A u \in req' : IsRequest(u) /\ (u.at = "drop" => u \in Drop)
    BY <1>1, <1>3, <1>4 DEF IInv, Typed, TypeOK
  <2> QED
    BY <1>1, <2>1, <2>2 DEF IInv, Typed, TypeOK
<1>7. MintedOK'
  <2>1. \A u \in req' : u \in req \/ u.send = s
    BY <1>1, <1>3
  <2> QED
    BY <1>1, <1>2, <1>5, <2>1 DEF IInv, MintedOK, Unused
<1>8. CountsOK'
  <2>1. CountExact' /\ SettingsHold'
    BY <1>1, <1>5 DEF IInv, CountsOK, CountExact, SettingsHold
  <2>2. CopiesExact'
    <3>1. ASSUME NEW u \in req', u.at \in Saves PROVE CopyExact(u)'
      <4>1. u \in req /\ u # q /\ CopyExact(u) /\ u.send \in Sends
        BY <1>1, <1>3, <3>1 DEF IInv, Typed, TypeOK, IsRequest, CountsOK, CopiesExact, Saves
      <4>2. CASE u.send = s
        <5>1. u \in OtherSavers(s, q)
          BY <3>1, <4>1, <4>2 DEF OtherSavers
        <5>2. raced'[u.send]
          BY <1>5, <4>2, <5>1, Zenon
        <5> QED
          BY <1>1, <4>1, <5>2 DEF CopyExact, Counts
      <4>3. CASE u.send # s
        BY <1>1, <1>5, <4>1, <4>3 DEF CopyExact, Counts
      <4> QED
        BY <4>2, <4>3
    <3> QED
      BY <3>1 DEF CopiesExact
  <2>3. TokensExact'
    <3>1. \A t \in tokens : t.send \in Sends
      BY DEF IInv, Typed, TypeOK, Claims
    <3> QED
      BY <1>1, <1>5, <3>1 DEF IInv, CountsOK, TokensExact
  <2> QED
    BY <2>1, <2>2, <2>3 DEF CountsOK
<1>9. FilesOK'
  <2>0. \A k \in objects : k[1] \in Sends
    BY DEF IInv, Typed, TypeOK
  <2>1. KindsOK'
    <3>1. \A u \in req' : u \in req \/ u.at \in {"list", "drop"}
      BY <1>1, <1>3
    <3> QED
      BY <1>1, <1>5, <3>1, KindsFrame
  <2>2. ObjectsOwned'
    <3>1. ASSUME NEW k \in objects, k[1] = s PROVE p \in req' /\ p.send = k[1] /\ p.at = "list"
      <4>1. PICK kind \in [Sends -> Kinds] : OfKind(kind)
        BY DEF IInv, FilesOK, KindsOK
      <4>2. q.was_file_send
        BY <1>1, <3>1, <4>1 DEF OfKind, RequestOfKind
      <4> QED
        BY <1>1, <1>3, <3>1, <4>2
    <3>2. ASSUME NEW k \in objects, k[1] # s
          PROVE  \/ row'[k[1]] # NoRow \/ leaked'[k[1]]
                 \/ \E u \in req' : u.send = k[1] /\ (u.at = "list" \/ (u.at = "drop" /\ k[2] \in u.keys))
      BY <1>1, <1>5, <2>0, <3>2 DEF IInv, FilesOK, ObjectsOwned
    <3> QED
      BY <1>1, <3>1, <3>2 DEF ObjectsOwned
  <2>3. SweepExact'
    BY <1>1, <1>5, <2>0 DEF IInv, FilesOK, SweepExact
  <2> QED
    BY <2>1, <2>2, <2>3 DEF FilesOK
<1> QED
  BY <1>6, <1>7, <1>8, <1>9 DEF IInv

\* The request q, which sweeps a send's objects, goes on as one of left.
Sweeping(q, left) ==
    /\ q.at \in {"list", "drop"} /\ left \in SUBSET Drop /\ \A p \in left : p.send = q.send
    /\ req' = (req \ {q}) \cup left
    /\ objects' \subseteq objects
    /\ leaked' \in [Sends -> BOOLEAN] /\ \A s \in Sends : leaked[s] => leaked'[s]
    /\ \A k \in objects' : k[1] = q.send /\ (q.at = "list" \/ k[2] \in q.keys) =>
          leaked'[k[1]] \/ \E p \in left : k[2] \in p.keys
    /\ UNCHANGED <<now, row, cron, tokens, minted, granted, want, raced>>

\* A request that sweeps a send's objects goes on, or gives up.
LEMMA SweepingStep ==
    ASSUME IInv, NEW q \in req, NEW left, Sweeping(q, left)
    PROVE  IInv'
<1> USE DEF Sweeping
<1>1. q.send \in Sends /\ q.send \in minted
  BY DEF IInv, Typed, TypeOK, IsRequest, MintedOK, Unused
<1>2. \A p \in left : IsRequest(p) /\ p.at = "drop"
  BY DEF Drop, IsRequest, Saves
<1>3. Typed'
  <2>1. \A p \in req' : IsRequest(p) /\ (p.at = "drop" => p \in Drop)
    BY <1>2 DEF IInv, Typed, TypeOK
  <2>2. objects' \subseteq Sends \X Files
    BY DEF IInv, Typed, TypeOK
  <2> QED
    BY <2>1, <2>2 DEF IInv, Typed, TypeOK
<1>4. MintedOK'
  BY <1>1 DEF IInv, MintedOK, Unused
<1>5. CountsOK'
  BY <1>2, CountsFrame DEF Saves
<1>6. FilesOK'
  <2>0. \A k \in objects : k[1] \in Sends
    BY DEF IInv, Typed, TypeOK
  <2>1. KindsOK'
    BY <1>2, KindsFrame
  <2>2. ObjectsOwned'
    <3>1. ASSUME NEW k \in objects', row[k[1]] = NoRow, ~leaked'[k[1]]
          PROVE  \E p \in req' : p.send = k[1] /\ (p.at = "list" \/ (p.at = "drop" /\ k[2] \in p.keys))
      <4>1. k \in objects /\ ~leaked[k[1]]
        BY <2>0, <3>1
      <4>2. PICK p \in req : p.send = k[1] /\ (p.at = "list" \/ (p.at = "drop" /\ k[2] \in p.keys))
        BY <3>1, <4>1 DEF IInv, FilesOK, ObjectsOwned
      <4>3. CASE p # q
        BY <4>2, <4>3
      <4>4. CASE p = q
        <5>1. PICK u \in left : k[2] \in u.keys
          BY <3>1, <4>2, <4>4
        <5> QED
          BY <1>2, <4>2, <4>4, <5>1
      <4> QED
        BY <4>3, <4>4
    <3> QED
      BY <3>1 DEF ObjectsOwned
  <2>3. SweepExact'
    BY <2>0 DEF IInv, FilesOK, SweepExact
  <2> QED
    BY <2>1, <2>2, <2>3 DEF FilesOK
<1> QED
  BY <1>3, <1>4, <1>5, <1>6 DEF IInv

\* The objects of the deleted send are listed, or the listing fails.
LEMMA ListStep ==
    ASSUME IInv, NEW q \in req, list(q)
    PROVE  IInv'
<1> DEFINE p == [id |-> q.id, at |-> "drop", send |-> q.send, keys |-> Keys(q.send)]
<1>1. /\ q.at = "list" /\ q.send \in Sends /\ q.id \in Requests
      /\ UNCHANGED <<now, row, objects, cron, tokens, minted, granted, want, raced>>
      /\ leaked \in [Sends -> BOOLEAN] /\ objects \subseteq Sends \X Files
  BY DEF list, IInv, Typed, TypeOK, IsRequest
<1>2. p \in Drop /\ p.send = q.send /\ p.keys = Keys(q.send)
  BY <1>1 DEF Drop, Keys
<1>3. CASE req' = (req \ {q}) \cup {p} /\ UNCHANGED leaked
  <2>1. \A k \in objects : k[1] = q.send => k[2] \in p.keys
    BY <1>1, <1>2 DEF Keys
  <2> HIDE DEF p
  <2>2. {p} \in SUBSET Drop
    BY <1>2
  <2>3. \A k \in objects' : k[1] = q.send /\ (q.at = "list" \/ k[2] \in q.keys) =>
           leaked'[k[1]] \/ \E u \in {p} : k[2] \in u.keys
    BY <1>1, <2>1
  <2>4. /\ \A u \in {p} : u.send = q.send
        /\ objects' \subseteq objects /\ leaked' \in [Sends -> BOOLEAN]
        /\ \A s \in Sends : leaked[s] => leaked'[s]
    BY <1>1, <1>2, <1>3
  <2>5. Sweeping(q, {p})
    BY <1>1, <1>3, <2>2, <2>3, <2>4 DEF Sweeping
  <2> QED
    BY <2>5, SweepingStep
<1>4. CASE req' = req \ {q} /\ leaked' = [leaked EXCEPT ![q.send] = TRUE]
  <2>1. {} \in SUBSET Drop /\ req' = (req \ {q}) \cup {}
    BY <1>4
  <2>2. leaked' \in [Sends -> BOOLEAN] /\ leaked'[q.send] /\ \A s \in Sends : leaked[s] => leaked'[s]
    BY <1>1, <1>4
  <2>3. \A k \in objects' : k[1] = q.send => leaked'[k[1]]
    BY <2>2
  <2>4. Sweeping(q, {})
    BY <1>1, <2>1, <2>2, <2>3 DEF Sweeping
  <2> QED
    BY <2>4, SweepingStep
<1> QED
  BY <1>3, <1>4 DEF list

\* An object is deleted, or its deletion fails; the last one ends the request.
LEMMA DropStep ==
    ASSUME IInv, NEW q \in req, drop(q)
    PROVE  IInv'
<1>1. /\ q.at = "drop" /\ q \in Drop /\ q.send \in Sends
      /\ UNCHANGED <<now, row, cron, tokens, minted, granted, want, raced>>
      /\ leaked \in [Sends -> BOOLEAN] /\ objects \subseteq Sends \X Files
  BY DEF drop, IInv, Typed, TypeOK, IsRequest
<1>2. CASE q.keys = {} /\ req' = req \ {q} /\ UNCHANGED <<objects, leaked>>
  <2>1. {} \in SUBSET Drop /\ req' = (req \ {q}) \cup {}
    BY <1>2
  <2>2. Sweeping(q, {})
    BY <1>1, <1>2, <2>1 DEF Sweeping
  <2> QED
    BY <2>2, SweepingStep
<1>3. ASSUME NEW f \in q.keys, req' = (req \ {q}) \cup {[q EXCEPT !.keys = q.keys \ {f}]},
             \/ objects' = objects \ {<<q.send, f>>} /\ UNCHANGED leaked
             \/ leaked' = [leaked EXCEPT ![q.send] = TRUE] /\ UNCHANGED objects
      PROVE  IInv'
  <2> DEFINE p == [q EXCEPT !.keys = q.keys \ {f}]
  <2>1. p \in Drop /\ p.send = q.send /\ p.keys = q.keys \ {f}
    BY <1>1 DEF Drop
  <2>2. req' = (req \ {q}) \cup {p}
    BY <1>3
  <2> HIDE DEF p
  <2>3. /\ objects' \subseteq objects /\ leaked' \in [Sends -> BOOLEAN]
        /\ \A s \in Sends : leaked[s] => leaked'[s]
    BY <1>1, <1>3, Zenon
  <2>4. \A k \in objects' : k[1] = q.send /\ k[2] \in q.keys => leaked'[k[1]] \/ k[2] \in p.keys
    BY <1>1, <1>3, <2>1
  <2>5. {p} \in SUBSET Drop
    BY <2>1
  <2>6. /\ \A u \in {p} : u.send = q.send
        /\ \A k \in objects' : k[1] = q.send /\ (q.at = "list" \/ k[2] \in q.keys) =>
             leaked'[k[1]] \/ \E u \in {p} : k[2] \in u.keys
    BY <1>1, <2>1, <2>4
  <2>7. Sweeping(q, {p})
    BY <1>1, <2>2, <2>3, <2>5, <2>6 DEF Sweeping
  <2> QED
    BY <2>7, SweepingStep
<1> QED
  BY <1>2, <1>3 DEF drop

\* upload_file_send writes the object; the row may be gone by then.
LEMMA PutObjectStep ==
    ASSUME IInv, NEW q \in req, put_object(q)
    PROVE  IInv'
<1>1. /\ q.at = "put_object" /\ objects' = objects \cup {<<q.send, q.file>>} /\ req' = req \ {q}
      /\ leaked' = [leaked EXCEPT ![q.send] =
                       leaked[q.send] \/ cron.at = "sweep" \/ row[q.send] = NoRow]
      /\ UNCHANGED <<now, row, cron, tokens, minted, granted, want, raced>>
  BY DEF put_object
<1>2. q.send \in Sends /\ q.file \in Files /\ q.send \in minted
  BY <1>1 DEF IInv, Typed, TypeOK, IsRequest, MintedOK, Unused
<1>3. /\ leaked' \in [Sends -> BOOLEAN] /\ \A s \in Sends : leaked[s] => leaked'[s]
      /\ cron.at = "sweep" \/ row[q.send] = NoRow => leaked'[q.send]
  BY <1>1, <1>2, Zenon DEF IInv, Typed, TypeOK
<1>4. \A k \in objects' : k[1] \in Sends /\ (k \in objects \/ k[1] = q.send)
  BY <1>1, <1>2 DEF IInv, Typed, TypeOK
<1>5. Typed'
  BY <1>1, <1>2, <1>3 DEF IInv, Typed, TypeOK
<1>6. MintedOK'
  BY <1>1, <1>2, <1>4 DEF IInv, MintedOK, Unused
<1>7. CountsOK'
  BY <1>1, CountsFrame
<1>8. FilesOK'
  <2>1. KindsOK'
    <3>1. PICK kind \in [Sends -> Kinds] : OfKind(kind)
      BY DEF IInv, FilesOK, KindsOK
    <3>2. kind[q.send] = SEND_TYPE_FILE
      BY <1>1, <3>1 DEF OfKind, RequestOfKind
    <3>3. OfKind(kind)'
      BY <1>1, <1>4, <3>1, <3>2 DEF OfKind
    <3> QED
      BY <3>3 DEF KindsOK
  <2>2. ObjectsOwned'
    <3>1. ASSUME NEW k \in objects'
          PROVE  \/ row[k[1]] # NoRow \/ leaked'[k[1]]
                 \/ \E p \in req' : p.send = k[1] /\ (p.at = "list" \/ (p.at = "drop" /\ k[2] \in p.keys))
      BY <1>1, <1>3, <1>4 DEF IInv, FilesOK, ObjectsOwned
    <3> QED
      BY <1>1, <3>1 DEF ObjectsOwned
  <2>3. SweepExact'
    BY <1>1, <1>3, <1>4 DEF IInv, FilesOK, SweepExact
  <2> QED
    BY <2>1, <2>2, <2>3 DEF FilesOK
<1> QED
  BY <1>5, <1>6, <1>7, <1>8 DEF IInv

\* A request ends early.
LEMMA FailStep ==
    ASSUME IInv, NEW q \in req, fail(q)
    PROVE  IInv'
<1>1. /\ req' = req \ {q}
      /\ leaked' = [leaked EXCEPT ![q.send] = leaked[q.send] \/ q.at \in {"list", "drop"}]
      /\ UNCHANGED <<now, row, objects, cron, tokens, minted, granted, want, raced>>
  BY DEF fail
<1>2. q.send \in Sends /\ leaked \in [Sends -> BOOLEAN] /\ objects \subseteq Sends \X Files
  BY DEF IInv, Typed, TypeOK, IsRequest
<1>3. /\ leaked' \in [Sends -> BOOLEAN] /\ \A s \in Sends : leaked[s] => leaked'[s]
      /\ q.at \in {"list", "drop"} => leaked'[q.send]
  BY <1>1, <1>2, Zenon
<1>4. Typed'
  BY <1>1, <1>3 DEF IInv, Typed, TypeOK
<1>5. MintedOK'
  BY <1>1 DEF IInv, MintedOK, Unused
<1>6. CountsOK'
  BY <1>1, CountsFrame
<1>7. FilesOK'
  <2>1. KindsOK'
    BY <1>1, KindsFrame
  <2>2. ObjectsOwned'
    <3>1. ASSUME NEW k \in objects
          PROVE  \/ row[k[1]] # NoRow \/ leaked'[k[1]]
                 \/ \E p \in req' : p.send = k[1] /\ (p.at = "list" \/ (p.at = "drop" /\ k[2] \in p.keys))
      BY <1>1, <1>2, <1>3 DEF IInv, FilesOK, ObjectsOwned
    <3> QED
      BY <1>1, <3>1, Zenon DEF ObjectsOwned
  <2>3. SweepExact'
    BY <1>1, <1>2, <1>3 DEF IInv, FilesOK, SweepExact
  <2> QED
    BY <2>1, <2>2, <2>3 DEF FilesOK
<1> QED
  BY <1>4, <1>5, <1>6, <1>7 DEF IInv

-----------------------------------------------------------------------------
(* The trigger, and the clock. *)

\* A step of the trigger that leaves the rows and the requests.
LEMMA SweepStep ==
    ASSUME IInv, cron' = Idle \/ cron' \in Sweep, SweepExact', objects' \subseteq objects,
           leaked' \in [Sends -> BOOLEAN],
           \A s \in Sends : leaked[s] => leaked'[s],
           UNCHANGED <<now, row, req, tokens, minted, granted, want, raced>>
    PROVE  IInv'
<1>1. Typed'
  <2>1. cron' = Idle \/ /\ cron'.at = "sweep" /\ cron'.iso \in 0 .. MaxTime
                        /\ cron'.todo \subseteq Sends /\ cron'.keys \subseteq Sends \X Files
    BY DEF Sweep
  <2>2. objects' \subseteq Sends \X Files
    BY DEF IInv, Typed, TypeOK
  <2> QED
    BY <2>1, <2>2 DEF IInv, Typed, TypeOK, IsRequest, Idle
<1>2. MintedOK'
  BY DEF IInv, MintedOK, Unused
<1>3. CountsOK'
  BY CountsFrame
<1>4. FilesOK'
  <2>1. KindsOK'
    BY KindsFrame
  <2>2. ObjectsOwned'
    <3>1. \A k \in objects : k[1] \in Sends
      BY DEF IInv, Typed, TypeOK
    <3> QED
      BY <3>1 DEF IInv, FilesOK, ObjectsOwned
  <2> QED
    BY <2>1, <2>2 DEF FilesOK
<1> QED
  BY <1>1, <1>2, <1>3, <1>4 DEF IInv

\* The SELECT finds every send with objects whose date has passed, or fails.
LEMMA CronSelectStep ==
    ASSUME IInv, cron_select
    PROVE  IInv'
<1> DEFINE c(todo) == [at |-> "sweep", iso |-> now, keys |-> {}, todo |-> todo]
           due == expired_file_send_uuids(now)
<1>1. /\ \/ cron' = c(due) /\ UNCHANGED leaked
         \/ cron' = c({}) /\ leaked' = [s \in Sends |-> leaked[s] \/ s \in due]
      /\ UNCHANGED <<now, row, objects, req, tokens, minted, granted, want, raced>>
  BY DEF cron_select
<1>2. due \subseteq Sends
  BY DEF expired_file_send_uuids
<1>3. \A todo \in SUBSET Sends : /\ c(todo) \in Sweep /\ c(todo).iso = now /\ c(todo).todo = todo
  BY DEF IInv, Typed, TypeOK, Sweep
<1>4. ASSUME NEW k \in objects, row[k[1]] # NoRow, ~(row[k[1]].deletion_date > now)
      PROVE  k[1] \in due
  <2>1. PICK kind \in [Sends -> Kinds] : OfKind(kind)
    BY DEF IInv, FilesOK, KindsOK
  <2>2. k[1] \in Sends /\ row[k[1]] \in Row /\ row[k[1]].atype = SEND_TYPE_FILE
    BY <1>4, <2>1 DEF OfKind, IInv, Typed, TypeOK
  <2>3. row[k[1]].deletion_date \in Nat /\ now \in Nat
    BY <2>2, RowFields, BoundsAssumption DEF Dates, IInv, Typed, TypeOK
  <2> QED
    BY <1>4, <2>2, <2>3 DEF expired_file_send_uuids
<1> HIDE DEF c, due
<1>5. leaked' \in [Sends -> BOOLEAN] /\ \A s \in Sends : leaked[s] => leaked'[s]
  BY <1>1, Zenon DEF IInv, Typed, TypeOK
<1>6. cron' \in Sweep /\ cron'.iso = now /\ (cron'.todo = due \/ \A s \in due : leaked'[s])
  <2>1. CASE cron' = c(due) /\ UNCHANGED leaked
    BY <1>2, <1>3, <2>1
  <2>2. CASE cron' = c({}) /\ leaked' = [s \in Sends |-> leaked[s] \/ s \in due]
    BY <1>2, <1>3, <2>2, Zenon
  <2> QED
    BY <1>1, <2>1, <2>2
<1>7. SweepExact'
  BY <1>1, <1>4, <1>6 DEF SweepExact
<1> QED
  BY <1>1, <1>5, <1>6, <1>7, SweepStep

\* The objects of a send are listed, or the listing fails.
LEMMA CronListStep ==
    ASSUME IInv, NEW s \in Sends, cron_list(s)
    PROVE  IInv'
<1>1. /\ cron.at = "sweep" /\ cron.keys = {} /\ s \in cron.todo
      /\ \/ /\ cron' = [cron EXCEPT !.todo = cron.todo \ {s}, !.keys = {s} \X Keys(s)]
            /\ UNCHANGED leaked
         \/ /\ cron' = [cron EXCEPT !.todo = cron.todo \ {s}]
            /\ leaked' = [leaked EXCEPT ![s] = TRUE]
      /\ UNCHANGED <<now, row, objects, req, tokens, minted, granted, want, raced>>
  BY DEF cron_list
<1>2. cron \in Sweep
  BY <1>1 DEF IInv, Typed, Idle
<1>3. leaked' \in [Sends -> BOOLEAN] /\ \A t \in Sends : leaked[t] => leaked'[t]
  BY <1>1, Zenon DEF IInv, Typed, TypeOK
<1>4. \A k \in objects : k[1] \in Sends /\ (k[1] = s => k \in {s} \X Keys(s))
  BY DEF IInv, Typed, TypeOK, Keys
<1>5. /\ cron' \in Sweep /\ cron'.iso = cron.iso /\ cron'.todo = cron.todo \ {s}
      /\ cron'.keys = {s} \X Keys(s) \/ leaked'[s]
  <2>1. CASE /\ cron' = [cron EXCEPT !.todo = cron.todo \ {s}, !.keys = {s} \X Keys(s)]
             /\ UNCHANGED leaked
    <3>1. {s} \X Keys(s) \in SUBSET (Sends \X Files) /\ cron.todo \ {s} \in SUBSET Sends
      BY <1>2 DEF Keys, Sweep
    <3> QED
      BY <1>2, <2>1, <3>1, Zenon DEF Sweep
  <2>2. CASE cron' = [cron EXCEPT !.todo = cron.todo \ {s}] /\ leaked' = [leaked EXCEPT ![s] = TRUE]
    <3>1. cron.todo \ {s} \in SUBSET Sends /\ leaked'[s]
      BY <1>2, <2>2 DEF Sweep, IInv, Typed, TypeOK
    <3> QED
      BY <1>2, <2>2, <3>1 DEF Sweep
  <2> QED
    BY <1>1, <2>1, <2>2
<1>6. SweepExact'
  <2>1. ASSUME NEW k \in objects
        PROVE  \/ leaked'[k[1]] \/ k \in cron'.keys \/ k[1] \in cron'.todo
               \/ row[k[1]] = NoRow \/ row[k[1]].deletion_date > cron'.iso
    <3>1. \/ leaked[k[1]] \/ k[1] \in cron.todo
          \/ row[k[1]] = NoRow \/ row[k[1]].deletion_date > cron.iso
      BY <1>1 DEF IInv, FilesOK, SweepExact
    <3> QED
      BY <1>3, <1>4, <1>5, <3>1
  <2> QED
    BY <1>1, <2>1 DEF SweepExact
<1>7. objects' \subseteq objects
  BY <1>1
<1> QED
  BY <1>1, <1>3, <1>5, <1>6, <1>7, SweepStep

\* An object is deleted, or its deletion fails.
LEMMA CronDropStep ==
    ASSUME IInv, NEW k \in Sends \X Files, cron_drop(k)
    PROVE  IInv'
<1>1. /\ cron.at = "sweep" /\ k \in cron.keys /\ cron' = [cron EXCEPT !.keys = cron.keys \ {k}]
      /\ \/ objects' = objects \ {k} /\ UNCHANGED leaked
         \/ leaked' = [leaked EXCEPT ![k[1]] = TRUE] /\ UNCHANGED objects
      /\ UNCHANGED <<now, row, req, tokens, minted, granted, want, raced>>
  BY DEF cron_drop
<1>2. cron \in Sweep
  BY <1>1 DEF IInv, Typed, Idle
<1>3. /\ leaked' \in [Sends -> BOOLEAN] /\ \A t \in Sends : leaked[t] => leaked'[t]
      /\ objects' \subseteq objects /\ (k \notin objects' \/ leaked'[k[1]])
  BY <1>1, Zenon DEF IInv, Typed, TypeOK
<1>4. /\ cron' \in Sweep /\ cron'.iso = cron.iso /\ cron'.todo = cron.todo
      /\ cron'.keys = cron.keys \ {k}
  BY <1>1, <1>2 DEF Sweep
<1>5. SweepExact'
  <2>1. ASSUME NEW o \in objects'
        PROVE  \/ leaked'[o[1]] \/ o \in cron'.keys \/ o[1] \in cron'.todo
               \/ row[o[1]] = NoRow \/ row[o[1]].deletion_date > cron'.iso
    <3>1. o \in objects /\ o[1] \in Sends
      BY <1>3 DEF IInv, Typed, TypeOK
    <3>2. \/ leaked[o[1]] \/ o \in cron.keys \/ o[1] \in cron.todo
          \/ row[o[1]] = NoRow \/ row[o[1]].deletion_date > cron.iso
      BY <1>1, <3>1 DEF IInv, FilesOK, SweepExact
    <3> QED
      BY <1>3, <1>4, <3>1, <3>2
  <2> QED
    BY <1>1, <2>1 DEF SweepExact
<1> QED
  BY <1>1, <1>3, <1>4, <1>5, SweepStep

\* The DELETE of the expired sends: the objects of each were swept.
LEMMA PurgeStep ==
    ASSUME IInv, purge_expired
    PROVE  IInv'
<1> DEFINE purged == {s \in Sends : row[s] # NoRow /\ row[s].deletion_date <= cron.iso}
<1>1. /\ cron.at = "sweep" /\ cron.keys = {} /\ cron.todo = {} /\ cron' = Idle
      /\ row' = [s \in Sends |-> IF s \in purged THEN NoRow ELSE row[s]]
      /\ raced' = [s \in Sends |->
             raced[s] \/ (s \in purged /\ \E q \in req : q.send = s /\ q.at \in Saves)]
      /\ UNCHANGED <<now, objects, req, tokens, minted, granted, want, leaked>>
  BY DEF purge_expired
<1>2. \A s \in Sends : /\ s \in purged => row'[s] = NoRow
                       /\ s \notin purged => row'[s] = row[s] /\ raced'[s] = raced[s]
                       /\ raced[s] => raced'[s]
                       /\ s \in purged => \A q \in req : q.send = s /\ q.at \in Saves => raced'[s]
  BY <1>1, Zenon DEF IInv, Typed, TypeOK
<1>3. cron \in Sweep
  <2>1. cron = Idle \/ cron \in Sweep
    BY Zenon DEF IInv, Typed
  <2>2. Idle.at # "sweep"
    BY DEF Idle
  <2> QED
    BY <1>1, <2>1, <2>2, Zenon
<1>4. Typed'
  <2>1. row' \in [Sends -> Row \cup {NoRow}] /\ raced' \in [Sends -> BOOLEAN]
    BY <1>1 DEF IInv, Typed, TypeOK
  <2> QED
    BY <1>1, <2>1 DEF IInv, Typed, TypeOK
<1>5. MintedOK'
  BY <1>1, <1>2 DEF IInv, MintedOK, Unused
<1>6. CountsOK'
  <2>1. CountExact' /\ SettingsHold'
    BY <1>1, <1>2 DEF IInv, CountsOK, CountExact, SettingsHold
  <2>2. CopiesExact'
    <3>1. ASSUME NEW q \in req', q.at \in Saves PROVE CopyExact(q)'
      <4>1. q \in req /\ CopyExact(q) /\ q.send \in Sends
        BY <1>1, <3>1 DEF IInv, Typed, TypeOK, IsRequest, CountsOK, CopiesExact
      <4>2. raced'[q.send] \/ (row'[q.send] = row[q.send] /\ raced'[q.send] = raced[q.send])
        BY <1>2, <3>1, <4>1
      <4> QED
        BY <1>1, <4>1, <4>2 DEF CopyExact, Counts
    <3> QED
      BY <3>1 DEF CopiesExact
  <2>3. TokensExact'
    <3>1. \A t \in tokens : t.send \in Sends
      BY DEF IInv, Typed, TypeOK, Claims
    <3> QED
      BY <1>1, <1>2, <3>1 DEF IInv, CountsOK, TokensExact
  <2> QED
    BY <2>1, <2>2, <2>3 DEF CountsOK
<1>7. FilesOK'
  <2>1. KindsOK'
    BY <1>1, <1>2, KindsFrame
  <2>2. ObjectsOwned'
    <3>1. ASSUME NEW k \in objects, k[1] \in purged PROVE leaked[k[1]]
      <4>1. row[k[1]] \in Row
        BY <3>1 DEF IInv, Typed, TypeOK
      <4>2. row[k[1]].deletion_date \in Nat /\ cron.iso \in Nat
        <5>1. row[k[1]].deletion_date \in Dates
          BY <4>1, RowFields, Zenon
        <5>2. cron.iso \in 0 .. MaxTime
          BY <1>3 DEF Sweep
        <5> QED
          BY <5>1, <5>2, BoundsAssumption DEF Dates
      <4>3. \/ leaked[k[1]] \/ row[k[1]] = NoRow \/ row[k[1]].deletion_date > cron.iso
        BY <1>1, Zenon DEF IInv, FilesOK, SweepExact
      <4> QED
        BY <3>1, <4>2, <4>3
    <3>2. \A k \in objects : k[1] \in Sends
      BY DEF IInv, Typed, TypeOK
    <3> QED
      BY <1>1, <1>2, <3>1, <3>2 DEF IInv, FilesOK, ObjectsOwned
  <2>3. SweepExact'
    BY <1>1 DEF SweepExact, Idle
  <2> QED
    BY <2>1, <2>2, <2>3 DEF FilesOK
<1> QED
  BY <1>4, <1>5, <1>6, <1>7 DEF IInv

\* The DELETE fails.
LEMMA PurgeFailedStep ==
    ASSUME IInv, purge_failed
    PROVE  IInv'
<1>1. /\ cron' = Idle
      /\ UNCHANGED <<now, row, objects, req, tokens, minted, granted, want, raced, leaked>>
  BY DEF purge_failed
<1>2. SweepExact'
  BY <1>1 DEF SweepExact, Idle
<1>3. leaked' \in [Sends -> BOOLEAN]
  BY <1>1 DEF IInv, Typed, TypeOK
<1> QED
  BY <1>1, <1>2, <1>3, SweepStep

\* What only the clock is a part of.
LEMMA TickStep ==
    ASSUME IInv, now' \in 0 .. MaxTime,
           UNCHANGED <<row, objects, req, cron, tokens, minted, granted, want, raced, leaked>>
    PROVE  IInv'
<1>1. Typed'
  BY DEF IInv, Typed, TypeOK
<1>2. MintedOK'
  BY DEF IInv, MintedOK, Unused
<1>3. CountsOK'
  BY CountsFrame
<1>4. FilesOK'
  <2>1. KindsOK'
    BY KindsFrame
  <2>2. ObjectsOwned' /\ SweepExact'
    BY DEF IInv, FilesOK, ObjectsOwned, SweepExact
  <2> QED
    BY <2>1, <2>2 DEF FilesOK
<1> QED
  BY <1>1, <1>2, <1>3, <1>4 DEF IInv

-----------------------------------------------------------------------------
(* The theorems. *)

\* The inductive invariant holds initially.
LEMMA InitInv == Init => IInv
<1> SUFFICES ASSUME Init PROVE IInv
  OBVIOUS
<1>1. Typed
  BY BoundsAssumption DEF Init, Typed, TypeOK, Settings, NoLimit, Dates
<1>2. MintedOK
  BY DEF Init, MintedOK, Unused
<1>3. CountsOK
  BY DEF Init, CountsOK, CountExact, SettingsHold, CopiesExact, TokensExact
<1>4. FilesOK
  <2> DEFINE kind == [s \in Sends |-> SEND_TYPE_TEXT]
  <2>1. kind \in [Sends -> Kinds] /\ OfKind(kind)
    BY DEF Init, OfKind, Kinds
  <2>2. KindsOK
    BY <2>1 DEF KindsOK
  <2>3. ObjectsOwned /\ SweepExact
    BY DEF Init, ObjectsOwned, SweepExact
  <2> QED
    BY <2>2, <2>3 DEF FilesOK
<1> QED
  BY <1>1, <1>2, <1>3, <1>4 DEF IInv

\* Every step preserves it.
LEMMA NextInv == IInv /\ [Next]_vars => IInv'
<1> SUFFICES ASSUME IInv, [Next]_vars PROVE IInv'
  OBVIOUS
<1>1. ASSUME NEW s \in Sends, NEW c \in Bodies, post_send(s, c) \/ post_file_send(s, c) PROVE IInv'
  BY <1>1, PostStep DEF post_send, post_file_send, Kinds
<1>2. ASSUME NEW r \in Requests, NEW s \in Sends, Owner(r, s) PROVE IInv'
  BY <1>2, OwnerStep
<1>3. ASSUME NEW r \in Requests, NEW s \in Sends, Anonymous(r, s) PROVE IInv'
  BY <1>3, AnonymousStep
<1>4. ASSUME NEW q \in req, Proceed(q) PROVE IInv'
  BY <1>4, SaveStep, DeleteStep, ListStep, DropStep, PutObjectStep, GrantStep DEF Proceed
<1>5. ASSUME NEW q \in req, fail(q) PROVE IInv'
  BY <1>5, FailStep
<1>6. CASE Cron
  BY <1>6, CronSelectStep, CronListStep, CronDropStep, PurgeStep DEF Cron
<1>7. CASE purge_failed
  BY <1>7, PurgeFailedStep
<1>8. CASE Tick
  <2>1. now' \in 0 .. MaxTime
    BY <1>8, BoundsAssumption DEF Tick, IInv, Typed, TypeOK
  <2> QED
    BY <1>8, <2>1, TickStep DEF Tick
<1>9. CASE UNCHANGED vars
  <2>1. now' \in 0 .. MaxTime
    BY <1>9 DEF vars, IInv, Typed, TypeOK
  <2> QED
    BY <1>9, <2>1, TickStep DEF vars
<1> QED
  BY <1>1, <1>2, <1>3, <1>4, <1>5, <1>6, <1>7, <1>8, <1>9 DEF Next

\* IInv is an invariant of the sends.
THEOREM Invariance == Spec => []IInv
  BY InitInv, NextInv, PTL DEF Spec

\* Every variable holds a value of its type, whatever the interleaving.
THEOREM TypeCorrect == Spec => []TypeOK
<1>1. IInv => TypeOK
  BY DEF IInv, Typed
<1> QED
  BY <1>1, Invariance, PTL

\* An access is granted within the limit of the copy it was counted in, and that
\* copy has the row's limit unless writes overlapped.
LEMMA GrantedWithin == IInv /\ [Next]_vars => [GrantsWithin]_vars
<1> SUFFICES ASSUME IInv, Next, NEW s \in Sends, granted'[s] > granted[s], ~raced'[s],
                    row'[s] # NoRow, row'[s].max_access_count # NoLimit
             PROVE  granted'[s] <= row'[s].max_access_count
  BY DEF GrantsWithin
<1>0. granted \in [Sends -> 0 .. MaxGrants]
  BY Zenon DEF IInv, Typed, TypeOK
<1>1. granted[s] \in Nat
  BY <1>0, BoundsAssumption
<1>2. granted' # granted
  BY <1>1
<1>3. PICK q \in req : grant(q)
  <2>1. ASSUME NEW t \in Sends, NEW c \in Bodies, post_send(t, c) \/ post_file_send(t, c) PROVE FALSE
    BY <1>2, <2>1 DEF post_send, post_file_send, Post
  <2>2. ASSUME NEW r \in Requests, NEW t \in Sends, Owner(r, t) PROVE FALSE
    BY <1>2, <2>2, Zenon DEF Owner, put_send, remove_password, delete_send, upload_file_send, Start
  <2>3. ASSUME NEW r \in Requests, NEW t \in Sends, Anonymous(r, t) PROVE FALSE
    BY <1>2, <2>3, Zenon DEF Anonymous, public_access, public_access_file_init, Start
  <2>4. ASSUME NEW q \in req, Proceed(q) \/ fail(q) PROVE grant(q)
    BY <1>2, <2>4 DEF Proceed, save, delete, list, drop, put_object, fail
  <2>5. CASE Cron \/ purge_failed \/ Tick
    BY <1>2, <2>5, Zenon DEF Cron, cron_select, cron_list, cron_drop, purge_expired, purge_failed, Tick
  <2> QED
    BY <2>1, <2>2, <2>3, <2>4, <2>5 DEF Next
<1>4. /\ q.at \in {"access", "init"} /\ q.at \in Saves /\ q.send \in Sends /\ q.row \in Row
      /\ CopyExact(q)
  BY <1>3, Zenon DEF grant, Saves, IInv, Typed, TypeOK, IsRequest, CountsOK, CopiesExact
<1>5. s = q.send /\ granted'[s] = granted[s] + 1
  <2>1. granted' = [granted EXCEPT ![q.send] = granted[q.send] + 1]
    BY <1>3 DEF grant
  <2>2. granted \in [Sends -> 0 .. MaxGrants]
    BY DEF IInv, Typed, TypeOK
  <2>3. s # q.send => granted'[s] = granted[s]
    BY <1>4, <2>1, <2>2
  <2>4. s = q.send => granted'[s] = granted[s] + 1
    BY <1>4, <2>1, <2>2
  <2> QED
    BY <1>1, <2>3, <2>4
<1>6. row'[s] = Stored(q.row) /\ ~raced[s]
  BY <1>3, <1>4, <1>5, Zenon DEF grant, Races, IInv, Typed, TypeOK
<1>7. row'[s].max_access_count = q.row.max_access_count
  BY <1>4, <1>6, StoredFields
<1>8. q.row.access_count = granted[s] + 1
  BY <1>4, <1>5, <1>6 DEF CopyExact, Counts
<1> QED
  BY <1>4, <1>5, <1>7, <1>8 DEF CopyExact

\* For any sends, settings and limits: unless two writes of its row overlapped, a
\* send counts every access that was granted, keeps what its owner saved, and is
\* not granted beyond its limit.
THEOREM AccessesAlwaysCounted == Spec => AccessesCounted
<1>1. IInv' => (CountExact /\ SettingsHold)'
  BY DEF IInv, CountsOK
<1>2. IInv /\ [Next]_vars => [GrantsWithin /\ (CountExact /\ SettingsHold)']_vars
  BY <1>1, NextInv, GrantedWithin
<1>3. Spec => [][GrantsWithin /\ (CountExact /\ SettingsHold)']_vars
  BY <1>2, Invariance, PTL DEF Spec
<1> QED
  BY <1>3 DEF AccessesCounted

\* Only saves and grants touch the tokens, and none of them moves the clock.
LEMMA TokenSteps ==
    ASSUME [Next]_vars
    PROVE  \/ UNCHANGED <<now, tokens>>
           \/ now' = now + 1 /\ UNCHANGED tokens
           \/ UNCHANGED now /\ \E q \in req : save(q) \/ grant(q)
<1>1. ASSUME NEW s \in Sends, NEW c \in Bodies, post_send(s, c) \/ post_file_send(s, c)
      PROVE  UNCHANGED <<now, tokens>>
  BY <1>1 DEF post_send, post_file_send, Post
<1>2. ASSUME NEW r \in Requests, NEW s \in Sends, Owner(r, s) PROVE UNCHANGED <<now, tokens>>
  BY <1>2, Zenon DEF Owner, put_send, remove_password, delete_send, upload_file_send, Start
<1>3. ASSUME NEW r \in Requests, NEW s \in Sends, Anonymous(r, s) PROVE UNCHANGED <<now, tokens>>
  BY <1>3, Zenon DEF Anonymous, public_access, public_access_file_init, Start
<1>4. ASSUME NEW q \in req, Proceed(q) \/ fail(q)
      PROVE  UNCHANGED now /\ (UNCHANGED tokens \/ save(q) \/ grant(q))
  <2>1. CASE save(q) \/ grant(q)
    BY <2>1 DEF save, grant
  <2>2. CASE delete(q) \/ list(q) \/ drop(q) \/ put_object(q) \/ fail(q)
    BY <2>2 DEF delete, list, drop, put_object, fail
  <2> QED
    BY <1>4, <2>1, <2>2 DEF Proceed
<1>5. CASE Cron \/ purge_failed
  BY <1>5, Zenon DEF Cron, cron_select, cron_list, cron_drop, purge_expired, purge_failed
<1>6. CASE Tick \/ UNCHANGED vars
  BY <1>6 DEF Tick, vars
<1> QED
  BY <1>1, <1>2, <1>3, <1>4, <1>5, <1>6 DEF Next

\* A step issues a token with the date its handler has read or for an hour, and
\* the time that is left to a token only gets shorter.
LEMMA TokensEndStep == IInv /\ TokensEnd /\ [Next]_vars => TokensEnd'
<1> SUFFICES ASSUME IInv, TokensEnd, [Next]_vars PROVE TokensEnd'
  OBVIOUS
<1>1. now \in Nat /\ now' \in Nat /\ now <= now'
  <2>1. now \in 0 .. MaxTime
    BY DEF IInv, Typed, TypeOK
  <2>2. now' \in {now, now + 1}
    BY TokenSteps
  <2> QED
    BY <2>1, <2>2, BoundsAssumption
<1>2. ASSUME NEW u \in tokens', NEW t \in tokens, u.date = t.date, u.exp = t.exp
      PROVE  IF u.date \in Parses THEN u.exp = u.date ELSE u.exp <= now' + Hour
  <2>1. t.exp \in Nat
    BY DEF IInv, Typed, TypeOK, Claims
  <2> QED
    BY <1>1, <1>2, <2>1, LifetimeAssumption DEF TokensEnd
<1>3. CASE tokens' = tokens
  BY <1>2, <1>3 DEF TokensEnd
<1>4. ASSUME NEW q \in req, save(q) PROVE TokensEnd'
  BY <1>2, <1>4, SavedTokens DEF TokensEnd
<1>5. ASSUME NEW q \in req, grant(q) PROVE TokensEnd'
  <2>1. \A u \in tokens' : u \in tokens \/ u = Token(q)
    BY <1>5 DEF grant
  <2>2. now' = now
    BY <1>5 DEF grant
  <2>3. IF Token(q).date \in Parses THEN Token(q).exp = Token(q).date
                                    ELSE Token(q).exp <= now' + Hour
    BY <1>1, <2>2, LifetimeAssumption DEF Token
  <2> QED
    BY <1>2, <2>1, <2>3 DEF TokensEnd
<1>6. \/ tokens' = tokens \/ \E q \in req : save(q) \/ grant(q)
  BY TokenSteps
<1> QED
  BY <1>3, <1>4, <1>5, <1>6

\* For any sends, files, dates and leeway: no object outlives its send, and a link
\* for a download ends with its send's date and the leeway, or has at most an hour
\* to go, except where a write overlapped or a call failed.
THEOREM FilesAlwaysAccounted == Spec => []SendFilesAccounted
<1>1. Init => TokensEnd
  BY DEF Init, TokensEnd
<1>2. Spec => []TokensEnd
  BY <1>1, TokensEndStep, Invariance, PTL DEF Spec
<1>3. IInv /\ TokensEnd => ObjectsOwned /\ DownloadsEnd
  <2> SUFFICES ASSUME IInv, TokensEnd PROVE DownloadsEnd
    BY DEF IInv, FilesOK
  <2> SUFFICES ASSUME NEW t \in tokens, Downloads(t), ~t.moved, row[t.send] # NoRow, ~raced[t.send]
               PROVE  IF row[t.send].deletion_date \in Parses
                      THEN now <= row[t.send].deletion_date + Leeway
                      ELSE t.exp <= now + Hour
    BY DEF DownloadsEnd
  <2>1. t.date = row[t.send].deletion_date
    BY DEF IInv, CountsOK, TokensExact
  <2> QED
    BY <2>1 DEF TokensEnd, Downloads
<1> QED
  BY <1>2, <1>3, Invariance, PTL DEF SendFilesAccounted
=============================================================================
