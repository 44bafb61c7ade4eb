--------------------------- MODULE TwoFactorReads ---------------------------
(* The invariant of the second factors, and why the handlers that read the   *)
(* table keep it: TwoFactorProofs has the statements that write.             *)
EXTENDS TwoFactor, TLAPS

\* Where a handler may go on, and where it then writes a row about its device or
\* credential.
Places == {"done", "find_challenge", "post_challenge", "post_otp", "find_credentials", "cleared",
           "send_login_token", "find_factors", "issue", "yubikey", "webauthn", "email", "remember"}
Named == {"find_credentials", "find_factors", "issue", "yubikey", "webauthn", "email", "remember"}

Request == [id : Requests, at : Places \cup {"delete", "save"}, rows : SUBSET Row, then : Places,
            dev : Requests \cup Devices \cup Keys, code : Tokens \cup {NoToken},
            touched : SUBSET Uuids]

\* A code belongs to one row: owner says to which, once it was generated.
Owners == [Tokens -> Uuids \cup {NoToken}]

\* The code t of the row u was generated, and was not spent.
CodeOK(t, u, owner) == t # NoToken => t \in used /\ t \notin spent /\ owner[t] = u

\* A row of the table, or a copy of one.  Only a code for a protected action is
\* stored with all its attempts used up.
RowOK(x, owner) ==
    /\ x \in Row /\ x.uuid \in used /\ CodeOK(x.token, x.uuid, owner)
    /\ x.attempts <= AttemptLimit
    /\ x.atype # "protected" => x.attempts < AttemptLimit

\* The copy of a row has counted the wrong guesses at its code.
Counts(x) == x.token \notin raced \cup {NoToken} => wrong[x.token] <= x.attempts

CopyOK(q, x, owner) ==
    /\ RowOK(x, owner) /\ Counts(x)
    /\ CodeOK(q.code, x.uuid, owner)
    /\ q.at = "save" => x.uuid \notin gone /\ (q.then = "find_factors" => x.token = NoToken)

\* A recovery is still to delete the rows that it does not answer for.
Clears(q) ==
    "cleared" \in {q.at, q.then} =>
        \A x \in twofactor : x.uuid \in q.touched \/ \E y \in q.rows : y.uuid = x.uuid

RequestOK(q, owner) ==
    /\ q \in Request
    /\ q.at \in Places => q.rows = {} /\ q.then = "done"
    /\ q.at = "save" => q.then \in {"done", "find_factors"} /\ \E x \in Row : q.rows = {x}
    /\ q.at # "save" => q.code = NoToken
    /\ {q.at, q.then} \cap Named # {} => q.dev \in Keys \cup Devices
    /\ \A x \in q.rows : CopyOK(q, x, owner)
    /\ \A x, y \in q.rows : x.uuid = y.uuid => x = y
    /\ Clears(q)

Owned(owner) ==
    /\ \A x \in twofactor : RowOK(x, owner)
    /\ \A q \in req : RequestOK(q, owner)

\* One row per uuid and per type, one request per slot; what was generated is
\* used, and what was not has no past.
Unique ==
    /\ \A x, y \in twofactor : x.uuid = y.uuid \/ x.atype = y.atype => x = y
    /\ \A q, p \in req : q.id = p.id => q = p
    /\ gone \subseteq used /\ spent \subseteq used \cap Tokens
    /\ wrong \in [Tokens -> 0 .. AttemptLimit + 1]
    /\ \A t \in Tokens \ used : wrong[t] = 0

\* Two requests that hold a code are noticed.
HeldOnce == \A q, p \in req : q # p => Held(q) \cap Held(p) \subseteq raced

\* A stored row has counted the wrong guesses at its code, or the request that
\* checked the last one is about to save it.
StoredCounts ==
    \A x \in twofactor : Counts(x) \/ \E q \in req : x.token \in Held(q)

IInv ==
    /\ Unique /\ HeldOnce /\ StoredCounts
    /\ DeletedStays /\ AttemptsCapped
    /\ \E owner \in Owners : Owned(owner)

-----------------------------------------------------------------------------
(* Requests and what they hold. *)

LEMMA Limit == NoToken \notin Tokens /\ AttemptLimit \in Nat /\ AttemptLimit > 0
  BY ConstantsAssumption

\* A row has its fields.
LEMMA RowFields ==
    ASSUME NEW x \in Row
    PROVE  /\ x.uuid \in Uuids /\ x.atype \in Types /\ x.token \in Tokens \cup {NoToken}
           /\ x.attempts \in Nat /\ x.attempts \in 0 .. AttemptLimit + 1
           /\ x.keys \in SUBSET (Keys \cup Devices)
  BY Limit DEF Row

\* A request as its handler begins.
LEMMA BeginShape ==
    ASSUME NEW r \in Requests, NEW dev \in Requests \cup Devices \cup Keys
    PROVE  LET p == Begin(r, dev)
           IN  /\ p \in Request /\ p.id = r /\ p.at = "done" /\ p.rows = {} /\ p.code = NoToken
               /\ p.dev = dev /\ p.touched = {}
  BY DEF Begin, Request, Places

\* A request that goes on without rows.
LEMMA GotoShape ==
    ASSUME NEW q \in Request, NEW at \in Places
    PROVE  LET p == Goto(q, at)
           IN  /\ p \in Request /\ p.id = q.id /\ p.at = at /\ p.rows = {} /\ p.then = "done"
               /\ p.code = NoToken /\ p.dev = q.dev /\ p.touched = q.touched
<1>1. "done" \in Places
  BY DEF Places
<1> QED
  BY <1>1, Zenon DEF Goto, Request

\* A request that is about to delete rows.
LEMMA DeleteShape ==
    ASSUME NEW q \in Request, NEW rows \in SUBSET Row, rows # {}, NEW then \in Places
    PROVE  LET p == ToDelete(q, rows, then)
           IN  /\ p \in Request /\ p.id = q.id /\ p.at = "delete" /\ p.rows = rows /\ p.then = then
               /\ p.code = q.code /\ p.dev = q.dev /\ p.touched = q.touched
  BY Zenon DEF ToDelete, Request

\* A request that is about to save a row.
LEMMA SaveShape ==
    ASSUME NEW q \in Request, NEW x \in Row, NEW then \in Places, NEW code \in Tokens \cup {NoToken}
    PROVE  LET p == ToSave(q, x, then, code)
           IN  /\ p \in Request /\ p.id = q.id /\ p.at = "save" /\ p.rows = {x} /\ p.then = then
               /\ p.code = code /\ p.dev = q.dev /\ p.touched = q.touched
  BY Zenon DEF ToSave, Request

\* A request that is about to read holds no code.
LEMMA ReadersHoldNothing ==
    ASSUME NEW q, q.rows = {}, q.code = NoToken
    PROVE  Held(q) = {}
  BY DEF Held

\* What a request holds.
LEMMA Holds ==
    ASSUME NEW q
    PROVE  /\ \A x \in q.rows : x.token # NoToken => x.token \in Held(q)
           /\ q.code # NoToken => q.code \in Held(q)
           /\ \A t \in Held(q) : t # NoToken /\ (t = q.code \/ \E x \in q.rows : t = x.token)
  BY DEF Held

-----------------------------------------------------------------------------
(* A handler goes on after it read the table: it is a request p. *)

\* The request p takes the place of one that held no code; owner becomes next.
Going(p, owner, next) ==
    /\ Step(p, p)
    /\ UNCHANGED <<twofactor, gone, spent>> /\ used \subseteq used'
    /\ \A t \in Tokens \cap used : next[t] = owner[t]
    /\ wrong' \in [Tokens -> 0 .. AttemptLimit + 1]
    /\ \A t \in Tokens : \/ wrong'[t] = wrong[t]
                         \/ t \in used /\ t \in Held(p) /\ (t \in raced' \/ wrong'[t] <= AttemptLimit)
    /\ p.at = "done" => Held(p) = {}
    /\ p.at # "done" => RequestOK(p, next)'
    /\ \A q \in req : q.id = p.id => Held(q) = {}

LEMMA GoingStep ==
    ASSUME IInv, NEW owner \in Owners, Owned(owner),
           NEW next \in Owners, NEW p, Going(p, owner, next)
    PROVE  IInv'
<1>1. /\ req' = Others(p) \cup {x \in {p} : x.at # "done"}
      /\ raced' = raced \cup (Held(p) \cap UNION {Held(o) : o \in Others(p)})
      /\ UNCHANGED <<twofactor, gone, spent>> /\ used \subseteq used'
  BY DEF Going, Step
<1>2. \A t \in Tokens : \/ wrong'[t] = wrong[t]
                        \/ t \in used /\ t \in Held(p) /\ (t \in raced' \/ wrong'[t] <= AttemptLimit)
  BY DEF Going
<1>3. \A q \in req' : \/ q \in req /\ q.id # p.id
                      \/ q = p /\ p.at # "done"
  BY <1>1 DEF Others
<1>4. \A q \in req : q.id = p.id \/ q \in req'
  BY <1>1 DEF Others
<1>5. \A o \in req : o.id # p.id => Held(p) \cap Held(o) \subseteq raced'
  BY <1>1 DEF Others
<1>6. raced \subseteq raced'
  BY <1>1
<1>7. Unique'
  <2>1. \A t \in Tokens \ used' : wrong'[t] = 0
    BY <1>1, <1>2 DEF IInv, Unique
  <2>2. \A q, o \in req' : q.id = o.id => q = o
    BY <1>3 DEF IInv, Unique
  <2> QED
    BY <1>1, <2>1, <2>2 DEF IInv, Unique, Going
<1>8. HeldOnce'
  <2>1. ASSUME NEW q \in req', NEW o \in req', q # o PROVE Held(q) \cap Held(o) \subseteq raced'
    BY <1>3, <1>5, <1>6, <2>1 DEF IInv, HeldOnce
  <2> QED
    BY <2>1 DEF HeldOnce, Held
<1>9. StoredCounts'
  <2>1. ASSUME NEW x \in twofactor, x.token \notin raced' \cup {NoToken},
               ~(wrong'[x.token] <= x.attempts)
        PROVE  \E q \in req' : x.token \in Held(q)
    <3>1. x.token \in Tokens
      BY <2>1, RowFields DEF Owned, RowOK
    <3>2. CASE wrong'[x.token] = wrong[x.token]
      <4>1. PICK q \in req : x.token \in Held(q)
        BY <1>6, <2>1, <3>2 DEF IInv, StoredCounts, Counts
      <4> QED
        BY <1>4, <4>1 DEF Going
    <3>3. CASE x.token \in Held(p)
      BY <1>1, <3>3 DEF Going
    <3> QED
      BY <1>2, <3>1, <3>2, <3>3
  <2> QED
    BY <1>1, <2>1 DEF StoredCounts, Counts, Held
<1>10. DeletedStays'
  BY <1>1 DEF IInv, DeletedStays
<1>11. AttemptsCapped'
  <2>1. ASSUME NEW t \in Tokens, wrong'[t] > AttemptLimit PROVE t \in raced'
    <3>1. wrong'[t] \in 0 .. AttemptLimit + 1
      BY DEF Going
    <3> QED
      BY <1>2, <1>6, <2>1, <3>1, Limit DEF IInv, AttemptsCapped
  <2> QED
    BY <2>1 DEF AttemptsCapped
<1>12. Owned(next)'
  <2>1. ASSUME NEW x, RowOK(x, owner) PROVE RowOK(x, next)'
    <3>1. x.token # NoToken => x.token \in Tokens \cap used
      BY <2>1, RowFields DEF RowOK, CodeOK
    <3> QED
      BY <1>1, <2>1, <3>1 DEF RowOK, CodeOK, Going
  <2>2. ASSUME NEW o \in req, o.id # p.id PROVE RequestOK(o, next)'
    <3>0. RequestOK(o, owner) /\ o \in Request
      BY DEF Owned, RequestOK
    <3>1. Clears(o)'
      BY <1>1, <3>0 DEF RequestOK, Clears
    <3>2. ASSUME NEW x \in o.rows PROVE CopyOK(o, x, next)'
      <4>0. CopyOK(o, x, owner)
        BY <3>0 DEF RequestOK
      <4>1. RowOK(x, next)'
        BY <2>1, <4>0 DEF CopyOK
      <4>2. Counts(x)'
        <5>1. ASSUME x.token \notin raced' \cup {NoToken} PROVE wrong'[x.token] <= x.attempts
          <6>1. x.token \in Held(o) /\ x.token \notin Held(p)
            BY <1>5, <2>2, <5>1, Holds
          <6>2. x.token \in Tokens
            BY <4>0, <5>1, RowFields DEF CopyOK, RowOK
          <6>3. wrong'[x.token] = wrong[x.token]
            BY <1>2, <6>1, <6>2
          <6> QED
            BY <1>6, <4>0, <5>1, <6>3 DEF CopyOK, Counts
        <5> QED
          BY <5>1 DEF Counts
      <4>3. CodeOK(o.code, x.uuid, next)'
        <5>1. o.code # NoToken => o.code \in Tokens \cap used
          BY <3>0, <4>0 DEF CopyOK, CodeOK, Request
        <5> QED
          BY <1>1, <4>0, <5>1 DEF CopyOK, CodeOK, Going
      <4> QED
        BY <1>1, <4>0, <4>1, <4>2, <4>3 DEF CopyOK
    <3> QED
      BY <3>0, <3>1, <3>2 DEF RequestOK
  <2>3. \A x \in twofactor' : RowOK(x, next)'
    BY <1>1, <2>1 DEF Owned
  <2>4. \A q \in req' : RequestOK(q, next)'
    BY <1>3, <2>2 DEF Going
  <2> QED
    BY <2>3, <2>4 DEF Owned
<1> QED
  BY <1>7, <1>8, <1>9, <1>10, <1>11, <1>12 DEF IInv

\* The request q, or the handler that begins as q, is about to read.
Reader(q) ==
    /\ q \in Request /\ q.at \in Places /\ q.rows = {} /\ q.then = "done" /\ q.code = NoToken
    /\ q \in req \/ Free(q.id)

LEMMA ReaderAlone ==
    ASSUME IInv, NEW q, Reader(q), NEW p, p.id = q.id, Step(q, p)
    PROVE  /\ Step(p, p)
           /\ \A o \in req : o.id = p.id => Held(o) = {}
           /\ \A o \in req : Held(o) # {} => Held(p) \cap Held(o) \subseteq raced'
<1>1. Others(q) = Others(p)
  BY DEF Others
<1>2. ASSUME NEW o \in req, o.id = p.id PROVE Held(o) = {}
  <2>1. o = q
    BY <1>2 DEF Reader, Free, IInv, Unique
  <2> QED
    BY <2>1, ReadersHoldNothing DEF Reader
<1>3. ASSUME NEW o \in req, Held(o) # {} PROVE Held(p) \cap Held(o) \subseteq raced'
  <2>1. o \in Others(q)
    BY <1>2, <1>3 DEF Others
  <2> QED
    BY <2>1 DEF Step
<1> QED
  BY <1>1, <1>2, <1>3 DEF Step

\* A row that the request has read, and no one else holds, has counted.
LEMMA ReadCounts ==
    ASSUME IInv, NEW q, Reader(q), NEW p, p.id = q.id, Step(q, p),
           NEW x \in twofactor, x.token \in Held(p), x.token \notin raced'
    PROVE  x.token # NoToken /\ wrong[x.token] <= x.attempts
<1>1. x.token # NoToken
  BY Holds
<1>2. x.token \notin raced
  BY DEF Step
<1>3. ASSUME NEW o \in req, x.token \in Held(o) PROVE FALSE
  BY <1>3, ReaderAlone
<1>4. Counts(x)
  BY <1>3 DEF IInv, StoredCounts
<1> QED
  BY <1>1, <1>2, <1>4 DEF Counts

\* The handler goes on, or ends, without rows.
LEMMA GotoStep ==
    ASSUME IInv, NEW q, Reader(q), NEW at \in Places, Step(q, Goto(q, at)), Reads,
           at = "cleared" => twofactor = {}, at \in Named => q.dev \in Keys \cup Devices
    PROVE  IInv'
<1> DEFINE p == Goto(q, at)
<1>1. PICK owner \in Owners : Owned(owner)
  BY DEF IInv
<1>2. /\ p \in Request /\ p.id = q.id /\ p.at = at /\ p.rows = {} /\ p.then = "done"
      /\ p.code = NoToken /\ p.dev = q.dev
  BY GotoShape DEF Reader
<1>3. "done" \notin Named \cup {"cleared"} /\ Step(q, p)
  BY DEF Named
<1> HIDE DEF p
<1>4. Held(p) = {}
  BY <1>2, ReadersHoldNothing
<1>5. RequestOK(p, owner)'
  <2>1. Clears(p)'
    BY <1>2, <1>3 DEF Clears, Reads
  <2>2. at \notin {"save", "delete"}
    BY DEF Places
  <2> QED
    BY <1>2, <1>3, <2>1, <2>2 DEF RequestOK
<1>6. Going(p, owner, owner)
  <2>1. UNCHANGED <<twofactor, gone, spent, used, wrong>>
    BY DEF Reads
  <2>2. wrong \in [Tokens -> 0 .. AttemptLimit + 1]
    BY DEF IInv, Unique
  <2> QED
    BY <1>2, <1>3, <1>4, <1>5, <2>1, <2>2, ReaderAlone DEF Going
<1> QED
  BY <1>1, <1>6, GoingStep

\* The handler goes on with the rows that it will delete.
LEMMA ToDeleteStep ==
    ASSUME IInv, NEW q, Reader(q), NEW rows \in SUBSET twofactor, NEW then \in Places,
           Step(q, ToDelete(q, rows, then)), Reads,
           then = "cleared" => rows = twofactor, then \in Named => q.dev \in Keys \cup Devices
    PROVE  IInv'
<1>1. CASE rows = {}
  BY <1>1, GotoStep DEF ToDelete
<1>2. CASE rows # {}
  <2> DEFINE p == ToDelete(q, rows, then)
  <2>1. PICK owner \in Owners : Owned(owner)
    BY DEF IInv
  <2>2. rows \in SUBSET Row
    BY <2>1 DEF Owned, RowOK
  <2>3. /\ p \in Request /\ p.id = q.id /\ p.at = "delete" /\ p.rows = rows /\ p.then = then
        /\ p.code = NoToken /\ p.dev = q.dev /\ Step(q, p)
    BY <1>2, <2>2, DeleteShape DEF Reader
  <2> HIDE DEF p
  <2>4. UNCHANGED <<twofactor, gone, spent, used, wrong>>
    BY DEF Reads
  <2>5. ASSUME NEW x \in rows PROVE CopyOK(p, x, owner)'
    <3>1. RowOK(x, owner)
      BY <2>1 DEF Owned
    <3>2. RowOK(x, owner)'
      BY <2>4, <3>1 DEF RowOK, CodeOK
    <3>3. ASSUME x.token \notin raced' \cup {NoToken} PROVE wrong[x.token] <= x.attempts
      BY <2>3, <3>3, Holds, ReadCounts
    <3>4. Counts(x)'
      BY <2>4, <3>3 DEF Counts
    <3> QED
      BY <2>3, <3>2, <3>4 DEF CopyOK, CodeOK
  <2>6. \A x, y \in rows : x.uuid = y.uuid => x = y
    BY DEF IInv, Unique
  <2>7. RequestOK(p, owner)'
    <3>1. Clears(p)'
      BY <2>3, <2>4 DEF Clears
    <3>2. "delete" \notin Places \cup Named
      BY DEF Places, Named
    <3>3. \A x \in p.rows : CopyOK(p, x, owner)'
      BY <2>3, <2>5
    <3> QED
      BY <2>3, <2>6, <3>1, <3>2, <3>3 DEF RequestOK
  <2>8. Going(p, owner, owner)
    <3>1. wrong \in [Tokens -> 0 .. AttemptLimit + 1]
      BY DEF IInv, Unique
    <3> QED
      BY <2>3, <2>4, <2>7, <3>1, ReaderAlone DEF Going
  <2> QED
    BY <2>1, <2>8, GoingStep
<1> QED
  BY <1>1, <1>2

\* The handler goes on with the row y that it will save.
Saving(q, y, then, code, next) ==
    /\ Step(q, ToSave(q, y, then, code)) /\ UNCHANGED <<twofactor, gone, spent>>
    /\ used \subseteq used'
    /\ RowOK(y, next)' /\ Counts(y)' /\ CodeOK(code, y.uuid, next)' /\ y.uuid \notin gone
    /\ then \in {"done", "find_factors"} /\ code \in Tokens \cup {NoToken}
    /\ then = "find_factors" => y.token = NoToken /\ q.dev \in Keys \cup Devices
    /\ \/ wrong' = wrong
       \/ /\ code \in used /\ wrong' = Guess(code)
          /\ code \in raced' \/ wrong'[code] <= AttemptLimit

LEMMA SavingStep ==
    ASSUME IInv, NEW owner \in Owners, Owned(owner), NEW next \in Owners,
           \A t \in Tokens \cap used : next[t] = owner[t],
           NEW q, Reader(q), NEW y, NEW then, NEW code, Saving(q, y, then, code, next)
    PROVE  IInv'
<1> DEFINE p == ToSave(q, y, then, code)
<1>1. y \in Row /\ then \in Places /\ code \in Tokens \cup {NoToken}
  BY DEF Saving, RowOK, Places
<1>2. /\ p \in Request /\ p.id = q.id /\ p.at = "save" /\ p.rows = {y} /\ p.then = then
      /\ p.code = code /\ p.dev = q.dev /\ Step(q, p)
  BY <1>1, SaveShape DEF Reader, Saving
<1> HIDE DEF p
<1>3. RequestOK(p, next)'
  <2>1. "save" \notin Places \cup Named \cup {"cleared"} /\ then \notin {"cleared"}
    BY DEF Places, Named, Saving
  <2>2. Clears(p)'
    BY <1>2, <2>1 DEF Clears
  <2>3. CopyOK(p, y, next)'
    BY <1>2 DEF CopyOK, Saving
  <2>4. {p.at, p.then} \cap Named # {} => p.dev \in Keys \cup Devices
    BY <1>2, <2>1 DEF Saving, Named
  <2> QED
    BY <1>1, <1>2, <2>1, <2>2, <2>3, <2>4 DEF RequestOK, Saving
<1>4. wrong \in [Tokens -> 0 .. AttemptLimit + 1]
  BY DEF IInv, Unique
<1>5. /\ wrong' \in [Tokens -> 0 .. AttemptLimit + 1]
      /\ \A t \in Tokens : \/ wrong'[t] = wrong[t]
                           \/ t \in used /\ t \in Held(p) /\ (t \in raced' \/ wrong'[t] <= AttemptLimit)
  <2>1. CASE wrong' = wrong
    BY <1>4, <2>1
  <2>2. CASE code \in used /\ wrong' = Guess(code) /\ (code \in raced' \/ wrong'[code] <= AttemptLimit)
    <3>1. wrong' \in [Tokens -> 0 .. AttemptLimit + 1]
      <4>1. \A n \in 0 .. AttemptLimit + 1 :
               (IF n > AttemptLimit THEN n ELSE n + 1) \in 0 .. AttemptLimit + 1
        BY Limit
      <4> QED
        BY <1>4, <2>2, <4>1, Zenon DEF Guess
    <3>2. ASSUME NEW t \in Tokens, t # code PROVE wrong'[t] = wrong[t]
      BY <1>4, <2>2, <3>2 DEF Guess
    <3>3. code \in Tokens => code \in Held(p)
      BY <1>2, Holds, Limit
    <3> QED
      BY <2>2, <3>1, <3>2, <3>3
  <2> QED
    BY <2>1, <2>2 DEF Saving
<1>6. Going(p, owner, next)
  BY <1>2, <1>3, <1>5, ReaderAlone DEF Going, Saving
<1> QED
  BY <1>6, GoingStep

\* The handler has read the row x and will save the copy y that it edited, after
\* it checked a wrong code or none.
Edits(q, x, y, then, code) ==
    /\ Step(q, ToSave(q, y, then, code)) /\ UNCHANGED <<twofactor, used, gone, spent>>
    /\ y \in Row /\ y.uuid = x.uuid /\ y.token \in {x.token, NoToken}
    /\ y.attempts <= AttemptLimit /\ (y.atype # "protected" => y.attempts < AttemptLimit)
    /\ then \in {"done", "find_factors"} /\ code \in {x.token, NoToken}
    /\ then = "find_factors" => y.token = NoToken /\ q.dev \in Keys \cup Devices
    /\ \/ wrong' = wrong /\ (y.token # NoToken => x.attempts <= y.attempts)
       \/ /\ wrong' = Guess(x.token) /\ code = x.token /\ x.token # NoToken
          /\ x.attempts < AttemptLimit /\ (y.token # NoToken => x.attempts < y.attempts)

LEMMA EditStep ==
    ASSUME IInv, NEW q, Reader(q), NEW x \in twofactor, NEW y, NEW then, NEW code,
           Edits(q, x, y, then, code)
    PROVE  IInv'
<1> DEFINE p == ToSave(q, y, then, code)
<1>1. PICK owner \in Owners : Owned(owner)
  BY DEF IInv
<1>2. RowOK(x, owner) /\ x \in Row /\ x.uuid \notin gone
  BY <1>1 DEF Owned, RowOK, IInv, DeletedStays
<1>3. /\ x.token \in Tokens \cup {NoToken} /\ x.attempts \in Nat /\ y.attempts \in Nat
      /\ then \in Places /\ code \in Tokens \cup {NoToken}
  BY <1>2, RowFields DEF Edits, Places
<1>4. p.id = q.id /\ p.rows = {y} /\ p.code = code /\ Step(q, p)
  BY <1>3, SaveShape DEF Reader, Edits
<1> HIDE DEF p
<1>5. RowOK(y, owner)' /\ CodeOK(code, y.uuid, owner)' /\ y.uuid \notin gone
  BY <1>2 DEF RowOK, CodeOK, Edits
<1>6. wrong \in [Tokens -> 0 .. AttemptLimit + 1] /\ \A t \in Tokens : wrong[t] \in Nat
  BY Limit DEF IInv, Unique
<1>7. ASSUME x.token \notin raced', x.token \in Held(p) PROVE x.token # NoToken /\ wrong[x.token] <= x.attempts
  BY <1>4, <1>7, ReadCounts
<1>8. x.token \in Tokens /\ wrong' = Guess(x.token) => wrong'[x.token] <= wrong[x.token] + 1
  BY <1>6 DEF Guess
<1>9. Counts(y)'
  <2>1. ASSUME y.token \notin raced' \cup {NoToken} PROVE wrong'[y.token] <= y.attempts
    <3>1. y.token = x.token /\ x.token \in Tokens /\ x.token \in Held(p)
      BY <1>3, <1>4, <2>1, Holds DEF Edits
    <3>2. wrong[x.token] <= x.attempts /\ wrong[x.token] \in Nat
      BY <1>6, <1>7, <2>1, <3>1
    <3>3. CASE wrong' = wrong /\ x.attempts <= y.attempts
      BY <1>3, <3>1, <3>2, <3>3
    <3>4. CASE wrong' = Guess(x.token) /\ x.attempts < y.attempts
      <4>1. wrong'[x.token] \in Nat
        BY <1>6, <3>1, <3>4 DEF Guess
      <4> QED
        BY <1>3, <1>8, <3>1, <3>2, <3>4, <4>1
    <3> QED
      BY <2>1, <3>3, <3>4 DEF Edits
  <2> QED
    BY <2>1 DEF Counts
<1>10. \/ wrong' = wrong
       \/ /\ code \in used /\ wrong' = Guess(code)
          /\ code \in raced' \/ wrong'[code] <= AttemptLimit
  <2>1. ASSUME wrong' # wrong
        PROVE  /\ code \in used /\ wrong' = Guess(code)
               /\ code \in raced' \/ wrong'[code] <= AttemptLimit
    <3>1. /\ wrong' = Guess(x.token) /\ code = x.token /\ x.token # NoToken
          /\ x.attempts < AttemptLimit
      BY <2>1 DEF Edits
    <3>2. x.token \in used /\ x.token \in Tokens /\ x.token \in Held(p)
      BY <1>2, <1>3, <1>4, <3>1, Holds DEF RowOK, CodeOK
    <3>3. ASSUME code \notin raced' PROVE wrong'[code] <= AttemptLimit
      <4>1. wrong[x.token] <= x.attempts /\ wrong[x.token] \in Nat
        BY <1>6, <1>7, <3>1, <3>2, <3>3
      <4>2. wrong'[x.token] \in Nat
        BY <1>6, <3>1, <3>2 DEF Guess
      <4> QED
        BY <1>3, <1>8, <3>1, <3>2, <4>1, <4>2, Limit
    <3> QED
      BY <3>1, <3>2, <3>3
  <2> QED
    BY <2>1
<1>11. Saving(q, y, then, code, owner)
  BY <1>3, <1>5, <1>9, <1>10 DEF Saving, Edits
<1> QED
  BY <1>1, <1>11, SavingStep

\* The handler has read the email factor and will save a new code.
LEMMA NewCodeStep ==
    ASSUME IInv, NEW q, Reader(q), NEW x \in twofactor, x.atype = "email",
           NEW t \in Tokens, NewCode(q, "done", x, t)
    PROVE  IInv'
<1> DEFINE y == [x EXCEPT !.token = t, !.attempts = 0]
<1>1. PICK owner \in Owners : Owned(owner)
  BY DEF IInv
<1>2. RowOK(x, owner) /\ x \in Row /\ x.uuid \notin gone
  BY <1>1 DEF Owned, RowOK, IInv, DeletedStays
<1>3. /\ t \notin used /\ used' = used \cup {t} /\ Step(q, ToSave(q, y, "done", x.token))
      /\ UNCHANGED <<twofactor, gone, spent, wrong>>
  BY DEF NewCode
<1>4. /\ y \in Row /\ y.uuid = x.uuid /\ y.token = t /\ y.attempts = 0 /\ y.atype = "email"
  <2>1. 0 \in 0 .. AttemptLimit + 1
    BY Limit
  <2> QED
    BY <1>2, <2>1, Zenon DEF Row
<1>5. PICK next \in Owners : next = [owner EXCEPT ![t] = x.uuid]
  BY <1>1, <1>2, RowFields, Zenon DEF Owners
<1>6. next[t] = x.uuid /\ \A s \in Tokens : s # t => next[s] = owner[s]
  BY <1>1, <1>5 DEF Owners
<1> HIDE DEF y
<1>7. \A s \in Tokens \cap used : next[s] = owner[s]
  BY <1>3, <1>6
<1>8. RowOK(y, next)'
  BY <1>2, <1>3, <1>4, <1>6, Limit DEF RowOK, CodeOK, IInv, Unique
<1>9. Counts(y)'
  BY <1>3, <1>4 DEF Counts, IInv, Unique
<1>10. x.token \in Tokens \cup {NoToken} /\ CodeOK(x.token, y.uuid, next)'
  BY <1>2, <1>3, <1>4, <1>7, RowFields DEF RowOK, CodeOK
<1>11. Saving(q, y, "done", x.token, next)
  BY <1>2, <1>3, <1>4, <1>8, <1>9, <1>10 DEF Saving
<1> QED
  BY <1>1, <1>7, <1>11, SavingStep

\* The handler has found no row, and will save a new one without a code.
LEMMA NewRowStep ==
    ASSUME IInv, NEW q, Reader(q), q.dev \in Keys \cup Devices, NEW u \in Uuids \ used,
           used' = used \cup {u}, UNCHANGED <<twofactor, gone, spent, wrong>>,
           Step(q, ToSave(q, new(u, "webauthn", NoToken, {q.dev}), "done", NoToken))
    PROVE  IInv'
<1> DEFINE y == new(u, "webauthn", NoToken, {q.dev})
<1>1. PICK owner \in Owners : Owned(owner)
  BY DEF IInv
<1>2. y \in Row /\ y.uuid = u /\ y.token = NoToken /\ y.attempts = 0
  BY Limit DEF Row, new, Types
<1>3. Step(q, ToSave(q, y, "done", NoToken))
  OBVIOUS
<1> HIDE DEF y
<1>4. RowOK(y, owner)' /\ Counts(y)' /\ CodeOK(NoToken, y.uuid, owner)' /\ y.uuid \notin gone
  BY <1>2, Limit DEF RowOK, CodeOK, Counts, IInv, Unique
<1>5. Saving(q, y, "done", NoToken, owner)
  BY <1>3, <1>4 DEF Saving
<1> QED
  BY <1>1, <1>5, SavingStep

-----------------------------------------------------------------------------
(* The handlers that read. *)

\* A handler begins in a slot that is free.
LEMMA Begins ==
    ASSUME NEW r \in Requests, NEW dev \in Requests \cup Devices \cup Keys,
           NEW p, p.id = r, Start(r, p)
    PROVE  Reader(Begin(r, dev)) /\ Step(Begin(r, dev), p) /\ Begin(r, dev).dev = dev
<1>1. /\ Begin(r, dev) \in Request /\ Begin(r, dev).id = r /\ Begin(r, dev).at = "done"
      /\ Begin(r, dev).rows = {} /\ Begin(r, dev).code = NoToken /\ Begin(r, dev).dev = dev
  BY BeginShape
<1>2. Begin(r, dev).then = "done" /\ "done" \in Places
  BY DEF Begin, Places
<1> QED
  BY <1>1, <1>2 DEF Start, Reader, Step, Others

\* A request that is not about to write.
LEMMA Continues ==
    ASSUME IInv, NEW q \in req, q.at \in Places
    PROVE  Reader(q) /\ (q.at \in Named => q.dev \in Keys \cup Devices)
<1>1. PICK owner \in Owners : Owned(owner)
  BY DEF IInv
<1>2. RequestOK(q, owner)
  BY <1>1 DEF Owned
<1>3. q.at # "save"
  BY DEF Places
<1> QED
  BY <1>2, <1>3 DEF RequestOK, Reader

\* The rows of the table.
LEMMA StoredRows ==
    ASSUME IInv
    PROVE  /\ twofactor \subseteq Row
           /\ \A x \in twofactor : /\ x.attempts \in Nat /\ x.attempts <= AttemptLimit
                                   /\ x.atype # "protected" => x.attempts < AttemptLimit
<1>1. PICK owner \in Owners : Owned(owner)
  BY DEF IInv
<1> QED
  BY <1>1, RowFields DEF Owned, RowOK

\* A row without its code.
LEMMA ResetShape ==
    ASSUME NEW x \in Row
    PROVE  LET y == reset_token(x)
           IN  /\ y \in Row /\ y.uuid = x.uuid /\ y.atype = x.atype
               /\ y.token = NoToken /\ y.attempts = 0
<1>1. 0 \in 0 .. AttemptLimit + 1
  BY Limit
<1> QED
  BY <1>1, Zenon DEF Row, reset_token

\* A row with one more attempt.
LEMMA AttemptShape ==
    ASSUME NEW x \in Row, x.attempts <= AttemptLimit
    PROVE  LET y == [x EXCEPT !.attempts = @ + 1]
           IN  /\ y \in Row /\ y.uuid = x.uuid /\ y.atype = x.atype
               /\ y.token = x.token /\ y.attempts = x.attempts + 1
<1>1. x.attempts + 1 \in 0 .. AttemptLimit + 1
  BY RowFields, Limit
<1> QED
  BY <1>1 DEF Row

\* A row with other credentials.
LEMMA KeysShape ==
    ASSUME NEW x \in Row, NEW K \in SUBSET (Keys \cup Devices)
    PROVE  LET y == [x EXCEPT !.keys = K]
           IN  /\ y \in Row /\ y.uuid = x.uuid /\ y.atype = x.atype
               /\ y.token = x.token /\ y.attempts = x.attempts
  BY DEF Row

\* Rows are deleted: disable_method, send_email_2fa, request_otp, recover and
\* activate_webauthn.
LEMMA RemovalsBegin ==
    ASSUME IInv, NEW r \in Requests, NEW dev \in Requests \cup Devices \cup Keys,
           NEW rows \in SUBSET twofactor, NEW then \in Places,
           Start(r, ToDelete(Begin(r, dev), rows, then)), Reads,
           then = "cleared" => rows = twofactor, then \in Named => dev \in Keys \cup Devices
    PROVE  IInv'
<1>1. ToDelete(Begin(r, dev), rows, then).id = r
  <2>1. Begin(r, dev) \in Request /\ Begin(r, dev).id = r
    BY BeginShape
  <2>2. rows \in SUBSET Row
    BY StoredRows
  <2>3. CASE rows = {}
    BY <2>1, <2>3, GotoShape DEF ToDelete
  <2>4. CASE rows # {}
    BY <2>1, <2>2, <2>4, DeleteShape
  <2> QED
    BY <2>3, <2>4
<1>2. /\ Reader(Begin(r, dev)) /\ Begin(r, dev).dev = dev
      /\ Step(Begin(r, dev), ToDelete(Begin(r, dev), rows, then))
  BY <1>1, Begins
<1> QED
  BY <1>2, ToDeleteStep

LEMMA RemovalHandlers ==
    ASSUME IInv, NEW r \in Requests,
           \/ \E t \in Types : disable_method(r, t)
           \/ send_email_2fa(r) \/ request_otp(r) \/ recover(r)
           \/ \E k \in Keys : activate_webauthn(r, k)
    PROVE  IInv'
<1>1. \A t : find_by_user_and_type(t) \in SUBSET twofactor
  BY DEF find_by_user_and_type
<1>2. {"done", "find_challenge", "post_otp", "cleared", "find_credentials"} \subseteq Places
  BY DEF Places
<1>3. Named \cap {"done", "find_challenge", "post_otp", "cleared"} = {}
  BY DEF Named
<1>4. ASSUME NEW t \in Types, disable_method(r, t) PROVE IInv'
  BY <1>1, <1>2, <1>3, <1>4, RemovalsBegin DEF disable_method
<1>5. CASE send_email_2fa(r)
  BY <1>1, <1>2, <1>3, <1>5, RemovalsBegin DEF send_email_2fa
<1>6. CASE request_otp(r)
  BY <1>1, <1>2, <1>3, <1>6, RemovalsBegin DEF request_otp
<1>7. CASE recover(r)
  BY <1>2, <1>3, <1>7, RemovalsBegin DEF recover
<1>8. ASSUME NEW k \in Keys, activate_webauthn(r, k) PROVE IInv'
  BY <1>1, <1>2, <1>8, RemovalsBegin DEF activate_webauthn
<1> QED
  BY <1>4, <1>5, <1>6, <1>7, <1>8

\* A recovery that could not read the rows answers for none of them.
LEMMA UnreadStep ==
    ASSUME IInv, NEW r \in Requests, recover_unread(r)
    PROVE  IInv'
<1> DEFINE uuids == {x.uuid : x \in twofactor}
<1>0. PICK p : p = [Goto(Begin(r, r), "cleared") EXCEPT !.touched = uuids]
  OBVIOUS
<1>1. PICK owner \in Owners : Owned(owner)
  BY DEF IInv
<1>2. /\ p \in Request /\ p.id = r /\ p.at = "cleared" /\ p.rows = {} /\ p.then = "done"
      /\ p.code = NoToken /\ p.touched = uuids
  <2>1. "cleared" \in Places
    BY DEF Places
  <2>2. uuids \in SUBSET Uuids
    BY StoredRows, RowFields
  <2>3. LET g == Goto(Begin(r, r), "cleared")
        IN  /\ g \in Request /\ g.id = r /\ g.at = "cleared" /\ g.rows = {} /\ g.then = "done"
            /\ g.code = NoToken
    BY <2>1, BeginShape, GotoShape
  <2> HIDE DEF uuids
  <2> QED
    BY <1>0, <2>2, <2>3, Zenon DEF Request
<1>3. Start(r, p) /\ Reads
  BY <1>0 DEF recover_unread
<1>4. Reader(Begin(r, r)) /\ Step(Begin(r, r), p) /\ Begin(r, r).id = r
  BY <1>2, <1>3, Begins, BeginShape
<1>5. Held(p) = {}
  BY <1>2, ReadersHoldNothing
<1>6. RequestOK(p, owner)'
  <2>1. Clears(p)'
    BY <1>2, <1>3 DEF Clears, Reads
  <2>2. {"cleared", "done"} \cap Named = {}
    BY DEF Named
  <2> QED
    BY <1>2, <2>1, <2>2 DEF RequestOK
<1>7. Going(p, owner, owner)
  <2>1. UNCHANGED <<twofactor, gone, spent, used, wrong>>
    BY <1>3 DEF Reads
  <2>2. wrong \in [Tokens -> 0 .. AttemptLimit + 1]
    BY DEF IInv, Unique
  <2> QED
    BY <1>2, <1>4, <1>5, <1>6, <2>1, <2>2, ReaderAlone DEF Going
<1> QED
  BY <1>1, <1>7, GoingStep

\* A handler that begins reads a row and will save it edited.
LEMMA EditsBegin ==
    ASSUME IInv, NEW r \in Requests, NEW dev \in Requests \cup Devices \cup Keys,
           NEW x \in twofactor, NEW y \in Row, NEW code \in {x.token, NoToken},
           Start(r, ToSave(Begin(r, dev), y, "done", code))
    PROVE  /\ Reader(Begin(r, dev))
           /\ Step(Begin(r, dev), ToSave(Begin(r, dev), y, "done", code))
<1>1. x.token \in Tokens \cup {NoToken}
  BY StoredRows, RowFields
<1>2. Begin(r, dev) \in Request /\ Begin(r, dev).id = r /\ "done" \in Places
  BY BeginShape DEF Places
<1>3. ToSave(Begin(r, dev), y, "done", code).id = r
  BY <1>1, <1>2, SaveShape
<1> QED
  BY <1>3, Begins

LEMMA EmailActivation ==
    ASSUME IInv, NEW r \in Requests, NEW expired \in BOOLEAN, activate_email_2fa(r, expired)
    PROVE  IInv'
<1> DEFINE y(x) == IF expired THEN reset_token(x) ELSE [reset_token(x) EXCEPT !.atype = "email"]
           code(x) == IF expired THEN NoToken ELSE x.token
<1>1. PICK x \in find_by_user_and_type("email_challenge") :
         Start(r, ToSave(Begin(r, r), y(x), "done", code(x)))
  BY Zenon DEF activate_email_2fa
<1>2. x \in twofactor /\ x.atype = "email_challenge" /\ x \in Row
  BY StoredRows DEF find_by_user_and_type
<1>3. /\ y(x) \in Row /\ y(x).uuid = x.uuid /\ y(x).token = NoToken /\ y(x).attempts = 0
      /\ y(x).atype # "protected"
  <2>1. /\ reset_token(x) \in Row /\ reset_token(x).uuid = x.uuid
        /\ reset_token(x).atype = "email_challenge"
        /\ reset_token(x).token = NoToken /\ reset_token(x).attempts = 0
    BY <1>2, ResetShape
  <2>2. "email" \in Types
    BY DEF Types
  <2> QED
    BY <2>1, <2>2 DEF Row
<1>4. UNCHANGED <<twofactor, used, gone, spent, wrong>>
  BY DEF activate_email_2fa, Reads
<1>5. code(x) \in {x.token, NoToken}
  OBVIOUS
<1> HIDE DEF y, code
<1>6. /\ Reader(Begin(r, r)) /\ Step(Begin(r, r), ToSave(Begin(r, r), y(x), "done", code(x)))
  BY <1>1, <1>2, <1>3, <1>5, EditsBegin
<1>7. Edits(Begin(r, r), x, y(x), "done", code(x))
  BY <1>3, <1>4, <1>5, <1>6, Limit DEF Edits
<1> QED
  BY <1>2, <1>6, <1>7, EditStep

LEMMA OtpCheck ==
    ASSUME IInv, NEW r \in Requests, NEW o \in Outcomes, verify_otp(r, o)
    PROVE  IInv'
<1> DEFINE y(x) == [x EXCEPT !.attempts = @ + 1]
           checked(x) == o = "wrong" /\ y(x).attempts <= AttemptLimit
<1>1. PICK x \in find_by_user_and_type("protected") :
         /\ Start(r, IF checked(x) THEN ToSave(Begin(r, r), y(x), "done", x.token)
                     ELSE ToDelete(Begin(r, r), {x}, "done"))
         /\ wrong' = IF checked(x) THEN Guess(x.token) ELSE wrong
  BY Zenon DEF verify_otp
<1>2. UNCHANGED <<twofactor, used, gone, spent>>
  BY DEF verify_otp
<1>3. x \in twofactor /\ x.atype = "protected" /\ x \in Row /\ x.attempts \in Nat
      /\ x.attempts <= AttemptLimit
  BY StoredRows DEF find_by_user_and_type
<1>4. /\ y(x) \in Row /\ y(x).uuid = x.uuid /\ y(x).token = x.token /\ y(x).atype = "protected"
      /\ y(x).attempts = x.attempts + 1
  BY <1>3, AttemptShape
<1>5. CASE checked(x) /\ x.token # NoToken
  <2>1. Start(r, ToSave(Begin(r, r), y(x), "done", x.token)) /\ y(x).attempts <= AttemptLimit
    BY <1>1, <1>5
  <2> HIDE DEF y, checked
  <2>2. /\ Reader(Begin(r, r)) /\ Step(Begin(r, r), ToSave(Begin(r, r), y(x), "done", x.token))
    BY <1>3, <1>4, <2>1, EditsBegin
  <2>3. x.attempts < AttemptLimit /\ x.attempts < y(x).attempts
    BY <1>3, <1>4, <2>1, Limit
  <2>4. Edits(Begin(r, r), x, y(x), "done", x.token)
    BY <1>1, <1>2, <1>4, <1>5, <2>1, <2>2, <2>3 DEF Edits
  <2> QED
    BY <1>3, <2>2, <2>4, EditStep
<1>6. CASE checked(x) /\ x.token = NoToken
  <2>1. Start(r, ToSave(Begin(r, r), y(x), "done", x.token)) /\ y(x).attempts <= AttemptLimit
    BY <1>1, <1>6
  <2> HIDE DEF y, checked
  <2>2. /\ Reader(Begin(r, r)) /\ Step(Begin(r, r), ToSave(Begin(r, r), y(x), "done", x.token))
    BY <1>3, <1>4, <2>1, EditsBegin
  <2>3. wrong' = wrong
    BY <1>1, <1>6, Limit DEF Guess, IInv, Unique
  <2>4. Edits(Begin(r, r), x, y(x), "done", x.token)
    BY <1>2, <1>4, <1>6, <2>1, <2>2, <2>3, Zenon DEF Edits
  <2> QED
    BY <1>3, <2>2, <2>4, EditStep
<1>7. CASE ~checked(x)
  <2>1. Start(r, ToDelete(Begin(r, r), {x}, "done")) /\ Reads
    BY <1>1, <1>2, <1>7 DEF Reads
  <2>2. {x} \in SUBSET twofactor /\ "done" \in Places /\ "done" \notin Named
    BY <1>3 DEF Places, Named
  <2> QED
    BY <2>1, <2>2, RemovalsBegin
<1> QED
  BY <1>5, <1>6, <1>7

LEMMA WebauthnHandlers ==
    ASSUME IInv, NEW r \in Requests, NEW k \in Keys, rename_webauthn(r, k) \/ delete_webauthn(r, k)
    PROVE  IInv'
<1>1. UNCHANGED <<twofactor, used, gone, spent, wrong>> /\ Reads
  BY DEF rename_webauthn, delete_webauthn, Reads
<1>2. ASSUME NEW x \in find_by_user_and_type("webauthn"), NEW K \in SUBSET (Keys \cup Devices),
             Start(r, ToSave(Begin(r, k), [x EXCEPT !.keys = K], "done", NoToken))
      PROVE  IInv'
  <2> DEFINE y == [x EXCEPT !.keys = K]
  <2>1. x \in twofactor /\ x.atype = "webauthn" /\ x \in Row /\ x.attempts \in Nat
        /\ x.attempts < AttemptLimit
    BY StoredRows DEF find_by_user_and_type
  <2>2. /\ y \in Row /\ y.uuid = x.uuid /\ y.token = x.token /\ y.atype = "webauthn"
        /\ y.attempts = x.attempts
    BY <2>1, KeysShape
  <2>3. Start(r, ToSave(Begin(r, k), y, "done", NoToken))
    BY <1>2
  <2> HIDE DEF y
  <2>4. Reader(Begin(r, k)) /\ Step(Begin(r, k), ToSave(Begin(r, k), y, "done", NoToken))
    BY <2>1, <2>2, <2>3, EditsBegin
  <2>5. Edits(Begin(r, k), x, y, "done", NoToken)
    BY <1>1, <2>1, <2>2, <2>4, Limit DEF Edits
  <2> QED
    BY <2>1, <2>4, <2>5, EditStep
<1>3. CASE rename_webauthn(r, k)
  <2>1. PICK x \in find_by_user_and_type("webauthn") : Start(r, ToSave(Begin(r, k), x, "done", NoToken))
    BY <1>3 DEF rename_webauthn
  <2>2. x \in Row
    BY StoredRows DEF find_by_user_and_type
  <2>3. x = [x EXCEPT !.keys = x.keys] /\ x.keys \in SUBSET (Keys \cup Devices)
    BY <2>2 DEF Row
  <2> QED
    BY <1>2, <2>1, <2>3
<1>4. CASE delete_webauthn(r, k)
  <2>1. PICK x \in find_by_user_and_type("webauthn") :
           Start(r, IF x.keys = {k} THEN ToDelete(Begin(r, k), {x}, "done")
                    ELSE ToSave(Begin(r, k), [x EXCEPT !.keys = @ \ {k}], "done", NoToken))
    BY <1>4, Zenon DEF delete_webauthn
  <2>2. CASE x.keys = {k}
    <3>1. Start(r, ToDelete(Begin(r, k), {x}, "done")) /\ {x} \in SUBSET twofactor
      BY <2>1, <2>2 DEF find_by_user_and_type
    <3>2. "done" \in Places /\ "done" \notin Named
      BY DEF Places, Named
    <3> QED
      BY <1>1, <3>1, <3>2, RemovalsBegin
  <2>3. CASE x.keys # {k}
    <3>1. x.keys \ {k} \in SUBSET (Keys \cup Devices)
      BY StoredRows, RowFields DEF find_by_user_and_type
    <3> QED
      BY <1>2, <2>1, <2>3, <3>1
  <2> QED
    BY <2>2, <2>3
<1> QED
  BY <1>3, <1>4

\* A login begins.
LEMMA LoginStep ==
    ASSUME IInv, Login
    PROVE  IInv'
<1>1. ASSUME NEW r \in Requests, NEW d \in Devices, NEW at \in Places, at # "cleared",
             Start(r, Goto(Begin(r, d), at)), Reads
      PROVE  IInv'
  <2>1. Begin(r, d) \in Request /\ Begin(r, d).id = r
    BY BeginShape
  <2>2. Goto(Begin(r, d), at).id = r
    BY <2>1, GotoShape
  <2>3. Reader(Begin(r, d)) /\ Step(Begin(r, d), Goto(Begin(r, d), at)) /\ Begin(r, d).dev = d
    BY <1>1, <2>2, Begins
  <2> QED
    BY <1>1, <2>3, GotoStep
<1>2. {"find_factors", "send_login_token", "email", "yubikey", "webauthn", "remember"} \subseteq Places
  BY DEF Places
<1>3. ASSUME NEW r \in Requests, NEW d \in Devices, password_grant(r, d) \/ password_grant_alone(r, d)
      PROVE  IInv'
  BY <1>1, <1>2, <1>3 DEF password_grant, password_grant_alone
<1>4. ASSUME NEW r \in Requests, NEW d \in Devices, NEW p \in Types, password_grant_with(r, d, p)
      PROVE  IInv'
  <2>1. PICK at \in Places : at # "cleared" /\ Start(r, Goto(Begin(r, d), at))
    <3>1. p \in Factors \cup {"remember"}
      BY <1>4 DEF password_grant_with
    <3>2. (IF p = "authenticator" THEN "find_factors" ELSE p) \in Places \ {"cleared"}
      BY <1>2, <3>1 DEF Factors
    <3> QED
      BY <1>4, <3>2 DEF password_grant_with
  <2> QED
    BY <1>1, <1>4, <2>1 DEF password_grant_with
<1>5. ASSUME NEW r \in Requests, NEW t \in Tokens, send_email_login(r, t) PROVE IInv'
  <2>1. PICK x \in find_by_user_and_type("email") : NewCode(Begin(r, r), "done", x, t)
    BY <1>5 DEF send_email_login
  <2>2. x \in twofactor /\ x.atype = "email"
    BY DEF find_by_user_and_type
  <2>3. Reader(Begin(r, r))
    <3>1. Begin(r, r).then = "done" /\ "done" \in Places
      BY DEF Begin, Places
    <3> QED
      BY <1>5, <3>1, BeginShape DEF send_email_login, Reader
  <2> QED
    BY <2>1, <2>2, <2>3, NewCodeStep
<1> QED
  BY <1>3, <1>4, <1>5 DEF Login

\* The reads of a request in flight.
LEMMA ReadStep ==
    ASSUME IInv, NEW q \in req,
           \/ find_challenge(q) \/ recovered(q) \/ verify_login(q) \/ no_login_code(q)
           \/ check_remember_token(q) \/ find_factors(q)
           \/ \E t \in Tokens : send_login_token(q, t)
    PROVE  IInv'
<1>1. q.at \in Places
  BY DEF find_challenge, recovered, verify_login, no_login_code, check_remember_token, find_factors,
     send_login_token, Places
<1>2. Reader(q) /\ (q.at \in Named => q.dev \in Keys \cup Devices)
  BY <1>1, Continues
<1>3. {"done", "find_factors", "issue", "post_challenge"} \subseteq Places \ {"cleared"}
  BY DEF Places
<1>4. "done" \notin Named /\ "post_challenge" \notin Named
  BY DEF Named
<1>5. CASE find_challenge(q)
  <2>1. find_by_user_and_type("email_challenge") \in SUBSET twofactor
    BY DEF find_by_user_and_type
  <2> QED
    BY <1>2, <1>3, <1>4, <1>5, <2>1, ToDeleteStep DEF find_challenge
<1>6. ASSUME NEW at \in {"done", "find_factors", "issue"}, Step(q, Goto(q, at)), Reads,
             at = "done" \/ q.at \in Named
      PROVE  IInv'
  BY <1>2, <1>3, <1>4, <1>6, GotoStep
<1>7. CASE recovered(q) \/ no_login_code(q)
  BY <1>6, <1>7 DEF recovered, no_login_code
<1>8. CASE verify_login(q)
  <2>1. q.at \in Named
    BY <1>8 DEF verify_login, Named
  <2> QED
    BY <1>6, <1>8, <2>1 DEF verify_login
<1>9. CASE check_remember_token(q)
  <2>1. q.at \in Named
    BY <1>9 DEF check_remember_token, Named
  <2> QED
    BY <1>6, <1>9, <2>1 DEF check_remember_token
<1>10. CASE find_factors(q)
  <2>1. q.at \in Named
    BY <1>10 DEF find_factors, Named
  <2> QED
    BY <1>6, <1>10, <2>1 DEF find_factors
<1>11. ASSUME NEW t \in Tokens, send_login_token(q, t) PROVE IInv'
  <2>1. ASSUME NEW x \in find_by_user_and_type("email"), NewCode(q, "done", x, t) PROVE IInv'
    BY <1>2, <2>1, NewCodeStep DEF find_by_user_and_type
  <2> QED
    BY <1>6, <1>11, <2>1 DEF send_login_token
<1> QED
  BY <1>5, <1>7, <1>8, <1>9, <1>10, <1>11

LEMMA CredentialsStep ==
    ASSUME IInv, NEW q \in req, NEW u \in Uuids, find_credentials(q, u)
    PROVE  IInv'
<1> DEFINE found == find_by_user_and_type("webauthn")
<1>1. q.at \in Places /\ q.at \in Named /\ "done" \in Places /\ "done" \notin Named
  BY DEF find_credentials, Places, Named
<1>2. Reader(q) /\ q.dev \in Keys \cup Devices
  BY <1>1, Continues
<1>3. UNCHANGED <<twofactor, gone, spent, wrong>>
  BY DEF find_credentials
<1>4. CASE found = {}
  <2>1. /\ u \in Uuids \ used /\ used' = used \cup {u}
        /\ Step(q, ToSave(q, new(u, "webauthn", NoToken, {q.dev}), "done", NoToken))
    BY <1>4 DEF find_credentials
  <2> QED
    BY <1>2, <1>3, <2>1, NewRowStep
<1>5. CASE found # {}
  <2>1. PICK x \in found :
           /\ Step(q, IF q.dev \in x.keys THEN Goto(q, "done")
                      ELSE ToSave(q, [x EXCEPT !.keys = @ \cup {q.dev}], "done", NoToken))
           /\ UNCHANGED used
    BY <1>5 DEF find_credentials
  <2>2. x \in twofactor /\ x.atype = "webauthn" /\ x \in Row /\ x.attempts \in Nat
        /\ x.attempts < AttemptLimit
    BY StoredRows DEF find_by_user_and_type
  <2>3. CASE q.dev \in x.keys
    <3>1. Step(q, Goto(q, "done")) /\ Reads
      BY <1>3, <2>1, <2>3 DEF Reads
    <3> QED
      BY <1>1, <1>2, <3>1, GotoStep
  <2>4. CASE q.dev \notin x.keys
    <3> DEFINE y == [x EXCEPT !.keys = x.keys \cup {q.dev}]
    <3>1. x.keys \cup {q.dev} \in SUBSET (Keys \cup Devices)
      BY <1>2, <2>2, RowFields
    <3>2. /\ y \in Row /\ y.uuid = x.uuid /\ y.token = x.token /\ y.atype = "webauthn"
          /\ y.attempts = x.attempts
      BY <2>2, <3>1, KeysShape
    <3>3. Step(q, ToSave(q, y, "done", NoToken))
      BY <2>1, <2>4
    <3> HIDE DEF y
    <3>4. Edits(q, x, y, "done", NoToken)
      BY <1>3, <2>1, <2>2, <3>2, <3>3, Limit DEF Edits
    <3> QED
      BY <1>2, <2>2, <3>4, EditStep
  <2> QED
    BY <2>3, <2>4
<1> QED
  BY <1>4, <1>5

LEMMA EmailCheck ==
    ASSUME IInv, NEW q \in req, NEW o \in Outcomes, verify_email_login_code(q, o)
    PROVE  IInv'
<1> DEFINE y(x) == [x EXCEPT !.attempts = @ + 1]
<1>1. PICK x \in find_by_user_and_type("email") :
         /\ x.token # NoToken
         /\ Step(q, CASE o = "right"   -> ToSave(q, accept(x), "find_factors", x.token)
                      [] o = "expired" -> ToSave(q, reset_token(x), "done", x.token)
                      [] o = "wrong"   ->
                           ToSave(q, IF y(x).attempts >= AttemptLimit THEN reset_token(x) ELSE y(x),
                                  "done", x.token))
         /\ wrong' = IF o = "wrong" THEN Guess(x.token) ELSE wrong
  BY Zenon DEF verify_email_login_code
<1>2. UNCHANGED <<twofactor, used, gone, spent>>
  BY DEF verify_email_login_code
<1>3. q.at \in Places /\ q.at \in Named
  BY DEF verify_email_login_code, Places, Named
<1>4. Reader(q) /\ q.dev \in Keys \cup Devices
  BY <1>3, Continues
<1>5. x \in twofactor /\ x.atype = "email" /\ x \in Row /\ x.attempts \in Nat
      /\ x.attempts < AttemptLimit /\ x.attempts <= AttemptLimit
  BY StoredRows DEF find_by_user_and_type
<1>6. /\ reset_token(x) \in Row /\ reset_token(x).uuid = x.uuid /\ reset_token(x).atype = "email"
      /\ reset_token(x).token = NoToken /\ reset_token(x).attempts = 0
  BY <1>5, ResetShape
<1>7. /\ y(x) \in Row /\ y(x).uuid = x.uuid /\ y(x).token = x.token /\ y(x).atype = "email"
      /\ y(x).attempts = x.attempts + 1
  BY <1>5, AttemptShape
<1>8. CASE o = "right"
  <2>1. Step(q, ToSave(q, reset_token(x), "find_factors", x.token)) /\ wrong' = wrong
    BY <1>1, <1>8 DEF accept
  <2>2. Edits(q, x, reset_token(x), "find_factors", x.token)
    BY <1>2, <1>4, <1>6, <2>1, Limit DEF Edits
  <2> QED
    BY <1>4, <1>5, <2>2, EditStep
<1>9. CASE o = "expired"
  <2>1. Step(q, ToSave(q, reset_token(x), "done", x.token)) /\ wrong' = wrong
    BY <1>1, <1>9
  <2>2. Edits(q, x, reset_token(x), "done", x.token)
    BY <1>2, <1>6, <2>1, Limit DEF Edits
  <2> QED
    BY <1>4, <1>5, <2>2, EditStep
<1>10. CASE o = "wrong" /\ y(x).attempts >= AttemptLimit
  <2>1. Step(q, ToSave(q, reset_token(x), "done", x.token)) /\ wrong' = Guess(x.token)
    BY <1>1, <1>10
  <2>2. Edits(q, x, reset_token(x), "done", x.token)
    BY <1>1, <1>2, <1>5, <1>6, <2>1, Limit DEF Edits
  <2> QED
    BY <1>4, <1>5, <2>2, EditStep
<1>11. CASE o = "wrong" /\ ~(y(x).attempts >= AttemptLimit)
  <2>1. Step(q, ToSave(q, y(x), "done", x.token)) /\ wrong' = Guess(x.token)
        /\ ~(y(x).attempts >= AttemptLimit)
    BY <1>1, <1>11
  <2> HIDE DEF y
  <2>2. Edits(q, x, y(x), "done", x.token)
    <3>1. y(x).attempts < AttemptLimit /\ x.attempts < y(x).attempts /\ y(x).attempts <= AttemptLimit
      BY <1>5, <1>7, <2>1, Limit
    <3> QED
      BY <1>1, <1>2, <1>5, <1>7, <2>1, <3>1 DEF Edits
  <2> QED
    BY <1>4, <1>5, <2>2, EditStep
<1> QED
  BY <1>8, <1>9, <1>10, <1>11 DEF Outcomes
=============================================================================
