-------------------------- MODULE TwoFactorProofs ---------------------------
(* For any uuids, codes, devices, keys and requests in flight, and any limit *)
(* of attempts: a code is used once, guesses at it are counted, and a factor *)
(* that was removed is gone.                                                 *)
EXTENDS TwoFactorReads

\* The request q after the row u was written.
Marked(q, u) == IF "cleared" \in {q.at, q.then} THEN [q EXCEPT !.touched = @ \cup {u}] ELSE q

\* The requests p and q differ at most in what was written meanwhile.
Alike(p, q) ==
    /\ p.id = q.id /\ p.at = q.at /\ p.rows = q.rows /\ p.then = q.then /\ p.dev = q.dev
    /\ p.code = q.code /\ q.touched \subseteq p.touched

LEMMA Marks ==
    ASSUME NEW q \in Request, NEW u \in Uuids
    PROVE  LET p == Marked(q, u)
           IN  /\ p \in Request /\ Alike(p, q) /\ Held(p) = Held(q)
               /\ "cleared" \in {q.at, q.then} => u \in p.touched
<1>1. /\ Marked(q, u) \in Request /\ Alike(Marked(q, u), q)
      /\ "cleared" \in {q.at, q.then} => u \in Marked(q, u).touched
  BY DEF Marked, Request, Alike
<1> QED
  BY <1>1 DEF Alike, Held

LEMMA TouchMarks ==
    ASSUME NEW S, NEW u
    PROVE  Touch(S, u) = {Marked(q, u) : q \in S}
  BY DEF Touch, Marked

\* The requests are requests.
LEMMA Requested ==
    ASSUME IInv
    PROVE  req \subseteq Request
<1>1. PICK owner \in Owners : Owned(owner)
  BY DEF IInv
<1> QED
  BY <1>1 DEF Owned, RequestOK

\* What a row and a request need to stay as they are while others go on.
Keeps(owner, next) ==
    /\ used \subseteq used' /\ raced \subseteq raced' /\ wrong' = wrong
    /\ \A t \in Tokens \cap used : next[t] = owner[t]

LEMMA RowKept ==
    ASSUME NEW owner, NEW next, Keeps(owner, next),
           NEW x, RowOK(x, owner), x.token \in spent' => x.token \in spent
    PROVE  RowOK(x, next)'
<1>1. x.token # NoToken => x.token \in Tokens \cap used
  BY RowFields DEF RowOK, CodeOK
<1> QED
  BY <1>1 DEF RowOK, CodeOK, Keeps

LEMMA RequestKept ==
    ASSUME NEW owner, NEW next, Keeps(owner, next),
           NEW q, RequestOK(q, owner), Held(q) \cap spent' \subseteq spent,
           q.at = "save" => \A x \in q.rows : x.uuid \in gone' => x.uuid \in gone,
           NEW p \in Request, Alike(p, q), Clears(p)'
    PROVE  RequestOK(p, next)'
<1>1. q \in Request
  BY DEF RequestOK
<1>2. ASSUME NEW x \in q.rows PROVE CopyOK(p, x, next)'
  <2>1. CopyOK(q, x, owner)
    BY DEF RequestOK
  <2>2. RowOK(x, next)'
    <3>1. x.token \in spent' => x.token \in spent \/ x.token = NoToken
      BY Holds
    <3>2. CASE x.token = NoToken
      BY <2>1, <3>2 DEF CopyOK, RowOK, CodeOK, Keeps
    <3>3. CASE x.token # NoToken
      BY <2>1, <3>1, <3>3, RowKept DEF CopyOK
    <3> QED
      BY <3>2, <3>3
  <2>3. Counts(x)'
    BY <2>1 DEF CopyOK, Counts, Keeps
  <2>4. CodeOK(q.code, x.uuid, next)'
    <3>1. q.code # NoToken => q.code \in Tokens \cap used /\ q.code \in Held(q)
      BY <1>1, <2>1, Holds DEF CopyOK, CodeOK, Request
    <3> QED
      BY <2>1, <3>1 DEF CopyOK, CodeOK, Keeps
  <2> QED
    BY <2>1, <2>2, <2>3, <2>4 DEF CopyOK, Alike
<1> QED
  BY <1>2 DEF RequestOK, Alike

\* A new row y is written, and the requests S go on.
Inserts(y, S) ==
    /\ S \subseteq req /\ (\A q \in req \ S : Held(q) = {})
    /\ y \in Row /\ y.uuid \notin used /\ y.attempts = 0
    /\ y.token # NoToken => y.token \notin used /\ y.token \in used'
    /\ ~Conflicts(y) /\ twofactor' = twofactor \cup {y}
    /\ used \cup {y.uuid} \subseteq used'
    /\ req' = Touch(S, y.uuid) /\ UNCHANGED <<gone, spent, wrong, raced>>

LEMMA InsertStep ==
    ASSUME IInv, NEW y, NEW S, Inserts(y, S)
    PROVE  IInv'
<1>1. PICK owner \in Owners : Owned(owner)
  BY DEF IInv
<1>2. /\ y \in Row /\ y.uuid \in Uuids /\ y.uuid \notin used /\ y.token \in Tokens \cup {NoToken}
      /\ y.attempts = 0 /\ twofactor' = twofactor \cup {y} /\ S \subseteq req /\ S \subseteq Request
      /\ UNCHANGED <<gone, spent, wrong, raced>>
  BY RowFields, Requested DEF Inserts
<1>3. req' = {Marked(q, y.uuid) : q \in S}
  BY TouchMarks DEF Inserts
<1>4. \A p \in req' : \E q \in S : /\ p = Marked(q, y.uuid) /\ p \in Request /\ Alike(p, q)
                                   /\ Held(p) = Held(q)
                                   /\ "cleared" \in {q.at, q.then} => y.uuid \in p.touched
  BY <1>2, <1>3, Marks
<1>5. \A x \in twofactor : x.uuid \in used
  BY <1>1 DEF Owned, RowOK
<1>6. Unique'
  <2>1. ASSUME NEW x \in twofactor', NEW z \in twofactor', x.uuid = z.uuid \/ x.atype = z.atype
        PROVE  x = z
    <3>1. \A w \in twofactor : w.uuid # y.uuid /\ w.atype # y.atype
      BY <1>2, <1>5 DEF Inserts, Conflicts
    <3> QED
      BY <1>2, <2>1, <3>1 DEF IInv, Unique
  <2>2. ASSUME NEW p \in req', NEW o \in req', p.id = o.id PROVE p = o
    BY <1>2, <1>4, <2>2 DEF Alike, IInv, Unique
  <2>3. \A t \in Tokens \ used' : wrong'[t] = 0
    BY <1>2 DEF IInv, Unique, Inserts
  <2> QED
    BY <1>2, <2>1, <2>2, <2>3 DEF IInv, Unique, Inserts
<1>7. HeldOnce'
  <2>1. ASSUME NEW p \in req', NEW o \in req', p # o PROVE Held(p) \cap Held(o) \subseteq raced'
    BY <1>2, <1>4, <2>1 DEF IInv, HeldOnce
  <2> QED
    BY <2>1 DEF HeldOnce, Held
<1>8. StoredCounts'
  <2>1. Counts(y)'
    BY <1>2 DEF Counts, Inserts, IInv, Unique
  <2>2. ASSUME NEW x \in twofactor, ~Counts(x) PROVE \E p \in req' : x.token \in Held(p)
    <3>1. PICK q \in S : x.token \in Held(q)
      BY <2>2 DEF IInv, StoredCounts, Inserts
    <3> QED
      BY <1>2, <1>3, <3>1, Marks
  <2>3. \A x : Counts(x) => Counts(x)'
    BY <1>2 DEF Counts
  <2> QED
    BY <1>2, <2>1, <2>2, <2>3 DEF StoredCounts, Held
<1>9. DeletedStays' /\ AttemptsCapped'
  BY <1>2 DEF IInv, DeletedStays, AttemptsCapped, Unique
<1>10. PICK next \in Owners : /\ \A t \in Tokens \cap used : next[t] = owner[t]
                              /\ y.token # NoToken => next[y.token] = y.uuid
  <2>1. CASE y.token = NoToken
    BY <1>1, <2>1
  <2>2. CASE y.token # NoToken
    <3>1. [owner EXCEPT ![y.token] = y.uuid] \in Owners
      BY <1>1, <1>2, Zenon DEF Owners
    <3>2. y.token \in Tokens /\ y.token \notin used
      BY <1>2, <2>2 DEF Inserts
    <3> QED
      BY <1>1, <3>1, <3>2, Zenon DEF Owners
  <2> QED
    BY <2>1, <2>2
<1>11. Owned(next)'
  <2>1. Keeps(owner, next)
    BY <1>2, <1>10 DEF Keeps, Inserts
  <2>2. RowOK(y, next)'
    BY <1>2, <1>10, Limit DEF RowOK, CodeOK, Inserts, IInv, Unique
  <2>3. \A x \in twofactor' : RowOK(x, next)'
    BY <1>1, <1>2, <2>1, <2>2, RowKept DEF Owned
  <2>4. ASSUME NEW p \in req' PROVE RequestOK(p, next)'
    <3>1. PICK q \in req : /\ p \in Request /\ Alike(p, q)
                           /\ "cleared" \in {q.at, q.then} => y.uuid \in p.touched
      BY <1>2, <1>4
    <3>2. RequestOK(q, owner)
      BY <1>1 DEF Owned
    <3>3. Clears(p)'
      BY <1>2, <3>1, <3>2 DEF Clears, RequestOK, Alike
    <3> QED
      BY <1>2, <2>1, <3>1, <3>2, <3>3, RequestKept
  <2> QED
    BY <2>3, <2>4 DEF Owned
<1> QED
  BY <1>6, <1>7, <1>8, <1>9, <1>11 DEF IInv

\* The handlers that insert a row.
LEMMA NewShape ==
    ASSUME NEW u \in Uuids, NEW t \in Types, NEW token \in Tokens \cup {NoToken},
           NEW K \in SUBSET (Keys \cup Devices)
    PROVE  LET y == new(u, t, token, K)
           IN  y \in Row /\ y.uuid = u /\ y.token = token /\ y.attempts = 0
<1>1. 0 \in 0 .. AttemptLimit + 1
  BY Limit
<1> QED
  BY <1>1 DEF new, Row

LEMMA EnrolStep ==
    ASSUME IInv, NEW u \in Uuids, activate_authenticator(u) \/ yubikey(u) \/ generate_challenge(u)
    PROVE  IInv'
<1>1. PICK t \in Types : Enrols(u, t)
  BY DEF activate_authenticator, yubikey, generate_challenge, Types
<1>2. Inserts(new(u, t, NoToken, {}), req)
  BY <1>1, NewShape DEF Enrols, Post, Inserts
<1> QED
  BY <1>2, InsertStep

LEMMA PostStep ==
    ASSUME IInv, NEW q \in req, NEW u \in Uuids, NEW t \in Tokens, post(q, u, t)
    PROVE  IInv'
<1>1. Held(q) = {}
  BY Continues, ReadersHoldNothing DEF post, Places, Reader
<1>2. PICK atype \in Types : Post(u, atype, t, {})
  BY DEF post, Types
<1>3. Inserts(new(u, atype, t, {}), req \ {q})
  BY <1>1, <1>2, NewShape DEF post, Post, Inserts
<1> QED
  BY <1>3, InsertStep

LEMMA IssueStep ==
    ASSUME IInv, NEW q \in req, NEW u \in Uuids, issue_remember_token(q, u)
    PROVE  IInv'
<1>1. q.at \in Places /\ q.at \in Named
  BY DEF issue_remember_token, Places, Named
<1>2. Held(q) = {} /\ q.dev \in Keys \cup Devices
  BY <1>1, Continues, ReadersHoldNothing DEF Reader
<1>3. "remember" \in Types
  BY DEF Types
<1>4. Inserts(new(u, "remember", NoToken, {q.dev}), req \ {q})
  BY <1>2, <1>3, NewShape DEF issue_remember_token, Post, Inserts
<1> QED
  BY <1>4, InsertStep

\* The request that follows one about to write.
LEMMA WentOn ==
    ASSUME IInv, NEW q \in req, NEW owner, Owned(owner), NEW at \in {"done", q.then},
           ("cleared" = at => \A x \in twofactor' : x.uuid \in q.touched)
    PROVE  LET p == Goto(q, at)
           IN  p \in Request /\ p.id = q.id /\ Held(p) = {} /\ RequestOK(p, owner)'
<1> DEFINE p == Goto(q, at)
<1>1. RequestOK(q, owner) /\ q \in Request
  BY DEF Owned, RequestOK
<1>2. at \in Places /\ "done" \in Places /\ "done" \notin Named
  BY <1>1 DEF Request, Places, Named
<1>3. /\ p \in Request /\ p.id = q.id /\ p.at = at /\ p.rows = {} /\ p.then = "done"
      /\ p.code = NoToken /\ p.dev = q.dev /\ p.touched = q.touched
  BY <1>1, <1>2, GotoShape
<1> HIDE DEF p
<1>4. Clears(p)'
  BY <1>3 DEF Clears
<1>5. p.at \notin {"save"}
  BY <1>2, <1>3 DEF Places
<1>6. {p.at, p.then} \cap Named # {} => p.dev \in Keys \cup Devices
  BY <1>1, <1>2, <1>3 DEF RequestOK
<1>7. RequestOK(p, owner)'
  BY <1>2, <1>3, <1>4, <1>5, <1>6 DEF RequestOK
<1> QED
  BY <1>3, <1>7, ReadersHoldNothing DEF p

LEMMA SaveStep ==
    ASSUME IInv, NEW q \in req, save(q)
    PROVE  IInv'
<1> DEFINE p == Goto(q, q.then)
<1>1. PICK owner \in Owners : Owned(owner)
  BY DEF IInv
<1>2. RequestOK(q, owner) /\ q \in Request /\ q.at = "save" /\ q.then \in {"done", "find_factors"}
  BY <1>1 DEF Owned, RequestOK, save
<1>3. PICK x \in q.rows :
         /\ ~Conflicts(x) /\ twofactor' = Saved(x)
         /\ req' = Touch(Others(q), x.uuid) \cup {o \in {p} : o.at # "done"}
         /\ spent' = IF Spends(q, x) THEN spent \cup {q.code} ELSE spent
  BY DEF save
<1>4. UNCHANGED <<used, gone, wrong, raced>>
  BY DEF save
<1>5. CopyOK(q, x, owner) /\ RowOK(x, owner) /\ x \in Row /\ x.uuid \in Uuids /\ q.rows = {x}
  BY <1>2, RowFields DEF RequestOK, CopyOK, RowOK
<1>6. p \in Request /\ p.id = q.id /\ Held(p) = {} /\ RequestOK(p, owner)'
  BY <1>1, <1>2, WentOn
<1> HIDE DEF p
<1>7. \A o \in req' : \/ o = p
                      \/ \E s \in req : /\ s.id # q.id /\ o = Marked(s, x.uuid) /\ o \in Request
                                        /\ Alike(o, s) /\ Held(o) = Held(s)
                                        /\ "cleared" \in {s.at, s.then} => x.uuid \in o.touched
  <2>1. \A o \in req' : o = p \/ \E s \in Others(q) : o = Marked(s, x.uuid)
    BY <1>3, TouchMarks
  <2>2. \A s \in Others(q) : s \in req /\ s.id # q.id /\ s \in Request
    BY Requested DEF Others
  <2> QED
    BY <1>5, <2>1, <2>2, Marks
<1>8. \A s \in req : s.id # q.id => Marked(s, x.uuid) \in req'
  BY <1>3, TouchMarks DEF Others
<1>9. twofactor' = {y \in twofactor : y.uuid # x.uuid} \cup {x}
  BY <1>3 DEF Saved
<1>10. spent \subseteq spent' /\ \A t \in spent' \ spent :
          /\ t = q.code /\ t \in Tokens \cap used /\ t \notin raced /\ t \in Held(q)
          /\ t # x.token /\ owner[t] = x.uuid
  <2>1. CASE Spends(q, x)
    <3>1. q.code \notin raced /\ q.code # NoToken /\ spent' = spent \cup {q.code}
      BY <1>3, <2>1 DEF Spends
    <3>2. q.code \in Tokens \cap used /\ q.code \in Held(q) /\ owner[q.code] = x.uuid
      BY <1>2, <1>5, <3>1, Holds DEF CopyOK, CodeOK, Request
    <3>3. q.code # x.token
      BY <1>2, <1>5, <2>1, <3>1 DEF Spends, CopyOK
    <3> QED
      BY <3>1, <3>2, <3>3
  <2>2. CASE ~Spends(q, x)
    BY <1>3, <2>2
  <2> QED
    BY <2>1, <2>2
<1>11. Unique'
  <2>1. ASSUME NEW y \in twofactor', NEW z \in twofactor', y.uuid = z.uuid \/ y.atype = z.atype
        PROVE  y = z
    BY <1>3, <1>9, <2>1 DEF Conflicts, IInv, Unique
  <2>2. ASSUME NEW o \in req', NEW s \in req', o.id = s.id PROVE o = s
    BY <1>6, <1>7, <2>2 DEF Alike, IInv, Unique
  <2>3. spent' \subseteq used \cap Tokens
    BY <1>10 DEF IInv, Unique
  <2> QED
    BY <1>4, <2>1, <2>2, <2>3 DEF IInv, Unique
<1>12. HeldOnce'
  <2>1. ASSUME NEW o \in req', NEW s \in req', o # s PROVE Held(o) \cap Held(s) \subseteq raced'
    BY <1>4, <1>6, <1>7, <2>1 DEF IInv, HeldOnce
  <2> QED
    BY <2>1 DEF HeldOnce, Held
<1>13. StoredCounts'
  <2>1. \A y : Counts(y) => Counts(y)'
    BY <1>4 DEF Counts
  <2>2. Counts(x)'
    BY <1>5, <2>1 DEF CopyOK
  <2>3. ASSUME NEW y \in twofactor, y.uuid # x.uuid, ~Counts(y)
        PROVE  \E o \in req' : y.token \in Held(o)
    <3>1. PICK s \in req : y.token \in Held(s)
      BY <2>3 DEF IInv, StoredCounts
    <3>2. s.id # q.id
      <4>1. ASSUME s = q PROVE FALSE
        <5>1. y.token # NoToken /\ owner[y.token] = y.uuid
          BY <1>1, <3>1, Holds DEF Owned, RowOK, CodeOK
        <5>2. y.token = q.code \/ y.token = x.token
          BY <1>5, <3>1, <4>1, Holds
        <5> QED
          BY <1>5, <2>3, <5>1, <5>2 DEF CopyOK, RowOK, CodeOK
      <4> QED
        BY <4>1 DEF IInv, Unique
    <3>3. Marked(s, x.uuid) \in req' /\ Held(Marked(s, x.uuid)) = Held(s)
      BY <1>5, <1>8, <3>2, Requested, Marks
    <3> QED
      BY <3>1, <3>3
  <2> QED
    BY <1>9, <2>1, <2>2, <2>3 DEF StoredCounts, Held
<1>14. DeletedStays' /\ AttemptsCapped'
  BY <1>2, <1>4, <1>5, <1>9 DEF IInv, DeletedStays, AttemptsCapped, CopyOK
<1>15. Owned(owner)'
  <2>1. Keeps(owner, owner)
    BY <1>4 DEF Keeps
  <2>2. ASSUME NEW y \in twofactor' PROVE RowOK(y, owner)'
    <3>1. RowOK(y, owner)
      BY <1>1, <1>5, <1>9 DEF Owned
    <3>2. y.token \in spent' => y.token \in spent
      <4>1. ASSUME y.token \in spent' \ spent PROVE FALSE
        <5>1. y.token \in Tokens /\ y.token # x.token /\ owner[y.token] = x.uuid
          BY <1>10, <4>1
        <5>2. owner[y.token] = y.uuid
          BY <3>1, <5>1, Limit DEF RowOK, CodeOK
        <5> QED
          BY <1>9, <5>1, <5>2
      <4> QED
        BY <4>1
    <3> QED
      BY <2>1, <3>1, <3>2, RowKept
  <2>3. ASSUME NEW o \in req' PROVE RequestOK(o, owner)'
    <3>1. CASE o = p
      BY <1>6, <3>1
    <3>2. CASE o # p
      <4>1. PICK s \in req : /\ s.id # q.id /\ o \in Request /\ Alike(o, s)
                             /\ "cleared" \in {s.at, s.then} => x.uuid \in o.touched
        BY <1>7, <3>2
      <4>2. RequestOK(s, owner)
        BY <1>1 DEF Owned
      <4>3. Held(s) \cap spent' \subseteq spent
        <5>1. Held(s) \cap Held(q) \subseteq raced
          BY <4>1 DEF IInv, HeldOnce
        <5> QED
          BY <1>10, <5>1
      <4>4. Clears(o)'
        BY <1>9, <4>1, <4>2 DEF Clears, RequestOK, Alike
      <4> QED
        BY <1>4, <2>1, <4>1, <4>2, <4>3, <4>4, RequestKept
    <3> QED
      BY <3>1, <3>2
  <2> QED
    BY <2>2, <2>3 DEF Owned
<1> QED
  BY <1>1, <1>11, <1>12, <1>13, <1>14, <1>15 DEF IInv

\* The request p goes on as q without row x.
Less(p, q, x) ==
    /\ p \in Request /\ p.id = q.id /\ p.rows = q.rows \ {x} /\ p.code = NoToken /\ p.dev = q.dev
    /\ q.touched \ {x.uuid} \subseteq p.touched
    /\ \/ p.at = "delete" /\ p.then = q.then
       \/ p.at = q.then /\ p.then = "done" /\ p.rows = {}

LEMMA LessShape ==
    ASSUME NEW q \in Request, q.at = "delete", q.code = NoToken, NEW x \in q.rows
    PROVE  LET p == ToDelete(q, q.rows \ {x}, q.then)
           IN  /\ Less(ToDelete([q EXCEPT !.touched = @ \ {x.uuid}], q.rows \ {x}, q.then), q, x)
               /\ Less([p EXCEPT !.touched = @ \cup {x.uuid}], q, x)
               /\ x.uuid \in [p EXCEPT !.touched = @ \cup {x.uuid}].touched
<1> DEFINE p == ToDelete(q, q.rows \ {x}, q.then)
<1>1. q.then \in Places /\ q.rows \ {x} \in SUBSET Row /\ x.uuid \in Uuids
  BY RowFields DEF Request
<1>2. Less(p, q, x)
  <2>1. CASE q.rows \ {x} = {}
    BY <1>1, <2>1, GotoShape DEF ToDelete, Less
  <2>2. CASE q.rows \ {x} # {}
    BY <1>1, <2>2, DeleteShape DEF Less
  <2> QED
    BY <2>1, <2>2
<1>5. Less(ToDelete([q EXCEPT !.touched = @ \ {x.uuid}], q.rows \ {x}, q.then), q, x)
  <2> DEFINE s == [q EXCEPT !.touched = @ \ {x.uuid}]
  <2>1. /\ s \in Request /\ s.id = q.id /\ s.code = NoToken /\ s.dev = q.dev
        /\ s.touched = q.touched \ {x.uuid}
    BY DEF Request
  <2> HIDE DEF s
  <2>2. Less(ToDelete(s, q.rows \ {x}, q.then), q, x)
    <3>1. CASE q.rows \ {x} = {}
      BY <1>1, <2>1, <3>1, GotoShape DEF ToDelete, Less
    <3>2. CASE q.rows \ {x} # {}
      BY <1>1, <2>1, <3>2, DeleteShape DEF Less
    <3> QED
      BY <3>1, <3>2
  <2> QED
    BY <2>2 DEF s
<1> HIDE DEF p
<1>3. Less([p EXCEPT !.touched = @ \cup {x.uuid}], q, x)
  BY <1>1, <1>2 DEF Less, Request
<1>4. x.uuid \in [p EXCEPT !.touched = @ \cup {x.uuid}].touched
  BY <1>2 DEF Less, Request
<1> QED
  BY <1>3, <1>4, <1>5 DEF p

LEMMA LessHolds ==
    ASSUME NEW p, NEW q, NEW x, Less(p, q, x)
    PROVE  Held(p) \subseteq Held(q) /\ \A z \in q.rows : z # x /\ z.token # NoToken => z.token \in Held(p)
  BY DEF Less, Held

LEMMA LessOK ==
    ASSUME IInv, NEW owner, Owned(owner), Keeps(owner, owner), NEW q \in req, q.at = "delete",
           NEW x \in q.rows, NEW p, Less(p, q, x), Held(p) \cap spent' \subseteq spent,
           twofactor' \subseteq twofactor,
           \A y \in twofactor' : y.uuid = x.uuid => x.uuid \in p.touched
    PROVE  RequestOK(p, owner)'
<1>1. RequestOK(q, owner) /\ q \in Request /\ q.then \in Places
  BY DEF Owned, RequestOK, Request
<1>2. ASSUME NEW z \in p.rows PROVE CopyOK(p, z, owner)'
  <2>1. z \in q.rows /\ CopyOK(q, z, owner)
    BY <1>1 DEF Less, RequestOK
  <2>2. RowOK(z, owner)'
    <3>1. CASE z.token = NoToken
      BY <2>1, <3>1 DEF CopyOK, RowOK, CodeOK, Keeps
    <3>2. CASE z.token # NoToken
      BY <2>1, <3>2, Holds, RowKept DEF CopyOK
    <3> QED
      BY <3>1, <3>2
  <2>3. Counts(z)'
    BY <2>1 DEF CopyOK, Counts, Keeps
  <2>4. p.at # "save" /\ p.code = NoToken
    BY <1>1 DEF Less, Places
  <2> QED
    BY <2>2, <2>3, <2>4 DEF CopyOK, CodeOK
<1>3. Clears(p)'
  <2>1. ASSUME "cleared" \in {p.at, p.then}, NEW y \in twofactor'
        PROVE  y.uuid \in p.touched \/ \E z \in p.rows : z.uuid = y.uuid
    <3>1. "cleared" \in {q.at, q.then}
      BY <2>1 DEF Less
    <3>2. y.uuid \in q.touched \/ \E z \in q.rows : z.uuid = y.uuid
      BY <1>1, <3>1 DEF RequestOK, Clears
    <3> QED
      BY <3>2 DEF Less
  <2> QED
    BY <2>1 DEF Clears
<1>4. /\ p.at \in Places => p.rows = {} /\ p.then = "done"
      /\ p.at # "save"
      /\ {p.at, p.then} \cap Named # {} => p.dev \in Keys \cup Devices
  BY <1>1 DEF Less, Places, Named, RequestOK
<1>5. \A y, z \in p.rows : y.uuid = z.uuid => y = z
  BY <1>1 DEF Less, RequestOK
<1> QED
  BY <1>2, <1>3, <1>4, <1>5 DEF RequestOK, Less

\* The other requests, when rows are deleted or a statement fails.
LEMMA OthersKept ==
    ASSUME IInv, NEW owner, Owned(owner), Keeps(owner, owner), twofactor' \subseteq twofactor,
           NEW o \in req, Held(o) \cap spent' \subseteq spent,
           o.at = "save" => \A x \in o.rows : x.uuid \in gone' => x.uuid \in gone
    PROVE  RequestOK(o, owner)'
<1>1. RequestOK(o, owner)
  BY DEF Owned
<1>2. o \in Request /\ Alike(o, o)
  BY <1>1 DEF RequestOK, Alike
<1>3. Clears(o)'
  BY <1>1 DEF Clears, RequestOK
<1> QED
  BY <1>1, <1>2, <1>3, RequestKept

\* The request q goes on as p, and holds no more codes than before.
LEMMA FewerHeld ==
    ASSUME IInv, NEW q \in req, NEW p, p.id = q.id, Held(p) \subseteq Held(q), raced \subseteq raced',
           req' = Others(q) \cup {x \in {p} : x.at # "done"}
    PROVE  /\ \A o \in req' : o = p \/ (o \in req /\ o.id # q.id)
           /\ \A o, s \in req' : o.id = s.id => o = s
           /\ HeldOnce'
<1>1. \A o \in req' : o = p \/ (o \in req /\ o.id # q.id)
  BY DEF Others
<1>2. \A o, s \in req' : o.id = s.id => o = s
  BY <1>1 DEF IInv, Unique
<1>3. ASSUME NEW o \in req', NEW s \in req', o # s PROVE Held(o) \cap Held(s) \subseteq raced'
  BY <1>1, <1>3 DEF IInv, HeldOnce
<1> QED
  BY <1>1, <1>2, <1>3 DEF HeldOnce, Held

LEMMA DeleteStep ==
    ASSUME IInv, NEW q \in req, delete(q)
    PROVE  IInv'
<1>1. PICK owner \in Owners : Owned(owner)
  BY DEF IInv
<1>2. RequestOK(q, owner) /\ q \in Request /\ q.at = "delete" /\ q.code = NoToken
  BY <1>1 DEF Owned, RequestOK, delete
<1>3. PICK x \in q.rows :
         /\ Deletes({y \in twofactor : y.uuid = x.uuid}, {x.uuid}, Others(q))
         /\ Step(q, ToDelete([q EXCEPT !.touched = @ \ {x.uuid}], q.rows \ {x}, q.then))
  BY Zenon DEF delete
<1>4. UNCHANGED <<used, wrong>>
  BY DEF delete
<1>5. PICK p : Less(p, q, x) /\ Step(q, p)
  BY <1>2, <1>3, LessShape, Zenon
<1>6. /\ twofactor' = {y \in twofactor : y.uuid # x.uuid}
      /\ gone' = gone \cup {u \in {x.uuid} : Savers(u) = {}}
  BY <1>3 DEF Deletes
<1>7. req' = Others(q) \cup {o \in {p} : o.at # "done"} /\ raced \subseteq raced' /\ p.id = q.id
  BY <1>5 DEF Step, Less
<1>8. CopyOK(q, x, owner) /\ RowOK(x, owner) /\ x.uuid \in used
  BY <1>2 DEF RequestOK, CopyOK, RowOK
<1>9. Held(p) \subseteq Held(q) /\ \A z \in q.rows : z # x /\ z.token # NoToken => z.token \in Held(p)
  BY <1>5, LessHolds
<1>10. /\ \A o \in req' : o = p \/ (o \in req /\ o.id # q.id)
       /\ \A o, s \in req' : o.id = s.id => o = s
       /\ HeldOnce'
  BY <1>7, <1>9, FewerHeld
<1>11. spent \subseteq spent' /\ \A t \in spent' \ spent :
          /\ t \in Tokens \cap used /\ owner[t] = x.uuid
          /\ \A o \in Others(q) : t \notin Held(o)
  <2>1. spent' = spent \cup (({y.token : y \in {z \in twofactor : z.uuid = x.uuid}} \ {NoToken})
                             \ (raced \cup UNION {Held(o) : o \in Others(q)}))
    BY <1>3 DEF Deletes
  <2>2. ASSUME NEW t \in spent' \ spent
        PROVE  /\ t \in Tokens \cap used /\ owner[t] = x.uuid
               /\ \A o \in Others(q) : t \notin Held(o)
    <3>1. PICK y \in twofactor : y.uuid = x.uuid /\ y.token = t /\ t # NoToken
      BY <2>1, <2>2
    <3>2. RowOK(y, owner) /\ y.token \in Tokens \cup {NoToken}
      BY <1>1, RowFields DEF Owned, RowOK
    <3>3. t \in Tokens \cap used /\ owner[t] = x.uuid
      BY <3>1, <3>2 DEF RowOK, CodeOK
    <3> QED
      BY <2>1, <2>2, <3>3
  <2> QED
    BY <2>1, <2>2
<1>12. Unique'
  <2>1. gone' \subseteq used' /\ spent' \subseteq used' \cap Tokens
    BY <1>4, <1>6, <1>8, <1>11 DEF IInv, Unique
  <2> QED
    BY <1>4, <1>6, <1>10, <2>1 DEF IInv, Unique
<1>13. StoredCounts'
  <2>1. \A y : Counts(y) => Counts(y)'
    BY <1>4, <1>7 DEF Counts
  <2>2. ASSUME NEW y \in twofactor, y.uuid # x.uuid, ~Counts(y)
        PROVE  \E o \in req' : y.token \in Held(o)
    <3>1. PICK s \in req : y.token \in Held(s)
      BY <2>2 DEF IInv, StoredCounts
    <3>2. CASE s.id # q.id
      BY <1>7, <3>1, <3>2 DEF Others
    <3>3. CASE s = q
      <4>1. y.token # NoToken /\ owner[y.token] = y.uuid
        BY <1>1, <3>1, Holds DEF Owned, RowOK, CodeOK
      <4>2. PICK z \in q.rows : z.token = y.token
        BY <1>2, <3>1, <3>3, Holds
      <4>3. z # x
        BY <1>8, <2>2, <4>1, <4>2 DEF RowOK, CodeOK
      <4>4. y.token \in Held(p)
        BY <1>9, <4>1, <4>2, <4>3
      <4>5. p.at # "done"
        BY <1>5, <4>2, <4>3 DEF Less
      <4> QED
        BY <1>7, <4>4, <4>5
    <3> QED
      BY <3>2, <3>3 DEF IInv, Unique
  <2> QED
    BY <1>6, <2>1, <2>2 DEF StoredCounts, Held
<1>14. DeletedStays'
  BY <1>6 DEF IInv, DeletedStays
<1>15. AttemptsCapped'
  BY <1>4, <1>7 DEF IInv, AttemptsCapped
<1>16. Owned(owner)'
  <2>1. Keeps(owner, owner) /\ twofactor' \subseteq twofactor
    BY <1>4, <1>6, <1>7 DEF Keeps
  <2>2. ASSUME NEW y \in twofactor' PROVE RowOK(y, owner)'
    <3>1. RowOK(y, owner) /\ y.uuid # x.uuid
      BY <1>1, <1>6 DEF Owned
    <3>2. ASSUME y.token \in spent' \ spent PROVE FALSE
      BY <1>11, <3>1, <3>2, Limit DEF RowOK, CodeOK
    <3> QED
      BY <2>1, <3>1, <3>2, RowKept
  <2>3. RequestOK(p, owner)'
    <3>1. ASSUME NEW t \in Held(p), t \in spent' \ spent PROVE FALSE
      <4>1. PICK z \in q.rows : z # x /\ z.token = t
        BY <1>5, Holds DEF Less
      <4>2. z.uuid = x.uuid
        BY <1>2, <1>11, <3>1, <4>1, Limit DEF RequestOK, CopyOK, RowOK, CodeOK
      <4> QED
        BY <1>2, <4>1, <4>2 DEF RequestOK
    <3>2. Held(p) \cap spent' \subseteq spent
      BY <3>1
    <3>3. \A y \in twofactor' : y.uuid # x.uuid
      BY <1>6
    <3> QED
      BY <1>1, <1>2, <1>5, <2>1, <3>2, <3>3, LessOK
  <2>4. ASSUME NEW o \in req, o.id # q.id PROVE RequestOK(o, owner)'
    <3>1. o \in Others(q)
      BY <2>4 DEF Others
    <3>2. Held(o) \cap spent' \subseteq spent
      BY <1>11, <3>1
    <3>3. ASSUME o.at = "save", NEW z \in o.rows, z.uuid \in gone' PROVE z.uuid \in gone
      BY <1>6, <3>3 DEF Savers
    <3> QED
      BY <1>1, <2>1, <3>2, <3>3, OthersKept
  <2> QED
    BY <1>10, <2>2, <2>3, <2>4 DEF Owned
<1> QED
  BY <1>1, <1>10, <1>12, <1>13, <1>14, <1>15, <1>16 DEF IInv

LEMMA AdminStep ==
    ASSUME IInv, admin_remove_2fa
    PROVE  IInv'
<1>1. PICK owner \in Owners : Owned(owner)
  BY DEF IInv
<1>2. /\ twofactor' = {} /\ UNCHANGED <<req, used, wrong, raced>>
      /\ gone' = gone \cup {u \in {x.uuid : x \in twofactor} : Savers(u) = {}}
      /\ spent' = spent \cup (({x.token : x \in twofactor} \ {NoToken})
                              \ (raced \cup UNION {Held(o) : o \in req}))
  BY DEF admin_remove_2fa, Deletes
<1>3. \A x \in twofactor : x.uuid \in used /\ (x.token # NoToken => x.token \in used \cap Tokens)
  BY <1>1, RowFields DEF Owned, RowOK, CodeOK
<1>4. Unique'
  <2>1. gone' \subseteq used' /\ spent' \subseteq used' \cap Tokens
    BY <1>2, <1>3 DEF IInv, Unique
  <2> QED
    BY <1>2, <2>1 DEF IInv, Unique
<1>5. HeldOnce' /\ StoredCounts' /\ DeletedStays' /\ AttemptsCapped'
  BY <1>2 DEF IInv, HeldOnce, StoredCounts, DeletedStays, AttemptsCapped, Held
<1>6. Owned(owner)'
  <2>1. Keeps(owner, owner)
    BY <1>2 DEF Keeps
  <2>2. ASSUME NEW o \in req PROVE RequestOK(o, owner)'
    <3>1. Held(o) \cap spent' \subseteq spent
      BY <1>2
    <3>2. ASSUME o.at = "save", NEW z \in o.rows, z.uuid \in gone' PROVE z.uuid \in gone
      BY <1>2, <3>2 DEF Savers
    <3> QED
      BY <1>1, <1>2, <2>1, <3>1, <3>2, OthersKept
  <2> QED
    BY <1>2, <2>2 DEF Owned
<1> QED
  BY <1>1, <1>4, <1>5, <1>6 DEF IInv

LEMMA FailStep ==
    ASSUME IInv, NEW q \in req, fail(q)
    PROVE  IInv'
<1>1. PICK owner \in Owners : Owned(owner)
  BY DEF IInv
<1>2. RequestOK(q, owner) /\ q \in Request
  BY <1>1 DEF Owned, RequestOK
<1>3. PICK p \in AfterFailure(q) : req' = Others(q) \cup {o \in {p} : o.at # "done"}
  BY DEF fail
<1>4. raced' = raced \cup Held(q) /\ UNCHANGED <<twofactor, used, gone, spent, wrong>>
  BY DEF fail
<1>5. Keeps(owner, owner)
  BY <1>4 DEF Keeps
<1>6. p.id = q.id /\ Held(p) \subseteq Held(q) /\ RequestOK(p, owner)'
  <2>1. ASSUME NEW at \in {"done", q.then}, at # "cleared", p = Goto(q, at)
        PROVE  p.id = q.id /\ Held(p) \subseteq Held(q) /\ RequestOK(p, owner)'
    BY <1>1, <2>1, WentOn
  <2>2. CASE q.at = "save"
    <3>1. p = Goto(q, q.then)
      BY <1>3, <2>2 DEF AfterFailure
    <3> QED
      BY <1>2, <2>1, <2>2, <3>1 DEF RequestOK
  <2>3. CASE q.at = "delete" /\ GoesOn(q)
    <3>1. PICK x \in q.rows :
             p = [ToDelete(q, q.rows \ {x}, q.then) EXCEPT !.touched = @ \cup {x.uuid}]
      BY <1>3, <2>3, Zenon DEF AfterFailure
    <3>2. Less(p, q, x) /\ x.uuid \in p.touched
      BY <1>2, <2>3, <3>1, LessShape, Zenon DEF RequestOK
    <3>3. Held(p) \subseteq Held(q)
      BY <3>2, LessHolds
    <3>4. Held(p) \cap spent' \subseteq spent /\ twofactor' \subseteq twofactor
      BY <1>4
    <3>5. RequestOK(p, owner)'
      BY <1>1, <1>5, <2>3, <3>2, <3>4, LessOK
    <3> QED
      BY <3>2, <3>3, <3>5 DEF Less
  <2>4. CASE q.at # "save" /\ ~(q.at = "delete" /\ GoesOn(q))
    <3>1. p = Goto(q, "done")
      BY <1>3, <2>4 DEF AfterFailure
    <3> QED
      BY <2>1, <3>1
  <2> QED
    BY <2>2, <2>3, <2>4
<1>7. /\ \A o \in req' : o = p \/ (o \in req /\ o.id # q.id)
      /\ \A o, s \in req' : o.id = s.id => o = s
      /\ HeldOnce'
  BY <1>3, <1>4, <1>6, FewerHeld
<1>8. Unique'
  BY <1>4, <1>7 DEF IInv, Unique
<1>9. StoredCounts'
  <2>1. ASSUME NEW x \in twofactor, ~(Counts(x)') PROVE \E o \in req' : x.token \in Held(o)
    <3>1. ~Counts(x) /\ x.token \notin Held(q)
      BY <1>4, <2>1 DEF Counts
    <3>2. PICK s \in req : x.token \in Held(s)
      BY <3>1 DEF IInv, StoredCounts
    <3>3. s.id # q.id
      BY <3>1, <3>2 DEF IInv, Unique
    <3> QED
      BY <1>3, <3>2, <3>3 DEF Others
  <2> QED
    BY <1>4, <2>1 DEF StoredCounts, Held
<1>10. DeletedStays' /\ AttemptsCapped'
  BY <1>4 DEF IInv, DeletedStays, AttemptsCapped
<1>11. Owned(owner)'
  <2>1. \A x \in twofactor' : RowOK(x, owner)'
    BY <1>1, <1>4, <1>5, RowKept DEF Owned
  <2>2. \A o \in req : RequestOK(o, owner)'
    BY <1>1, <1>4, <1>5, OthersKept
  <2> QED
    BY <1>6, <1>7, <2>1, <2>2 DEF Owned
<1> QED
  BY <1>1, <1>7, <1>8, <1>9, <1>10, <1>11 DEF IInv

-----------------------------------------------------------------------------
(* The invariant, and what follows from it. *)

LEMMA InitInv == Init => IInv
<1> SUFFICES ASSUME Init PROVE IInv
  OBVIOUS
<1>1. [t \in Tokens |-> NoToken] \in Owners
  BY DEF Owners
<1>2. \A owner : Owned(owner)
  BY DEF Init, Owned
<1>3. Unique
  BY Limit DEF Init, Unique
<1>4. HeldOnce /\ StoredCounts /\ DeletedStays /\ AttemptsCapped
  BY Limit DEF Init, HeldOnce, StoredCounts, DeletedStays, AttemptsCapped
<1> QED
  BY <1>1, <1>2, <1>3, <1>4 DEF IInv

LEMMA NextInv == IInv /\ [Next]_vars => IInv'
<1> SUFFICES ASSUME IInv, [Next]_vars PROVE IInv'
  OBVIOUS
<1>1. CASE Enrol
  <2>1. ASSUME NEW r \in Requests, NEW t \in Types, disable_method(r, t) PROVE IInv'
    BY <2>1, RemovalHandlers
  <2>2. ASSUME NEW r \in Requests,
               send_email_2fa(r) \/ request_otp(r) \/ recover(r) \/ recover_unread(r)
        PROVE  IInv'
    BY <2>2, RemovalHandlers, UnreadStep
  <2>3. ASSUME NEW r \in Requests, NEW k \in Keys,
               activate_webauthn(r, k) \/ rename_webauthn(r, k) \/ delete_webauthn(r, k)
        PROVE  IInv'
    BY <2>3, RemovalHandlers, WebauthnHandlers
  <2> QED
    BY <1>1, <2>1, <2>2, <2>3, EnrolStep, EmailActivation, OtpCheck, AdminStep DEF Enrol
<1>2. CASE Login
  BY <1>2, LoginStep
<1>3. ASSUME NEW q \in req, Proceed(q) PROVE IInv'
  <2>1. ASSUME \/ find_challenge(q) \/ recovered(q) \/ verify_login(q) \/ no_login_code(q)
               \/ check_remember_token(q) \/ find_factors(q)
               \/ \E t \in Tokens : send_login_token(q, t)
        PROVE  IInv'
    BY <2>1, ReadStep
  <2> QED
    BY <1>3, <2>1, CredentialsStep, EmailCheck, IssueStep, PostStep, SaveStep, DeleteStep, FailStep
       DEF Proceed
<1>4. CASE UNCHANGED vars
  <2>1. UNCHANGED <<twofactor, req, used, gone, spent, wrong, raced>>
    BY <1>4 DEF vars, history
  <2>2. PICK owner \in Owners : Owned(owner)
    BY DEF IInv
  <2>3. Keeps(owner, owner)
    BY <2>1 DEF Keeps
  <2>4. Unique' /\ DeletedStays' /\ AttemptsCapped'
    BY <2>1 DEF IInv, Unique, DeletedStays, AttemptsCapped
  <2>5. HeldOnce' /\ StoredCounts'
    BY <2>1 DEF IInv, HeldOnce, StoredCounts, Counts, Held
  <2>6. \A x \in twofactor' : RowOK(x, owner)'
    BY <2>1, <2>2, <2>3, RowKept DEF Owned
  <2>7. \A q \in req' : RequestOK(q, owner)'
    BY <2>1, <2>2, <2>3, OthersKept
  <2>8. Owned(owner)'
    BY <2>6, <2>7 DEF Owned
  <2> QED
    BY <2>2, <2>4, <2>5, <2>8 DEF IInv
<1> QED
  BY <1>1, <1>2, <1>3, <1>4 DEF Next

\* For any uuids, codes, devices, keys and requests: the invariant holds.
THEOREM Invariance == Spec => []IInv
<1> QED
  BY InitInv, NextInv, PTL DEF Spec

\* For any uuids, codes, devices, keys and requests: the rows are well formed,
\* one per uuid and one per type.
THEOREM TypeCorrect == Spec => []TypeOK
<1>1. IInv => TypeOK
  BY DEF IInv, Unique, Owned, RowOK, RequestOK, CopyOK, TypeOK
<1> QED
  BY <1>1, Invariance, PTL

\* For any codes, requests and limit of attempts: a code that was accepted,
\* replaced or withdrawn is never stored again, and none is guessed at beyond the
\* limit, unless two requests held its row at once.
THEOREM CodesAlwaysHold == Spec => []CodesHold
<1>1. IInv => CodesHold
  BY Limit DEF IInv, Unique, Owned, RowOK, CodeOK, CodesHold, CodesSpent
<1> QED
  BY <1>1, Invariance, PTL

\* For any factors and requests: a factor that was deleted while no request was
\* about to save it never comes back, and a recovery leaves none behind but those
\* that were written after their turn and those it could not read or delete.
THEOREM FactorsStayRemoved == Spec => []FactorsRemoved
<1>1. ASSUME IInv PROVE FactorsRemoved
  <2>1. PICK owner \in Owners : Owned(owner)
    BY <1>1 DEF IInv
  <2>2. ASSUME NEW q \in req, q.at = "cleared", NEW x \in twofactor PROVE x.uuid \in q.touched
    <3>1. RequestOK(q, owner) /\ q.rows = {}
      BY <2>1, <2>2 DEF Owned, RequestOK, Places
    <3> QED
      BY <2>2, <3>1 DEF RequestOK, Clears
  <2> QED
    BY <1>1, <2>2 DEF IInv, FactorsRemoved, RecoverClears
<1> QED
  BY <1>1, Invariance, PTL
=============================================================================
