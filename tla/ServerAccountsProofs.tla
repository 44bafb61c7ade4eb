------------------------ MODULE ServerAccountsProofs ------------------------
(* Proofs about ServerAccounts, for any number of devices and of requests in *)
(* flight and any number of random values: what was rotated away stays away, *)
(* and a disabled account is shut out.                                       *)
EXTENDS ServerAccounts, TLAPS

-----------------------------------------------------------------------------
(* The inductive invariant. *)

\* What a request holds: a copy of the users row that it works on, or that it
\* has still to sign devices out for; a refresh token; or neither.
Resets == {"reset", "sweep", "disable"}
ServerRow == [enabled : BOOLEAN, stamp : Nat, secret : Nat, exc : Nat]
Works == [id : Requests, at : {"first", "rotate", "save", "last"},
          op : Resets \cup {"save", "enable"}, row : ServerRow]
Rotates == [id : Requests, at : {"rotating"}, op : Resets, row : ServerRow,
            left : SUBSET Devices]
Pushes == [id : Requests, at : {"push", "refresh", "reread"}, dev : Devices, tok : Nat]
LogsIn == [id : Requests, at : {"create", "login", "refreshed"}, dev : Devices, stamp : Nat,
           tok : Nat]
Looks == [id : Requests, at : {"find"}, dev : Devices]
Asks == [id : Requests, at : {"user", "get_device"}, dev : Devices, stamp : Nat]

ServerRequest == Works \cup Rotates \cup Pushes \cup LogsIn \cup Looks \cup Asks

Tokens == HoldsToken \cup {"create"}
Rotation == {"first", "rotate", "rotating"}

\* Values are generated before they are stored, and once.
Within(u, n) == 0 < u.stamp /\ u.stamp <= n /\ u.secret <= n

RequestWithin(q, n) ==
    /\ q.at \in HoldsRow => Within(q.row, n)
    /\ q.at \in Tokens => q.tok <= n
    /\ q \in Works /\ q.at \in {"first", "rotate"} => q.op \in Resets
    /\ q \in Works \cup Rotates /\ q.op = "disable" => ~q.row.enabled

ServerTyped ==
    /\ fresh \in Nat
    /\ user \in ServerRow /\ Within(user, fresh)
    /\ device \in [Devices -> Nat]
    /\ \A d \in Devices : device[d] <= fresh
    /\ access \subseteq [device : Devices, stamp : Nat]
    /\ \A q \in req : q \in ServerRequest /\ RequestWithin(q, fresh)
    /\ \A c \in Columns, v \in Nat : <<c, v>> \in goneUser => v <= fresh
    /\ \A d \in Devices, v \in Nat : <<d, v>> \in goneToken => 0 < v /\ v <= fresh

\* Neither the row nor a copy of it has a value that was rotated away.
KeptUser(u) == \A c \in Columns : <<c, u[c]>> \notin goneUser

UserGone == KeptUser(user) /\ \A q \in req : q.at \in HoldsRow => KeptUser(q.row)

\* Neither a device nor a request has a refresh token that is gone, and no
\* request is about to give one to a device.
KeptTokens(q) ==
    /\ q.at \in Tokens => <<q.dev, q.tok>> \notin goneToken
    /\ q.at \in Rotation => \A d \in Devices : <<d, q.row.stamp>> \notin goneToken

TokenGone ==
    /\ \A d \in Devices : <<d, device[d]>> \notin goneToken
    /\ \A q \in req : KeptTokens(q)

\* Until deauth_user has deleted the devices, its new stamp is nowhere else.
Elsewhere(p, v) == (p.at \in Tokens => p.tok # v) /\ (p.at \in Rotation => p.row.stamp # v)

StampNew ==
    \A q \in req : q.at = "first" =>
        /\ \A d \in Devices : device[d] # q.row.stamp
        /\ \A p \in req \ {q} : Elsewhere(p, q.row.stamp)

\* A request that has reset the stamp has signed in anew every device that it
\* is past, unless an older token was written back meanwhile.
Settled(d, v) == device[d] = 0 \/ device[d] >= v \/ <<d, device[d]>> \in raced

Rotated(q) ==
    /\ q \in Rotates => \A d \in Devices \ q.left : Settled(d, q.row.stamp)
    /\ q \in Works /\ q.at = "save" /\ q.op \in Resets =>
          \A d \in Devices : Settled(d, q.row.stamp)

AllRotated == \A q \in req : Rotated(q)

\* An account that was disabled alone has no device, and all that is on its way
\* is an administrator's, or keeps it disabled.
Harmless(q) == q \in Works /\ (q.op = "enable" \/ ~q.row.enabled)

ShutOut ==
    ban = "quiet" => /\ ~user.enabled
                     /\ \A d \in Devices : device[d] = 0
                     /\ \A q \in req : Harmless(q)

AccountInv == ServerTyped /\ UserGone /\ TokenGone /\ StampNew /\ AllRotated /\ ShutOut

\* Where a request is tells what it holds.
LEMMA RequestForm ==
    ASSUME NEW q \in ServerRequest
    PROVE  /\ q.at \in {"first", "rotate", "save", "last"} => q \in Works
           /\ q.at = "rotating" => q \in Rotates
           /\ q.at \in {"push", "refresh", "reread"} => q \in Pushes
           /\ q.at \in {"create", "login", "refreshed"} => q \in LogsIn
           /\ q.at = "find" => q \in Looks
           /\ q.at \in {"user", "get_device"} => q \in Asks
  BY DEF ServerRequest, Works, Rotates, Pushes, LogsIn, Looks, Asks

\* What the forms have in common.
LEMMA HeldValues ==
    ASSUME NEW q \in ServerRequest
    PROVE  /\ q.at \in HoldsRow => q.row \in ServerRow /\ q.row.stamp \in Nat /\ q.row.secret \in Nat
           /\ q.at \in Tokens => q.dev \in Devices /\ q.tok \in Nat
  BY DEF ServerRequest, Works, Rotates, Pushes, LogsIn, Looks, Asks, HoldsRow, HoldsToken,
         Tokens, ServerRow

\* Requests that only end keep the invariant, also when values are generated.
LEMMA AccountEnds ==
    ASSUME AccountInv, req' \subseteq req, fresh' \in Nat, fresh <= fresh',
           UNCHANGED <<user, device, access, goneUser, goneToken, raced, ban>>
    PROVE  AccountInv'
<1>1. ASSUME NEW q \in req' PROVE RequestWithin(q, fresh')
  BY <1>1, HeldValues DEF AccountInv, ServerTyped, RequestWithin, Within
<1>2. ServerTyped'
  BY <1>1 DEF AccountInv, ServerTyped, Within, ServerRow
<1>3. UserGone' /\ TokenGone'
  BY DEF AccountInv, UserGone, KeptUser, TokenGone, KeptTokens
<1>4. StampNew' /\ AllRotated'
  BY DEF AccountInv, StampNew, Elsewhere, AllRotated, Rotated, Settled
<1>5. ShutOut'
  BY DEF AccountInv, ShutOut, Harmless
<1> QED
  BY <1>2, <1>3, <1>4, <1>5 DEF AccountInv

\* A request that comes, or goes on, with a copy that may be held keeps the
\* invariant.
LEMMA AccountArrives ==
    ASSUME AccountInv, NEW p \in ServerRequest, req' \subseteq req \cup {p},
           fresh' \in Nat, fresh <= fresh',
           UNCHANGED <<user, device, access, goneUser, goneToken, raced, ban>>,
           RequestWithin(p, fresh'),
           p.at \in HoldsRow => KeptUser(p.row),
           KeptTokens(p),
           p.at = "first" => p.row.stamp > fresh,
           \A q \in req' : q.at = "first" /\ q # p => Elsewhere(p, q.row.stamp),
           Rotated(p),
           ban = "quiet" => Harmless(p)
    PROVE  AccountInv'
<1>1. ASSUME NEW q \in req' PROVE q \in ServerRequest /\ RequestWithin(q, fresh')
  <2>1. CASE q = p
    BY <2>1
  <2>2. CASE q \in req
    BY <2>2, HeldValues DEF AccountInv, ServerTyped, RequestWithin, Within
  <2> QED
    BY <1>1, <2>1, <2>2
<1>2. ServerTyped'
  BY <1>1 DEF AccountInv, ServerTyped, Within, ServerRow
<1>3. UserGone' /\ TokenGone'
  BY DEF AccountInv, UserGone, KeptUser, TokenGone, KeptTokens
<1>4. StampNew'
  <2> SUFFICES ASSUME NEW q \in req', q.at = "first"
               PROVE  /\ \A d \in Devices : device[d] # q.row.stamp
                      /\ \A x \in req' \ {q} : Elsewhere(x, q.row.stamp)
    BY DEF StampNew, Elsewhere
  <2>1. CASE q # p
    BY <2>1 DEF AccountInv, StampNew
  <2>2. CASE q = p
    <3>1. q.row.stamp \in Nat /\ q.row.stamp > fresh
      BY <2>2, HeldValues DEF HoldsRow
    <3>2. \A d \in Devices : device[d] # q.row.stamp
      BY <3>1 DEF AccountInv, ServerTyped
    <3>3. ASSUME NEW x \in req' \ {q} PROVE Elsewhere(x, q.row.stamp)
      <4>1. x \in req /\ x \in ServerRequest /\ RequestWithin(x, fresh)
        BY <2>2 DEF AccountInv, ServerTyped
      <4>2. x.at \in Tokens => x.tok \in Nat /\ x.tok <= fresh
        BY <4>1, HeldValues DEF RequestWithin
      <4>3. x.at \in Rotation => x.row.stamp \in Nat /\ x.row.stamp <= fresh
        BY <4>1, HeldValues DEF RequestWithin, Within, Rotation, HoldsRow
      <4> QED
        BY <3>1, <4>2, <4>3 DEF Elsewhere, AccountInv, ServerTyped
    <3> QED
      BY <3>2, <3>3
  <2> QED
    BY <2>1, <2>2
<1>5. AllRotated'
  BY DEF AccountInv, AllRotated, Rotated, Settled
<1>6. ShutOut'
  BY DEF AccountInv, ShutOut, Harmless
<1> QED
  BY <1>2, <1>3, <1>4, <1>5, <1>6 DEF AccountInv

\* Work on a copy of the row in which the secret may be new.
LEMMA CopyArrives ==
    ASSUME AccountInv, NEW id \in Requests, NEW op \in {"save", "enable"}, NEW u \in ServerRow,
           req' \subseteq req \cup {Work(id, "save", op, u)},
           UNCHANGED <<user, device, access, goneUser, goneToken, raced, ban>>,
           u.stamp = user.stamp,
           \/ u.secret = user.secret /\ fresh' = fresh
           \/ u.secret = fresh + 1 /\ fresh' = fresh + 1,
           ban = "quiet" => op = "enable" \/ ~u.enabled
    PROVE  AccountInv'
<1> DEFINE p == Work(id, "save", op, u)
<1>1. p \in Works /\ p.at = "save" /\ p.op = op /\ p.row = u
  BY DEF Work, Works
<1> HIDE DEF p
<1>2. fresh \in Nat /\ fresh' \in Nat /\ fresh <= fresh' /\ Within(user, fresh)
      /\ user \in ServerRow
  BY DEF AccountInv, ServerTyped
<1>3. Within(u, fresh')
  BY <1>2 DEF Within, ServerRow
<1>4. KeptUser(u)
  <2>1. <<"stamp", u["stamp"]>> \notin goneUser
    BY DEF AccountInv, UserGone, KeptUser, Columns
  <2>2. <<"secret", u["secret"]>> \notin goneUser
    BY <1>2 DEF AccountInv, UserGone, KeptUser, Columns, ServerTyped
  <2> QED
    BY <2>1, <2>2 DEF KeptUser, Columns
<1>5. RequestWithin(p, fresh')
  BY <1>1, <1>3 DEF RequestWithin, HoldsToken, Tokens, Rotates
<1>6. KeptTokens(p) /\ Rotated(p) /\ \A v : Elsewhere(p, v)
  BY <1>1 DEF KeptTokens, Rotated, Elsewhere, Tokens, Rotation, HoldsToken, Rotates, Resets
<1>7. ban = "quiet" => Harmless(p)
  BY <1>1 DEF Harmless
<1>8. p \in ServerRequest
  BY <1>1 DEF ServerRequest
<1>9. p.at # "first"
  BY <1>1
<1> QED
  BY <1>1, <1>2, <1>4, <1>5, <1>6, <1>7, <1>8, <1>9, AccountArrives DEF p

\* Work on a copy of the row with a new stamp.
LEMMA ResetArrives ==
    ASSUME AccountInv, NEW id \in Requests, NEW at \in {"first", "rotate"}, NEW op \in Resets,
           NEW u \in ServerRow,
           req' \subseteq req \cup {Work(id, at, op, u)},
           UNCHANGED <<user, device, access, goneUser, goneToken, raced, ban>>,
           fresh' = fresh + 1, u.stamp = fresh + 1,
           u.secret \in {user.secret, fresh + 1},
           op = "disable" => ~u.enabled,
           ban = "quiet" => ~u.enabled
    PROVE  AccountInv'
<1> DEFINE p == Work(id, at, op, u)
<1>1. p \in Works /\ p.at = at /\ p.op = op /\ p.row = u
  BY DEF Work, Works
<1> HIDE DEF p
<1>2. fresh \in Nat /\ fresh' \in Nat /\ fresh <= fresh' /\ Within(user, fresh)
      /\ user \in ServerRow
  BY DEF AccountInv, ServerTyped
<1>3. Within(u, fresh') /\ u.stamp > fresh
  BY <1>2 DEF Within, ServerRow
<1>4. KeptUser(u)
  <2>1. <<"stamp", u["stamp"]>> \notin goneUser
    BY <1>2 DEF AccountInv, Columns, ServerTyped
  <2>2. <<"secret", u["secret"]>> \notin goneUser
    BY <1>2 DEF AccountInv, UserGone, KeptUser, Columns, ServerTyped
  <2> QED
    BY <2>1, <2>2 DEF KeptUser, Columns
<1>5. RequestWithin(p, fresh')
  BY <1>1, <1>3 DEF RequestWithin, HoldsToken, Tokens, Rotates
<1>6. KeptTokens(p)
  BY <1>1, <1>2, <1>3 DEF KeptTokens, AccountInv, ServerTyped, Tokens, HoldsToken
<1>7. Rotated(p)
  BY <1>1 DEF Rotated, Rotates
<1>8. ASSUME NEW q \in req', q.at = "first", q # p PROVE Elsewhere(p, q.row.stamp)
  <2>1. q \in req /\ q \in ServerRequest /\ Within(q.row, fresh)
    BY <1>8 DEF AccountInv, ServerTyped, RequestWithin, HoldsRow, p
  <2>2. q.row.stamp \in Nat /\ q.row.stamp <= fresh
    BY <1>8, <2>1, HeldValues DEF Within, HoldsRow
  <2> QED
    BY <1>1, <1>2, <1>3, <2>2 DEF Elsewhere, Tokens, HoldsToken
<1>9. ban = "quiet" => Harmless(p)
  BY <1>1 DEF Harmless
<1>10. p \in ServerRequest
  BY <1>1 DEF ServerRequest
<1> QED
  BY <1>1, <1>2, <1>3, <1>4, <1>5, <1>6, <1>7, <1>8, <1>9, <1>10, AccountArrives DEF p

\* A request that holds a refresh token, or nothing, and no users row.
LEMMA TokenArrives ==
    ASSUME AccountInv, NEW p \in Pushes \cup LogsIn \cup Looks \cup Asks,
           req' \subseteq req \cup {p},
           fresh' \in Nat, fresh <= fresh',
           UNCHANGED <<user, device, access, goneUser, goneToken, raced, ban>>,
           ban # "quiet",
           p.at \in Tokens =>
              /\ p.tok <= fresh'
              /\ \/ p.tok = device[p.dev]
                 \/ p.tok = fresh + 1
                 \/ \E q \in req : q.at \in Tokens /\ q.dev = p.dev /\ q.tok = p.tok
    PROVE  AccountInv'
<1>1. /\ p \in ServerRequest /\ p.at \notin HoldsRow /\ p.at \notin Rotation
      /\ p \notin Works \cup Rotates
      /\ p.at \in Tokens => p.dev \in Devices /\ p.tok \in Nat
  BY DEF ServerRequest, Pushes, LogsIn, Looks, Asks, HoldsRow, Rotation, Works, Rotates, Tokens,
         HoldsToken
<1>2. RequestWithin(p, fresh')
  BY <1>1 DEF RequestWithin
<1>3. KeptTokens(p)
  BY <1>1 DEF KeptTokens, AccountInv, TokenGone, ServerTyped
<1>4. ASSUME NEW q \in req', q.at = "first", q # p PROVE Elsewhere(p, q.row.stamp)
  <2>1. q \in req /\ q \in ServerRequest /\ Within(q.row, fresh) /\ fresh \in Nat
    BY <1>4 DEF AccountInv, ServerTyped, RequestWithin, HoldsRow
  <2>2. q.row.stamp \in Nat /\ q.row.stamp <= fresh
    BY <1>4, <2>1, HeldValues DEF Within, HoldsRow
  <2>3. /\ \A d \in Devices : device[d] # q.row.stamp
        /\ \A x \in req : x.at \in Tokens => x.tok # q.row.stamp
    BY <1>4, <2>1 DEF AccountInv, StampNew, Elsewhere, Tokens, HoldsToken
  <2> QED
    BY <1>1, <2>1, <2>2, <2>3 DEF Elsewhere
<1>5. Rotated(p)
  BY <1>1 DEF Rotated
<1>6. p.at # "first"
  BY <1>1 DEF HoldsRow
<1> QED
  BY <1>1, <1>2, <1>3, <1>4, <1>5, <1>6, AccountArrives

\* What the handlers make of the row that they have read.
LEMMA RowStamped ==
    ASSUME NEW u \in ServerRow, fresh \in Nat
    PROVE  /\ reset_security_stamp(u) \in ServerRow
           /\ reset_security_stamp(u).stamp = fresh + 1
           /\ reset_security_stamp(u).secret = u.secret
           /\ reset_security_stamp(u).enabled = u.enabled
  BY DEF reset_security_stamp, ServerRow

LEMMA RowSecret ==
    ASSUME NEW u \in ServerRow, NEW n \in Nat
    PROVE  /\ [u EXCEPT !.secret = n] \in ServerRow
           /\ [u EXCEPT !.secret = n].stamp = u.stamp
           /\ [u EXCEPT !.secret = n].secret = n
           /\ [u EXCEPT !.secret = n].enabled = u.enabled
  BY DEF ServerRow

LEMMA RowException ==
    ASSUME NEW u \in ServerRow, NEW n \in Nat
    PROVE  /\ [u EXCEPT !.exc = n] \in ServerRow
           /\ [u EXCEPT !.exc = n].stamp = u.stamp
           /\ [u EXCEPT !.exc = n].secret = u.secret
           /\ [u EXCEPT !.exc = n].enabled = u.enabled
  BY DEF ServerRow

LEMMA RowEnabled ==
    ASSUME NEW u \in ServerRow, NEW b \in BOOLEAN
    PROVE  /\ [u EXCEPT !.enabled = b] \in ServerRow
           /\ [u EXCEPT !.enabled = b].stamp = u.stamp
           /\ [u EXCEPT !.enabled = b].secret = u.secret
           /\ [u EXCEPT !.enabled = b].enabled = b
  BY DEF ServerRow

LEMMA RowPassword ==
    ASSUME NEW u \in ServerRow, fresh \in Nat
    PROVE  /\ set_password(u) \in ServerRow
           /\ set_password(u).stamp = fresh + 1
           /\ set_password(u).secret = fresh + 1
           /\ set_password(u).enabled = u.enabled
<1> DEFINE w == reset_security_stamp(u)
<1>1. w \in ServerRow /\ w.stamp = fresh + 1 /\ w.enabled = u.enabled
  BY RowStamped
<1>2. fresh + 1 \in Nat /\ set_password(u) = [w EXCEPT !.secret = fresh + 1]
  BY DEF set_password
<1> HIDE DEF w
<1> QED
  BY <1>1, <1>2, RowSecret

\* A request that is begun, or that fails at once, keeps the invariant.
LEMMA AccountBegin ==
    ASSUME AccountInv, NEW r \in Requests, Begin(r)
    PROVE  AccountInv'
<1>1. fresh \in Nat /\ user \in ServerRow /\ device \in [Devices -> Nat]
      /\ access \subseteq [device : Devices, stamp : Nat]
  BY DEF AccountInv, ServerTyped
<1>2. user.stamp \in Nat /\ user.secret \in Nat /\ fresh + 1 \in Nat
  BY <1>1 DEF ServerRow
<1>3. ban = "quiet" => ~user.enabled /\ \A d \in Devices : device[d] = 0
  BY DEF AccountInv, ShutOut
<1>4. ASSUME NEW a \in access, guard_device(r, a) PROVE AccountInv'
  <2> DEFINE p == [id |-> r, at |-> "user", dev |-> a.device, stamp |-> a.stamp]
  <2>1. a.device \in Devices /\ p \in Asks /\ p.at \notin Tokens
    BY <1>1 DEF Asks, Tokens, HoldsToken
  <2>2. ban # "quiet"
    BY <1>3, <1>4, <2>1 DEF guard_device, None
  <2>3. /\ req' = req \cup {p} /\ fresh' = fresh
        /\ UNCHANGED <<user, device, access, goneUser, goneToken, raced, ban>>
    BY <1>4 DEF guard_device, Start, Tables, History
  <2> HIDE DEF p
  <2> QED
    BY <1>1, <2>1, <2>2, <2>3, TokenArrives
<1>5. ASSUME Load(r, "save", "save", user), UNCHANGED fresh PROVE AccountInv'
  BY <1>1, <1>3, <1>5, CopyArrives DEF Load, Start, Tables, History
<1>6. ASSUME Load(r, "rotate", "reset", set_password(user)), Generate PROVE AccountInv'
  <2> DEFINE u == set_password(user)
  <2>1. u \in ServerRow /\ u.stamp = fresh + 1 /\ u.secret = fresh + 1
        /\ u.enabled = user.enabled
    BY <1>1, RowPassword
  <2>2. req' = req \cup {Work(r, "rotate", "reset", u)} /\ fresh' = fresh + 1
        /\ UNCHANGED <<user, device, access, goneUser, goneToken, raced, ban>>
    BY <1>6 DEF Load, Start, Tables, History, Generate
  <2> HIDE DEF u
  <2> QED
    BY <1>3, <2>1, <2>2, ResetArrives DEF Resets
<1>7. CASE deauth_user(r)
  <2> DEFINE u == reset_security_stamp(user)
  <2>1. u \in ServerRow /\ u.stamp = fresh + 1 /\ u.secret = user.secret
        /\ u.enabled = user.enabled
    BY <1>1, RowStamped
  <2>2. req' = req \cup {Work(r, "first", "reset", u)} /\ fresh' = fresh + 1
        /\ UNCHANGED <<user, device, access, goneUser, goneToken, raced, ban>>
    BY <1>7 DEF deauth_user, Load, Start, Tables, History, Generate
  <2> HIDE DEF u
  <2> QED
    BY <1>3, <2>1, <2>2, ResetArrives DEF Resets
<1>8. CASE disable_user(r)
  <2> DEFINE v == reset_security_stamp(user)
             u == [v EXCEPT !.enabled = FALSE]
  <2>1. v \in ServerRow /\ v.stamp = fresh + 1 /\ v.secret = user.secret
    BY <1>1, RowStamped
  <2>2. req' = req \cup {Work(r, "rotate", "disable", u)} /\ fresh' = fresh + 1
        /\ UNCHANGED <<user, device, access, goneUser, goneToken, raced, ban>>
    BY <1>8 DEF disable_user, Load, Start, Tables, History, Generate
  <2> HIDE DEF v
  <2>3. u \in ServerRow /\ u.stamp = v.stamp /\ u.secret = v.secret /\ u.enabled = FALSE
    BY <2>1, RowEnabled, Zenon
  <2> HIDE DEF u
  <2> QED
    BY <2>1, <2>2, <2>3, ResetArrives DEF Resets
<1>9. CASE enable_user(r)
  <2> DEFINE u == [user EXCEPT !.enabled = TRUE]
  <2>1. u \in ServerRow /\ u.stamp = user.stamp /\ u.secret = user.secret
    BY <1>1, RowEnabled, Zenon
  <2>2. req' = req \cup {Work(r, "save", "enable", u)} /\ fresh' = fresh
        /\ UNCHANGED <<user, device, access, goneUser, goneToken, raced, ban>>
    BY <1>9 DEF enable_user, Load, Start, Tables, History
  <2> HIDE DEF u
  <2> QED
    BY <2>1, <2>2, CopyArrives
<1>10. ASSUME NEW d \in Devices, Login(r, d) PROVE AccountInv'
  <2> DEFINE p == [id |-> r, at |-> "get_device", dev |-> d, stamp |-> user.stamp]
  <2>1. p \in Asks /\ p.at \notin Tokens
    BY <1>2 DEF Asks, Tokens, HoldsToken
  <2>2. ban # "quiet"
    BY <1>3, <1>10 DEF Login
  <2>3. /\ req' = req \cup {p} /\ fresh' = fresh
        /\ UNCHANGED <<user, device, access, goneUser, goneToken, raced, ban>>
    BY <1>10 DEF Login, Start, Tables, History
  <2> HIDE DEF p
  <2> QED
    BY <1>1, <2>1, <2>2, <2>3, TokenArrives
<1>11. ASSUME NEW d \in Devices, refresh_tokens(r, d) PROVE AccountInv'
  <2> DEFINE p == [id |-> r, at |-> "refresh", dev |-> d, tok |-> device[d]]
  <2>1. p \in Pushes /\ p.dev = d /\ p.tok = device[d] /\ p.tok <= fresh
    BY <1>1 DEF Pushes, AccountInv, ServerTyped
  <2>2. ban # "quiet"
    BY <1>3, <1>11 DEF refresh_tokens, None
  <2>3. /\ req' = req \cup {p} /\ fresh' = fresh
        /\ UNCHANGED <<user, device, access, goneUser, goneToken, raced, ban>>
    BY <1>11 DEF refresh_tokens, Start, Tables, History
  <2> HIDE DEF p
  <2> QED
    BY <1>1, <2>1, <2>2, <2>3, TokenArrives
<1> QED
  BY <1>4, <1>5, <1>6, <1>7, <1>8, <1>9, <1>10, <1>11
     DEF Begin, post_verify_email_token, remove_2fa, put_reset_password,
         password_emergency_access, kdf_upgrade, verify_reminder,
         password_login, user_api_key_login, sso_login

\* The handlers behind the guard, which has found the device and reads the user.
LEMMA AccountHandle ==
    ASSUME AccountInv, NEW q \in req, q.at = "user", Handle(q)
    PROVE  AccountInv'
<1>1. fresh \in Nat /\ user \in ServerRow /\ q \in ServerRequest
  BY DEF AccountInv, ServerTyped
<1>2. q.id \in Requests /\ q.dev \in Devices
  BY <1>1, RequestForm DEF Asks
<1>3. ban # "quiet"
  BY DEF AccountInv, ShutOut, Harmless, Works
<1>4. user.stamp \in Nat /\ 0 \in Nat /\ fresh + 1 \in Nat
  BY <1>1 DEF ServerRow
<1>5. CASE guard_refused(q)
  BY <1>1, <1>5, AccountEnds DEF guard_refused, Finish, Tables, History
<1>6. CASE guard_expired(q)
  <2> DEFINE u == [user EXCEPT !.exc = 0]
  <2>1. u \in ServerRow /\ u.stamp = user.stamp /\ u.secret = user.secret
    BY <1>1, <1>4, RowException
  <2>2. req' = (req \ {q}) \cup {Work(q.id, "save", "save", u)} /\ fresh' = fresh
        /\ UNCHANGED <<user, device, access, goneUser, goneToken, raced, ban>>
    BY <1>6 DEF guard_expired, Continue, Tables, History, Work, None
  <2> HIDE DEF u
  <2> QED
    BY <1>2, <1>3, <2>1, <2>2, CopyArrives
<1>7. ASSUME Edit(q, user), UNCHANGED fresh PROVE AccountInv'
  BY <1>1, <1>2, <1>3, <1>7, CopyArrives DEF Edit, Continue, Tables, History
<1>8. CASE update_api_key(q)
  <2> DEFINE u == [user EXCEPT !.secret = fresh + 1]
  <2>1. u \in ServerRow /\ u.stamp = user.stamp /\ u.secret = fresh + 1
    BY <1>1, <1>4, RowSecret
  <2>2. req' = (req \ {q}) \cup {Work(q.id, "save", "save", u)} /\ fresh' = fresh + 1
        /\ UNCHANGED <<user, device, access, goneUser, goneToken, raced, ban>>
    BY <1>8 DEF update_api_key, Edit, Continue, Tables, History, Generate
  <2> HIDE DEF u
  <2> QED
    BY <1>2, <1>3, <2>1, <2>2, CopyArrives
<1>9. ASSUME NEW route, NEW op \in {"reset", "sweep"}, NEW u \in ServerRow, Reset(q, route, op, u),
             u.stamp = fresh + 1, u.secret \in {user.secret, fresh + 1}
      PROVE  AccountInv'
  BY <1>2, <1>3, <1>9, ResetArrives
     DEF Resets, Reset, Generate, Continue, Tables, History
<1>10. CASE post_password(q)
  <2> DEFINE v == set_password(user)
             u == [v EXCEPT !.exc = user.stamp]
  <2>1. v \in ServerRow /\ v.stamp = fresh + 1 /\ v.secret = fresh + 1
    BY <1>1, RowPassword
  <2>2. Reset(q, "post_password", "reset", u)
    BY <1>10 DEF post_password, set_stamp_exception
  <2> HIDE DEF v
  <2>3. u \in ServerRow /\ u.stamp = v.stamp /\ u.secret = v.secret
    BY <1>4, <2>1, RowException
  <2> HIDE DEF u
  <2> QED
    BY <1>9, <2>1, <2>2, <2>3
<1>11. CASE post_kdf(q) \/ post_email(q) \/ post_rotatekey(q)
  <2> DEFINE u == set_password(user)
  <2>1. u \in ServerRow /\ u.stamp = fresh + 1 /\ u.secret = fresh + 1
    BY <1>1, RowPassword
  <2>2. \E route \in {"post_kdf", "post_email", "post_rotatekey"} : Reset(q, route, "reset", u)
    BY <1>11 DEF post_kdf, post_email, post_rotatekey
  <2> HIDE DEF u
  <2> QED
    BY <1>9, <2>1, <2>2
<1>12. CASE post_sstamp(q)
  <2> DEFINE u == reset_security_stamp(user)
  <2>1. u \in ServerRow /\ u.stamp = fresh + 1 /\ u.secret = user.secret
    BY <1>1, RowStamped
  <2>2. Reset(q, "post_sstamp", "sweep", u)
    BY <1>12 DEF post_sstamp
  <2> HIDE DEF u
  <2> QED
    BY <1>9, <2>1, <2>2
<1>13. CASE put_device_token(q)
  <2> DEFINE p == [id |-> q.id, at |-> "find", dev |-> q.dev]
  <2>1. p \in Looks /\ p.at \notin Tokens
    BY <1>2 DEF Looks, Tokens, HoldsToken
  <2>2. /\ req' = (req \ {q}) \cup {p} /\ fresh' = fresh
        /\ UNCHANGED <<user, device, access, goneUser, goneToken, raced, ban>>
    BY <1>13 DEF put_device_token, Continue, Tables, History
  <2> HIDE DEF p
  <2> QED
    BY <1>1, <1>3, <2>1, <2>2, TokenArrives
<1> QED
  BY <1>5, <1>6, <1>7, <1>8, <1>10, <1>11, <1>12, <1>13
     DEF Handle, post_profile, put_avatar, post_keys, post_settings_domains,
         post_email_token, generate_recover_code, verify_password

\* A copy of the row goes to another statement.
LEMMA WorkMoves ==
    ASSUME NEW q \in Works, NEW a \in {"first", "rotate", "save", "last"}
    PROVE  /\ [q EXCEPT !.at = a] \in Works
           /\ [q EXCEPT !.at = a].at = a
           /\ [q EXCEPT !.at = a].op = q.op
           /\ [q EXCEPT !.at = a].row = q.row
  BY DEF Works

\* The statements that only read, and those that fail.
LEMMA AccountReads ==
    ASSUME AccountInv, NEW q \in req,
           \/ rotate_find(q) \/ find(q) \/ get_device(q) \/ refresh_user(q) \/ fail(q)
    PROVE  AccountInv'
<1>1. /\ fresh \in Nat /\ user \in ServerRow /\ device \in [Devices -> Nat]
      /\ q \in ServerRequest /\ RequestWithin(q, fresh) /\ KeptTokens(q) /\ Rotated(q)
      /\ q.at \in HoldsRow => KeptUser(q.row)
  BY DEF AccountInv, ServerTyped, TokenGone, UserGone, AllRotated
<1>2. ban = "quiet" => Harmless(q) /\ \A d \in Devices : device[d] = 0
  BY DEF AccountInv, ShutOut
<1>3. ASSUME NEW f \in req, f.at = "first", f # q PROVE Elsewhere(q, f.row.stamp)
  BY <1>3 DEF AccountInv, StampNew
<1>4. fresh <= fresh /\ fresh <= fresh + 1 /\ fresh + 1 \in Nat
  BY <1>1
<1>5. CASE rotate_find(q)
  <2>1. /\ q.at = "rotate" /\ fresh' = fresh
        /\ UNCHANGED <<user, device, access, goneUser, goneToken, raced, ban>>
    BY <1>5 DEF rotate_find, Tables, History
  <2>2. q \in Works /\ q.op \in Resets /\ q.id \in Requests /\ q.row \in ServerRow
    BY <1>1, <2>1, RequestForm DEF RequestWithin, Works
  <2>3. KeptUser(q.row) /\ Within(q.row, fresh) /\ (q.op = "disable" => ~q.row.enabled)
        /\ \A d \in Devices : <<d, q.row.stamp>> \notin goneToken
    BY <1>1, <2>1, <2>2 DEF RequestWithin, KeptTokens, HoldsRow, Rotation
  <2> DEFINE ds == {d \in Devices : device[d] # 0}
  <2>4. CASE ds = {}
    <3> DEFINE p == [q EXCEPT !.at = "save"]
    <3>1. p \in Works /\ p.at = "save" /\ p.op = q.op /\ p.row = q.row
      BY <2>2, WorkMoves, Zenon
    <3>2. req' = (req \ {q}) \cup {p}
      BY <1>5, <2>4 DEF rotate_find, Continue, None
    <3> HIDE DEF p
    <3>3. p \in ServerRequest /\ RequestWithin(p, fresh) /\ KeptTokens(p) /\ \A v : Elsewhere(p, v)
      BY <2>3, <3>1 DEF ServerRequest, RequestWithin, KeptTokens, Elsewhere, Tokens, HoldsToken,
                        Rotation, Rotates
    <3>4. Rotated(p)
      BY <2>4, <3>1 DEF Rotated, Settled, Rotates
    <3>5. ban = "quiet" => Harmless(p)
      BY <1>2, <3>1 DEF Harmless
    <3> QED
      BY <1>1, <1>4, <2>1, <2>3, <3>1, <3>2, <3>3, <3>4, <3>5, AccountArrives
  <2>5. CASE ds # {}
    <3> DEFINE p == [id |-> q.id, at |-> "rotating", op |-> q.op, row |-> q.row, left |-> ds]
    <3>1. p \in Rotates /\ p.at = "rotating" /\ p.op = q.op /\ p.row = q.row /\ p.left = ds
          /\ p \notin Works
      BY <2>2 DEF Rotates, Works
    <3>2. req' = (req \ {q}) \cup {p}
      BY <1>5, <2>5 DEF rotate_find, Continue, None
    <3> HIDE DEF p
    <3>3. p \in ServerRequest /\ RequestWithin(p, fresh) /\ KeptTokens(p)
      BY <2>3, <3>1 DEF ServerRequest, RequestWithin, KeptTokens, Tokens, HoldsToken, Rotation
    <3>4. Rotated(p)
      BY <3>1 DEF Rotated, Settled
    <3>5. ban # "quiet"
      BY <1>2, <2>5
    <3>6. ASSUME NEW f \in req', f.at = "first", f # p PROVE Elsewhere(p, f.row.stamp)
      BY <1>3, <2>1, <3>1, <3>2, <3>6 DEF Elsewhere, Rotation, Tokens, HoldsToken
    <3> QED
      BY <1>1, <1>4, <2>1, <2>3, <3>1, <3>2, <3>3, <3>4, <3>5, <3>6, AccountArrives
  <2> QED
    BY <2>4, <2>5
<1>6. CASE find(q)
  <2>1. /\ q.at = "find" /\ fresh' = fresh
        /\ UNCHANGED <<user, device, access, goneUser, goneToken, raced, ban>>
    BY <1>6 DEF find, Tables, History
  <2>2. q \in Looks /\ q.id \in Requests /\ q.dev \in Devices /\ q \notin Works
    BY <1>1, <2>1, RequestForm DEF Looks, Works
  <2> DEFINE p == [id |-> q.id, at |-> "push", dev |-> q.dev, tok |-> device[q.dev]]
  <2>3. p \in Pushes /\ p.dev = q.dev /\ p.tok = device[q.dev] /\ p.tok <= fresh
    BY <1>1, <2>2 DEF Pushes, AccountInv, ServerTyped
  <2>4. req' \subseteq req \cup {p}
    BY <1>6 DEF find, Finish, Continue
  <2>5. ban # "quiet"
    BY <1>2, <2>2 DEF Harmless
  <2> HIDE DEF p
  <2> QED
    BY <1>1, <1>4, <2>1, <2>3, <2>4, <2>5, TokenArrives
<1>7. CASE get_device(q)
  <2>1. q.at = "get_device" /\ UNCHANGED <<user, device, access, goneUser, goneToken, raced, ban>>
    BY <1>7 DEF get_device, Tables, History
  <2>2. q.id \in Requests /\ q.dev \in Devices /\ q.stamp \in Nat /\ q \notin Works
    BY <1>1, <2>1, RequestForm DEF Asks, Works
  <2>3. ban # "quiet"
    BY <1>2, <2>2 DEF Harmless
  <2>4. CASE device[q.dev] # 0
    <3> DEFINE p == [id |-> q.id, at |-> "login", dev |-> q.dev, stamp |-> q.stamp,
                     tok |-> device[q.dev]]
    <3>1. p \in LogsIn /\ p.dev = q.dev /\ p.tok = device[q.dev] /\ p.tok <= fresh
      BY <1>1, <2>2 DEF LogsIn, AccountInv, ServerTyped
    <3>2. req' = (req \ {q}) \cup {p} /\ fresh' = fresh
      BY <1>7, <2>4 DEF get_device, Continue, None
    <3> HIDE DEF p
    <3> QED
      BY <1>1, <1>4, <2>1, <2>3, <3>1, <3>2, TokenArrives
  <2>5. CASE device[q.dev] = 0
    <3> DEFINE p == [id |-> q.id, at |-> "create", dev |-> q.dev, stamp |-> q.stamp,
                     tok |-> fresh + 1]
    <3>1. p \in LogsIn /\ p.dev = q.dev /\ p.tok = fresh + 1
      BY <1>1, <2>2 DEF LogsIn
    <3>2. req' = (req \ {q}) \cup {p} /\ fresh' = fresh + 1
      BY <1>7, <2>5 DEF get_device, Continue, None, Generate
    <3> HIDE DEF p
    <3> QED
      BY <1>1, <1>4, <2>1, <2>3, <3>1, <3>2, TokenArrives
  <2> QED
    BY <2>4, <2>5
<1>8. CASE refresh_user(q)
  <2> DEFINE p == [id |-> q.id, at |-> "refreshed", dev |-> q.dev, tok |-> q.tok,
                   stamp |-> user.stamp]
  <2>1. /\ q.at = "reread" /\ req' = (req \ {q}) \cup {p} /\ fresh' = fresh
        /\ UNCHANGED <<user, device, access, goneUser, goneToken, raced, ban>>
    BY <1>8 DEF refresh_user, Continue, Tables, History
  <2>2. q.id \in Requests /\ q.dev \in Devices /\ q.tok \in Nat /\ q.at \in Tokens /\ q \notin Works
        /\ user.stamp \in Nat
    BY <1>1, <2>1, RequestForm DEF Pushes, Tokens, HoldsToken, Works, ServerRow
  <2>3. p \in LogsIn /\ p.dev = q.dev /\ p.tok = q.tok /\ q.tok <= fresh
    BY <1>1, <2>2 DEF LogsIn, RequestWithin
  <2>4. ban # "quiet"
    BY <1>2, <2>2 DEF Harmless
  <2> HIDE DEF p
  <2> QED
    BY <1>1, <1>4, <2>1, <2>2, <2>3, <2>4, TokenArrives
<1>9. CASE fail(q)
  <2>1. fresh' = fresh
        /\ UNCHANGED <<user, device, access, goneUser, goneToken, raced, ban>>
    BY <1>9 DEF fail, Tables, History
  <2>2. CASE req' = req \ {q}
    BY <1>1, <1>4, <2>1, <2>2, AccountEnds
  <2>3. CASE q.at = "save" /\ req' = (req \ {q}) \cup {[q EXCEPT !.at = "last"]}
    <3> DEFINE p == [q EXCEPT !.at = "last"]
    <3>1. q \in Works
      BY <1>1, <2>3, RequestForm
    <3>2. p \in Works /\ p.at = "last" /\ p.op = q.op /\ p.row = q.row
      BY <3>1, WorkMoves, Zenon
    <3>3. req' = (req \ {q}) \cup {p}
      BY <2>3
    <3> HIDE DEF p
    <3>4. p \in ServerRequest /\ RequestWithin(p, fresh) /\ KeptTokens(p) /\ Rotated(p)
          /\ p.at \notin HoldsRow /\ \A v : Elsewhere(p, v)
      BY <1>1, <3>1, <3>2 DEF ServerRequest, RequestWithin, KeptTokens, Rotated, Elsewhere, Tokens,
                              HoldsToken, HoldsRow, Rotation, Rotates
    <3>5. ban = "quiet" => Harmless(p)
      BY <1>2, <3>2 DEF Harmless
    <3> QED
      BY <1>1, <1>4, <2>1, <3>2, <3>3, <3>4, <3>5, AccountArrives
  <2> QED
    BY <1>9, <2>2, <2>3 DEF fail, Continue, Finish
<1> QED
  BY <1>5, <1>6, <1>7, <1>8, <1>9

\* A refresh token that leaves a device is gone only if no request has it.
LEMMA TokensLeave ==
    ASSUME AccountInv, NEW q \in req, NEW ds \in SUBSET Devices,
           goneToken' = GoneTokens(q, ds), device' \in [Devices -> Nat]
    PROVE  /\ \A d \in Devices : \A v : <<d, v>> \in goneToken' /\ <<d, v>> \notin goneToken =>
                 d \in ds /\ v = device[d] /\ v # device'[d] /\ v # 0 /\ v \notin Held(q, d)
           /\ \A d \in Devices, v \in Nat : <<d, v>> \in goneToken' => 0 < v /\ v <= fresh
           /\ \A x \in req \ {q} :
                 /\ x.at \in Tokens => <<x.dev, x.tok>> \notin goneToken'
                 /\ x.at \in Rotation => \A d \in Devices : <<d, x.row.stamp>> \notin goneToken'
<1>1. ASSUME NEW d \in Devices, NEW v, <<d, v>> \in goneToken', <<d, v>> \notin goneToken
      PROVE  d \in ds /\ v = device[d] /\ v # device'[d] /\ v # 0 /\ v \notin Held(q, d)
  BY <1>1 DEF GoneTokens, None
<1>2. \A d \in Devices, v \in Nat : <<d, v>> \in goneToken' => 0 < v /\ v <= fresh
  BY <1>1 DEF AccountInv, ServerTyped
<1>3. ASSUME NEW x \in req \ {q}, x.at \in Tokens PROVE <<x.dev, x.tok>> \notin goneToken'
  <2>1. x.tok \in Held(q, x.dev)
    BY <1>3 DEF Held, Tokens
  <2>2. x.dev \in Devices /\ <<x.dev, x.tok>> \notin goneToken
    BY <1>3, HeldValues DEF AccountInv, ServerTyped, TokenGone, KeptTokens
  <2> QED
    BY <1>1, <2>1, <2>2
<1>4. ASSUME NEW x \in req \ {q}, x.at \in Rotation, NEW d \in Devices
      PROVE  <<d, x.row.stamp>> \notin goneToken'
  <2>1. x.row.stamp \in Held(q, d)
    BY <1>4 DEF Held, HoldsRow, Rotation
  <2>2. <<d, x.row.stamp>> \notin goneToken
    BY <1>4, Zenon DEF AccountInv, TokenGone, KeptTokens
  <2> QED
    BY <1>1, <2>1, <2>2
<1> QED
  BY <1>1, <1>2, <1>3, <1>4

\* reset_security_stamp saves the next device with a token of its own.
LEMMA AccountRotates ==
    ASSUME AccountInv, NEW q \in req, NEW d \in Devices, rotate_save(q, d)
    PROVE  AccountInv'
<1> DEFINE v == q.row.stamp
           p == IF q.left = {d} THEN Work(q.id, "save", q.op, q.row)
                ELSE [q EXCEPT !.left = q.left \ {d}]
<1>1. /\ q.at = "rotating" /\ d \in q.left
      /\ device' = [device EXCEPT ![d] = v]
      /\ req' = (req \ {q}) \cup {p}
      /\ goneToken' = GoneTokens(q, {d})
      /\ raced' = IF \E x \in req \ {q} : x.at \in HoldsRow
                  THEN raced \cup {<<d, v>>} ELSE raced
      /\ UNCHANGED <<user, access, fresh, goneUser, ban>>
  BY DEF rotate_save, Continue
<1>2. q \in Rotates /\ RequestWithin(q, fresh) /\ KeptTokens(q) /\ Rotated(q) /\ KeptUser(q.row)
  BY <1>1, RequestForm DEF AccountInv, ServerTyped, TokenGone, AllRotated, UserGone, HoldsRow
<1>3. /\ q.id \in Requests /\ q.op \in Resets /\ q.row \in ServerRow /\ q.left \in SUBSET Devices
      /\ v \in Nat /\ v <= fresh /\ Within(q.row, fresh) /\ (q.op = "disable" => ~q.row.enabled)
      /\ \A e \in Devices : <<e, v>> \notin goneToken
  BY <1>1, <1>2 DEF Rotates, ServerRow, RequestWithin, Within, HoldsRow, KeptTokens, Rotation
<1>4. /\ p.op = q.op /\ p.row = q.row
      /\ \/ p \in Works /\ p.at = "save" /\ p \notin Rotates /\ q.left = {d}
         \/ p \in Rotates /\ p.at = "rotating" /\ p \notin Works /\ p.left = q.left \ {d}
  <2>1. CASE q.left = {d}
    BY <1>3, <2>1 DEF Work, Works, Rotates
  <2>2. CASE q.left # {d}
    BY <1>2, <2>2 DEF Works, Rotates
  <2> QED
    BY <2>1, <2>2
<1> HIDE DEF p
<1>5. device' \in [Devices -> Nat] /\ device'[d] = v
      /\ \A e \in Devices \ {d} : device'[e] = device[e]
  BY <1>1, <1>3 DEF AccountInv, ServerTyped
<1>6. /\ \A e \in Devices : \A w : <<e, w>> \in goneToken' /\ <<e, w>> \notin goneToken =>
            e = d /\ w = device[e] /\ w # v
      /\ \A e \in Devices, w \in Nat : <<e, w>> \in goneToken' => 0 < w /\ w <= fresh
      /\ \A x \in req \ {q} :
            /\ x.at \in Tokens => <<x.dev, x.tok>> \notin goneToken'
            /\ x.at \in Rotation => \A e \in Devices : <<e, x.row.stamp>> \notin goneToken'
  <2>1. {d} \in SUBSET Devices
    OBVIOUS
  <2>2. /\ \A e \in Devices : \A w : <<e, w>> \in goneToken' /\ <<e, w>> \notin goneToken =>
              e \in {d} /\ w = device[e] /\ w # device'[e]
        /\ \A e \in Devices, w \in Nat : <<e, w>> \in goneToken' => 0 < w /\ w <= fresh
        /\ \A x \in req \ {q} :
              /\ x.at \in Tokens => <<x.dev, x.tok>> \notin goneToken'
              /\ x.at \in Rotation => \A e \in Devices : <<e, x.row.stamp>> \notin goneToken'
    BY <1>1, <1>5, <2>1, TokensLeave, Zenon
  <2> QED
    BY <1>5, <2>2
<1>7. p \in ServerRequest /\ RequestWithin(p, fresh)
  BY <1>3, <1>4 DEF ServerRequest, RequestWithin, Tokens, HoldsToken
<1>8. ServerTyped'
  BY <1>1, <1>3, <1>5, <1>6, <1>7, Zenon DEF AccountInv, ServerTyped
<1>9. UserGone'
  BY <1>1, <1>2, <1>4 DEF AccountInv, UserGone, KeptUser
<1>10. TokenGone'
  <2>1. \A e \in Devices : <<e, device'[e]>> \notin goneToken'
    BY <1>3, <1>5, <1>6 DEF AccountInv, TokenGone
  <2>2. KeptTokens(p)'
    BY <1>3, <1>4, <1>6 DEF KeptTokens, Tokens, HoldsToken
  <2>3. \A x \in req \ {q} : KeptTokens(x)'
    BY <1>6, Zenon DEF KeptTokens
  <2> QED
    BY <1>1, <2>1, <2>2, <2>3, Zenon DEF TokenGone
<1>11. StampNew'
  <2> SUFFICES ASSUME NEW f \in req', f.at = "first"
               PROVE  /\ \A e \in Devices : device'[e] # f.row.stamp
                      /\ \A x \in req' \ {f} : Elsewhere(x, f.row.stamp)
    BY DEF StampNew, Elsewhere
  <2>1. f \in req /\ f # q
    BY <1>1, <1>4
  <2>2. /\ \A e \in Devices : device[e] # f.row.stamp
        /\ \A x \in req \ {f} : Elsewhere(x, f.row.stamp)
    BY <2>1 DEF AccountInv, StampNew
  <2>3. v # f.row.stamp
    BY <1>1, <2>1, <2>2 DEF Elsewhere, Rotation
  <2>4. Elsewhere(p, f.row.stamp)
    BY <1>4, <2>3 DEF Elsewhere, Tokens, HoldsToken
  <2> QED
    BY <1>1, <1>5, <2>2, <2>3, <2>4
<1>12. AllRotated'
  <2>1. ASSUME NEW x \in req \ {q} PROVE Rotated(x)'
    <3>1. x.at \in HoldsRow => <<d, v>> \in raced'
      BY <1>1, <2>1
    <3>2. x \in Rotates => x.at \in HoldsRow
      BY DEF Rotates, HoldsRow
    <3>3. Rotated(x) /\ raced \subseteq raced'
      BY <1>1, <2>1 DEF AccountInv, AllRotated
    <3> QED
      BY <1>5, <3>1, <3>2, <3>3 DEF Rotated, Settled, HoldsRow
  <2>2. Rotated(p)'
    <3>1. \A e \in Devices \ q.left : Settled(e, v)
      BY <1>2 DEF Rotated
    <3>2. \A e \in Devices \ (q.left \ {d}) : Settled(e, v)'
      BY <1>1, <1>3, <1>5, <3>1 DEF Settled
    <3> QED
      BY <1>4, <3>2 DEF Rotated
  <2> QED
    BY <1>1, <2>1, <2>2 DEF AllRotated
<1>13. ShutOut'
  BY <1>1, <1>2 DEF AccountInv, ShutOut, Harmless, Works, Rotates
<1> QED
  BY <1>8, <1>9, <1>10, <1>11, <1>12, <1>13 DEF AccountInv

\* Device::save writes the copy of a device that a request holds.
LEMMA DeviceWritten ==
    ASSUME AccountInv, NEW q \in req, q.at \in Tokens, WriteDevice(q),
           NEW p \in ServerRequest, p.at \in Tokens, p.dev = q.dev, p.tok = q.tok,
           req' \subseteq (req \ {q}) \cup {p},
           access' \subseteq [device : Devices, stamp : Nat]
    PROVE  AccountInv'
<1> DEFINE d == q.dev
           v == q.tok
<1>1. /\ device' = [device EXCEPT ![d] = v]
      /\ goneToken' = GoneTokens(q, {d})
      /\ raced' = IF Stale(q) THEN raced \cup {<<d, v>>} ELSE raced
      /\ UNCHANGED <<user, fresh, goneUser, ban>>
  BY DEF WriteDevice
<1>2. /\ q \in ServerRequest /\ d \in Devices /\ v \in Nat /\ v <= fresh
      /\ <<d, v>> \notin goneToken
  BY HeldValues DEF AccountInv, ServerTyped, RequestWithin, TokenGone, KeptTokens
<1>3. /\ q \notin Works /\ p \notin Works \cup Rotates /\ p.at \notin HoldsRow
      /\ p.at \notin Rotation /\ p.at # "first"
  BY DEF Works, Rotates, Tokens, HoldsToken, HoldsRow, Rotation
<1>4. device' \in [Devices -> Nat] /\ device'[d] = v
      /\ \A e \in Devices \ {d} : device'[e] = device[e]
  BY <1>1, <1>2 DEF AccountInv, ServerTyped
<1>5. /\ \A e \in Devices : \A w : <<e, w>> \in goneToken' /\ <<e, w>> \notin goneToken =>
            e = d /\ w = device[e] /\ w # v
      /\ \A e \in Devices, w \in Nat : <<e, w>> \in goneToken' => 0 < w /\ w <= fresh
      /\ \A x \in req \ {q} :
            /\ x.at \in Tokens => <<x.dev, x.tok>> \notin goneToken'
            /\ x.at \in Rotation => \A e \in Devices : <<e, x.row.stamp>> \notin goneToken'
  <2>1. {d} \in SUBSET Devices /\ goneToken' = GoneTokens(q, {d})
    BY <1>1, <1>2
  <2>2. device' \in [Devices -> Nat]
    BY <1>4
  <2>3. /\ \A e \in Devices : \A w : <<e, w>> \in goneToken' /\ <<e, w>> \notin goneToken =>
              e \in {d} /\ w = device[e] /\ w # device'[e]
        /\ \A e \in Devices, w \in Nat : <<e, w>> \in goneToken' => 0 < w /\ w <= fresh
        /\ \A x \in req \ {q} :
              /\ x.at \in Tokens => <<x.dev, x.tok>> \notin goneToken'
              /\ x.at \in Rotation => \A e \in Devices : <<e, x.row.stamp>> \notin goneToken'
    BY <2>1, <2>2, TokensLeave, Zenon
  <2> QED
    BY <1>4, <2>3
<1>6. RequestWithin(p, fresh)
  BY <1>2, <1>3 DEF RequestWithin
<1>7. ServerTyped'
  BY <1>1, <1>2, <1>4, <1>5, <1>6, Zenon DEF AccountInv, ServerTyped
<1>8. UserGone'
  BY <1>1, <1>3 DEF AccountInv, UserGone, KeptUser
<1>9. TokenGone'
  <2>1. \A e \in Devices : <<e, device'[e]>> \notin goneToken'
    BY <1>2, <1>4, <1>5 DEF AccountInv, TokenGone
  <2>2. KeptTokens(p)'
    BY <1>2, <1>3, <1>5 DEF KeptTokens
  <2>3. \A x \in req \ {q} : KeptTokens(x)'
    BY <1>5, Zenon DEF KeptTokens
  <2> QED
    BY <2>1, <2>2, <2>3 DEF TokenGone
<1>10. StampNew'
  <2> SUFFICES ASSUME NEW f \in req', f.at = "first"
               PROVE  /\ \A e \in Devices : device'[e] # f.row.stamp
                      /\ \A x \in req' \ {f} : Elsewhere(x, f.row.stamp)
    BY DEF StampNew, Elsewhere
  <2>1. f \in req /\ f # q
    BY <1>3
  <2>2. /\ \A e \in Devices : device[e] # f.row.stamp
        /\ \A x \in req \ {f} : Elsewhere(x, f.row.stamp)
    BY <2>1 DEF AccountInv, StampNew
  <2>3. v # f.row.stamp
    BY <2>1, <2>2 DEF Elsewhere
  <2>4. Elsewhere(p, f.row.stamp)
    BY <1>3, <2>3 DEF Elsewhere
  <2> QED
    BY <1>4, <2>2, <2>3, <2>4
<1>11. AllRotated'
  <2>1. ASSUME NEW x \in req \ {q} PROVE Rotated(x)'
    <3>1. x.at \in HoldsRow => <<d, v>> \in raced' \/ v = device[d]
      BY <1>1, <2>1 DEF Stale
    <3>2. x \in Rotates => x.at \in HoldsRow
      BY DEF Rotates, HoldsRow
    <3>3. Rotated(x) /\ raced \subseteq raced'
      BY <1>1, <2>1 DEF AccountInv, AllRotated
    <3> QED
      BY <1>4, <3>1, <3>2, <3>3 DEF Rotated, Settled, HoldsRow
  <2>2. Rotated(p)'
    BY <1>3 DEF Rotated
  <2> QED
    BY <2>1, <2>2 DEF AllRotated
<1>12. ShutOut'
  BY <1>1, <1>3 DEF AccountInv, ShutOut, Harmless
<1> QED
  BY <1>7, <1>8, <1>9, <1>10, <1>11, <1>12 DEF AccountInv

\* User::save writes every column of the copy.
LEMMA AccountSaves ==
    ASSUME AccountInv, NEW q \in req, save_user(q)
    PROVE  AccountInv'
<1>1. /\ q.at = "save" /\ user' = q.row /\ goneUser' = GoneAfterSave(q)
      /\ goneToken' = goneToken \cup IF q.op \in Resets THEN TokensReset(q) ELSE {}
      /\ ban' = IF q.op = "enable" THEN "none" ELSE ban
      /\ UNCHANGED <<device, access, fresh, raced>>
  BY DEF save_user, Resets
<1>2. q \in Works /\ RequestWithin(q, fresh) /\ Rotated(q) /\ KeptUser(q.row)
  BY <1>1, RequestForm DEF AccountInv, ServerTyped, AllRotated, UserGone, HoldsRow
<1>3. q.row \in ServerRow /\ Within(q.row, fresh) /\ fresh \in Nat /\ q.row.stamp \in Nat
      /\ user \in ServerRow /\ Within(user, fresh) /\ device \in [Devices -> Nat]
  BY <1>1, <1>2 DEF Works, RequestWithin, HoldsRow, ServerRow, AccountInv, ServerTyped
<1> DEFINE p == [q EXCEPT !.at = "last"]
<1>4. p \in Works /\ p.at = "last" /\ p.op = q.op /\ p.row = q.row
  BY <1>2, WorkMoves, Zenon
<1>5. req' \subseteq (req \ {q}) \cup {p}
  BY DEF save_user, Continue, Finish
<1> HIDE DEF p
<1>6. p \in ServerRequest /\ RequestWithin(p, fresh) /\ p.at \notin HoldsRow
      /\ p.at \notin Tokens /\ p.at \notin Rotation /\ p \notin Rotates /\ p.at # "first"
  BY <1>2, <1>4 DEF ServerRequest, RequestWithin, Tokens, HoldsToken, HoldsRow, Rotation,
                    Rotates
<1>7. ASSUME NEW c \in Columns, NEW v, <<c, v>> \in goneUser', <<c, v>> \notin goneUser
      PROVE  /\ v = user[c] /\ v # q.row[c]
             /\ \A x \in req \ {q} : x.at \in HoldsRow => v # x.row[c]
  BY <1>1, <1>7 DEF GoneAfterSave
<1>8. ASSUME NEW d \in Devices, NEW v, <<d, v>> \in goneToken', <<d, v>> \notin goneToken
      PROVE  /\ v \in Nat /\ 0 < v /\ v < q.row.stamp /\ v <= fresh
             /\ v \notin Held(q, d) /\ <<d, v>> \notin raced /\ q.op \in Resets
  <2>1. q.op \in Resets /\ <<d, v>> \in TokensReset(q)
    BY <1>1, <1>8
  <2>2. v \in 1..(q.row.stamp - 1) /\ v \notin Held(q, d) /\ <<d, v>> \notin raced
    BY <2>1 DEF TokensReset
  <2> QED
    BY <1>3, <2>1, <2>2 DEF Within
<1>9. ServerTyped'
  <2>1. \A c \in Columns, v \in Nat : <<c, v>> \in goneUser' => v <= fresh
    BY <1>3, <1>7 DEF AccountInv, ServerTyped, Within, Columns
  <2>2. \A d \in Devices, v \in Nat : <<d, v>> \in goneToken' => 0 < v /\ v <= fresh
    BY <1>8 DEF AccountInv, ServerTyped
  <2> QED
    BY <1>1, <1>3, <1>5, <1>6, <2>1, <2>2 DEF AccountInv, ServerTyped
<1>10. UserGone'
  <2>1. KeptUser(q.row)'
    BY <1>2, <1>7 DEF KeptUser
  <2>2. \A x \in req \ {q} : x.at \in HoldsRow => KeptUser(x.row)'
    BY <1>7 DEF AccountInv, UserGone, KeptUser
  <2> QED
    BY <1>1, <1>5, <1>6, <2>1, <2>2 DEF UserGone, KeptUser
<1>11. TokenGone'
  <2>1. ASSUME NEW d \in Devices PROVE <<d, device[d]>> \notin goneToken'
    <3>1. q.op \in Resets => Settled(d, q.row.stamp)
      BY <1>1, <1>2 DEF Rotated
    <3>2. <<d, device[d]>> \notin goneToken /\ device[d] \in Nat
      BY <1>3 DEF AccountInv, TokenGone
    <3> QED
      BY <1>3, <1>8, <3>1, <3>2 DEF Settled
  <2>2. ASSUME NEW x \in req \ {q}, x.at \in Tokens PROVE <<x.dev, x.tok>> \notin goneToken'
    <3>1. x.tok \in Held(q, x.dev)
      BY <2>2 DEF Held, Tokens
    <3>2. x.dev \in Devices /\ <<x.dev, x.tok>> \notin goneToken
      BY <2>2, HeldValues DEF AccountInv, ServerTyped, TokenGone, KeptTokens
    <3> QED
      BY <1>8, <3>1, <3>2
  <2>3. ASSUME NEW x \in req \ {q}, x.at \in Rotation, NEW d \in Devices
        PROVE  <<d, x.row.stamp>> \notin goneToken'
    <3>1. x.row.stamp \in Held(q, d)
      BY <2>3 DEF Held, HoldsRow, Rotation
    <3>2. <<d, x.row.stamp>> \notin goneToken
      BY <2>3, Zenon DEF AccountInv, TokenGone, KeptTokens
    <3> QED
      BY <1>8, <3>1, <3>2
  <2>4. \A x \in req' : KeptTokens(x)'
    BY <1>5, <1>6, <2>2, <2>3, Zenon DEF KeptTokens
  <2> QED
    BY <1>1, <2>1, <2>4 DEF TokenGone
<1>12. StampNew'
  BY <1>1, <1>5, <1>6 DEF AccountInv, StampNew, Elsewhere
<1>13. AllRotated'
  BY <1>1, <1>4, <1>5, <1>6 DEF AccountInv, AllRotated, Rotated, Settled
<1>14. ShutOut'
  <2> SUFFICES ASSUME ban' = "quiet"
               PROVE  /\ ~q.row.enabled
                      /\ \A d \in Devices : device[d] = 0
                      /\ \A x \in req' : Harmless(x)
    BY <1>1 DEF ShutOut, Harmless
  <2>1. ban = "quiet" /\ q.op # "enable"
    BY <1>1
  <2>2. /\ \A d \in Devices : device[d] = 0
        /\ \A x \in req : Harmless(x)
    BY <2>1 DEF AccountInv, ShutOut
  <2>3. ~q.row.enabled
    BY <2>1, <2>2 DEF Harmless
  <2> QED
    BY <1>4, <1>5, <2>2, <2>3 DEF Harmless
<1> QED
  BY <1>9, <1>10, <1>11, <1>12, <1>13, <1>14 DEF AccountInv

\* Device::delete_all_by_user, before the row is read or after it is saved.
LEMMA DevicesDeleted ==
    ASSUME AccountInv, NEW q \in req, q \in Works, DeleteAll(q),
           NEW p \in Works, p.at \in {"rotate", "last"}, p.op = q.op, p.row = q.row,
           p.at = "rotate" => q.at = "first",
           req' \subseteq (req \ {q}) \cup {p},
           ban' # ban /\ ban' = "quiet" => req' = {} /\ ~user.enabled
    PROVE  AccountInv'
<1>1. /\ device' = [d \in Devices |-> 0] /\ goneToken' = GoneTokens(q, Devices)
      /\ UNCHANGED <<user, access, fresh, goneUser, raced>>
  BY DEF DeleteAll, None
<1>2. device' \in [Devices -> Nat] /\ \A d \in Devices : device'[d] = 0
  BY <1>1
<1>3. /\ \A d \in Devices : \A v : <<d, v>> \in goneToken' /\ <<d, v>> \notin goneToken =>
            v = device[d] /\ v # 0
      /\ \A d \in Devices, v \in Nat : <<d, v>> \in goneToken' => 0 < v /\ v <= fresh
      /\ \A x \in req \ {q} :
            /\ x.at \in Tokens => <<x.dev, x.tok>> \notin goneToken'
            /\ x.at \in Rotation => \A d \in Devices : <<d, x.row.stamp>> \notin goneToken'
  <2>1. Devices \in SUBSET Devices /\ goneToken' = GoneTokens(q, Devices)
    BY <1>1
  <2> QED
    BY <1>2, <2>1, TokensLeave, Zenon
<1>4. /\ q.at \in HoldsRow => KeptUser(q.row)
      /\ RequestWithin(q, fresh) /\ KeptTokens(q) /\ fresh \in Nat
  BY DEF AccountInv, UserGone, ServerTyped, TokenGone
<1>5. p \in ServerRequest /\ p.at \notin Tokens /\ p \notin Rotates /\ p.at # "save" /\ p.at # "first"
  BY DEF ServerRequest, Tokens, HoldsToken, Rotates
<1>6. RequestWithin(p, fresh)
  BY <1>4, <1>5 DEF RequestWithin, HoldsRow
<1>7. ServerTyped'
  BY <1>1, <1>2, <1>3, <1>4, <1>6, <1>5 DEF AccountInv, ServerTyped
<1>8. UserGone'
  BY <1>1, <1>4, Zenon DEF AccountInv, UserGone, KeptUser, HoldsRow
<1>9. TokenGone'
  <2>1. \A d \in Devices : <<d, device'[d]>> \notin goneToken'
    BY <1>2, <1>3
  <2>2. KeptTokens(p)'
    <3> SUFFICES ASSUME p.at \in Rotation, NEW d \in Devices
                 PROVE  <<d, q.row.stamp>> \notin goneToken'
      BY <1>5 DEF KeptTokens
    <3>1. q.at = "first"
      BY DEF Rotation
    <3>2. device[d] # q.row.stamp
      BY <3>1 DEF AccountInv, StampNew
    <3>3. <<d, q.row.stamp>> \notin goneToken
      BY <1>4, <3>1 DEF KeptTokens, Rotation
    <3> QED
      BY <1>3, <3>2, <3>3
  <2>3. \A x \in req \ {q} : KeptTokens(x)'
    BY <1>3, Zenon DEF KeptTokens
  <2> QED
    BY <2>1, <2>2, <2>3 DEF TokenGone
<1>10. StampNew'
  <2> SUFFICES ASSUME NEW f \in req', f.at = "first"
               PROVE  /\ \A d \in Devices : device'[d] # f.row.stamp
                      /\ \A x \in req' \ {f} : Elsewhere(x, f.row.stamp)
    BY DEF StampNew, Elsewhere
  <2>1. f \in req /\ f # q
    BY <1>5
  <2>2. \A x \in req \ {f} : Elsewhere(x, f.row.stamp)
    BY <2>1 DEF AccountInv, StampNew
  <2>3. f.row.stamp \in Nat /\ 0 < f.row.stamp
    BY <2>1, HeldValues DEF AccountInv, ServerTyped, RequestWithin, Within, HoldsRow
  <2>4. Elsewhere(p, f.row.stamp)
    BY <1>5, <2>1, <2>2 DEF Elsewhere, Rotation
  <2> QED
    BY <1>2, <2>2, <2>3, <2>4
<1>11. AllRotated'
  BY <1>1, <1>2, <1>5 DEF AccountInv, AllRotated, Rotated, Settled
<1>12. ShutOut'
  BY <1>1, <1>2 DEF AccountInv, ShutOut, Harmless
<1> QED
  BY <1>7, <1>8, <1>9, <1>10, <1>11, <1>12 DEF AccountInv

\* The statements that delete the devices, and those that save one.
LEMMA AccountWrites ==
    ASSUME AccountInv, NEW q \in req,
           \/ delete_first(q) \/ delete_last(q) \/ save_push(q) \/ create_device(q)
           \/ authenticated_response(q) \/ register_push_device(q)
           \/ refresh_save(q) \/ refresh_login(q)
    PROVE  AccountInv'
<1>1. q \in ServerRequest /\ RequestWithin(q, fresh)
      /\ access \subseteq [device : Devices, stamp : Nat]
  BY DEF AccountInv, ServerTyped
<1>2. CASE delete_first(q)
  <2> DEFINE p == [q EXCEPT !.at = "rotate"]
  <2>1. q.at = "first" /\ DeleteAll(q) /\ req' = (req \ {q}) \cup {p} /\ ban' = ban
    BY <1>2 DEF delete_first, Continue
  <2>2. q \in Works
    BY <1>1, <2>1, RequestForm
  <2>3. p \in Works /\ p.at = "rotate" /\ p.op = q.op /\ p.row = q.row
    BY <2>2, WorkMoves, Zenon
  <2> HIDE DEF p
  <2> QED
    BY <2>1, <2>2, <2>3, DevicesDeleted
<1>3. CASE delete_last(q)
  <2>1. /\ q.at = "last" /\ DeleteAll(q) /\ req' = req \ {q}
        /\ ban' = IF q.op = "disable"
                    THEN IF req = {q} /\ user = q.row THEN "quiet" ELSE "raced"
                    ELSE ban
    BY <1>3 DEF delete_last, Finish
  <2>2. q \in Works
    BY <1>1, <2>1, RequestForm
  <2>3. ban' # ban /\ ban' = "quiet" => req' = {} /\ ~user.enabled
    BY <1>1, <2>1, <2>2 DEF RequestWithin
  <2> QED
    BY <2>1, <2>2, <2>3, DevicesDeleted
<1>4. CASE save_push(q) \/ register_push_device(q)
  <2>1. q.at \in Tokens /\ WriteDevice(q) /\ req' \subseteq req /\ access' = access
    BY <1>4 DEF save_push, register_push_device, Finish, Tokens, HoldsToken
  <2> QED
    BY <1>1, <2>1, DeviceWritten
<1>5. CASE authenticated_response(q) \/ refresh_login(q)
  <2>1. /\ q.at \in {"login", "refreshed"} /\ WriteDevice(q) /\ req' \subseteq req
        /\ access' = access \cup {[device |-> q.dev, stamp |-> q.stamp]}
    BY <1>5 DEF authenticated_response, refresh_login, Finish
  <2>2. q.at \in Tokens /\ q.dev \in Devices /\ q.stamp \in Nat
    BY <1>1, <2>1, RequestForm DEF LogsIn, Tokens, HoldsToken
  <2> QED
    BY <1>1, <2>1, <2>2, DeviceWritten
<1>6. CASE create_device(q)
  <2> DEFINE p == [q EXCEPT !.at = "login"]
  <2>1. /\ q.at = "create" /\ WriteDevice(q) /\ req' = (req \ {q}) \cup {p}
        /\ access' = access
    BY <1>6 DEF create_device, Continue
  <2>2. q \in LogsIn
    BY <1>1, <2>1, RequestForm
  <2>3. p \in LogsIn /\ p.at = "login" /\ p.dev = q.dev /\ p.tok = q.tok
    BY <2>2 DEF LogsIn
  <2> HIDE DEF p
  <2>4. p \in ServerRequest /\ p.at \in Tokens /\ q.at \in Tokens
    BY <2>1, <2>3 DEF ServerRequest, Tokens, HoldsToken
  <2> QED
    BY <1>1, <2>1, <2>3, <2>4, DeviceWritten
<1>7. CASE refresh_save(q)
  <2> DEFINE p == [q EXCEPT !.at = "reread"]
  <2>1. /\ q.at = "refresh" /\ WriteDevice(q) /\ req' = (req \ {q}) \cup {p}
        /\ access' = access
    BY <1>7 DEF refresh_save, Continue
  <2>2. q \in Pushes
    BY <1>1, <2>1, RequestForm
  <2>3. p \in Pushes /\ p.at = "reread" /\ p.dev = q.dev /\ p.tok = q.tok
    BY <2>2 DEF Pushes
  <2> HIDE DEF p
  <2>4. p \in ServerRequest /\ p.at \in Tokens /\ q.at \in Tokens
    BY <2>1, <2>3 DEF ServerRequest, Tokens, HoldsToken
  <2> QED
    BY <1>1, <2>1, <2>3, <2>4, DeviceWritten
<1> QED
  BY <1>2, <1>3, <1>4, <1>5, <1>6, <1>7

\* On the upstream server, with any number of devices and of requests in flight,
\* a stamp, password, API key or refresh token that was replaced while no
\* request held a copy of it is never stored again; a new stamp ends the older
\* refresh tokens that no request holds or has written back; and an account that
\* disable_user disabled alone has no device and no session until enable_user.
THEOREM ServerSessionsAlwaysHold ==
    Spec => []ServerSessionsHold
<1>1. Init => AccountInv
  <2> SUFFICES ASSUME Init PROVE AccountInv
    OBVIOUS
  <2>1. ServerTyped
    BY DEF Init, None, ServerTyped, ServerRow, Within
  <2>2. UserGone /\ TokenGone /\ StampNew /\ AllRotated /\ ShutOut
    BY DEF Init, UserGone, KeptUser, TokenGone, StampNew, AllRotated, ShutOut
  <2> QED
    BY <2>1, <2>2 DEF AccountInv
<1>2. AccountInv /\ [Next]_(vars) => AccountInv'
  <2> SUFFICES ASSUME AccountInv, [Next]_(vars) PROVE AccountInv'
    OBVIOUS
  <2>1. ASSUME NEW r \in Requests, Begin(r) PROVE AccountInv'
    BY <2>1, AccountBegin
  <2>2. ASSUME NEW q \in req, q.at = "user", Handle(q) PROVE AccountInv'
    BY <2>2, AccountHandle
  <2>3. ASSUME NEW q \in req, Statement(q) \/ fail(q) PROVE AccountInv'
    BY <2>3, AccountReads, AccountRotates, AccountSaves, AccountWrites, Zenon DEF Statement
  <2>4. CASE UNCHANGED vars
    <3>1. fresh \in Nat /\ fresh' = fresh
          /\ UNCHANGED <<user, device, access, req, goneUser, goneToken, raced, ban>>
      BY <2>4 DEF vars, AccountInv, ServerTyped
    <3> QED
      BY <3>1, AccountEnds
  <2> QED
    BY <2>1, <2>2, <2>3, <2>4, Zenon DEF Next
<1>3. AccountInv => ServerSessionsHold
  <2> SUFFICES ASSUME AccountInv PROVE ServerSessionsHold
    OBVIOUS
  <2>1. ServerRotationHolds
    BY DEF AccountInv, UserGone, KeptUser, TokenGone, ServerRotationHolds
  <2>2. DisabledShutsOut
    BY DEF AccountInv, ShutOut, Harmless, Works, DisabledShutsOut, None
  <2> QED
    BY <2>1, <2>2 DEF ServerSessionsHold
<1> QED
  BY <1>1, <1>2, <1>3, PTL DEF Spec
=============================================================================
