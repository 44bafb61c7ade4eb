-------------------------- MODULE SessionsProofs --------------------------
(* Proofs about Sessions, for any number of devices and requests in flight   *)
(* and any number of random values; and about AuthRequests, for any requests *)
(* to log in with another device: neither a denial nor the window is got     *)
(* round.                                                                    *)
EXTENDS Sessions, TLAPS

-----------------------------------------------------------------------------
(* The inductive invariant. *)

Retired(v) == fate[v] = "retired"

\* Copies of the user row that will be written back, and the copies of a
\* refresh token that set_push_token or clear_push_token will write back.
Copies == {q \in req : q.at \in {"guard", "save_user"}}
Pushes == {q \in req : q.at = "save_push"}

\* Every value in use was generated, and a value still to be generated has no
\* history.
Generated ==
    /\ \A v \in Secrets(user) : v <= fresh
    /\ \A q \in Copies : \A v \in Secrets(q.row) : v <= fresh
    /\ \A d \in Devices : device[d] <= fresh
    /\ \A q \in Pushes : q.old <= fresh
    /\ \A v \in Values : v > fresh => ~Retired(v)

\* A retired value is in no table and in no copy that will be written back.
RetiredGone ==
    /\ \A v \in Secrets(user) : ~Retired(v)
    /\ \A q \in Copies : \A v \in Secrets(q.row) : ~Retired(v)
    /\ \A d \in Devices : device[d] # None => ~Retired(device[d])
    /\ \A q \in Pushes : ~Retired(q.old)

\* No value is both a secret of the user row and a refresh token.
TokensAreNotSecrets ==
    /\ \A d \in Devices : device[d] \notin Secrets(user)
    /\ \A q \in Pushes : q.old \notin Secrets(user)
    /\ \A p \in Copies : \A d \in Devices : device[d] \notin Secrets(p.row)
    /\ \A p \in Copies : \A q \in Pushes : q.old \notin Secrets(p.row)

\* A refresh token, stored or about to be written back, belongs to one device.
TokensOfOneDevice ==
    /\ RefreshTokensDistinct
    /\ \A q \in Pushes : \A d \in Devices : device[d] = q.old => d = q.dev
    /\ \A p, q \in Pushes : p.old = q.old => p.dev = q.dev

\* While the account is disabled for good, only admin_enable_user holds a copy
\* of its row that is enabled.
OnlyEnable ==
    /\ \A q \in req : q.at = "guard" => q.row.enabled
    /\ \A q \in req : q.at = "save_user" /\ q.op = "disable" => ~q.row.enabled
    /\ ban = "quiet" =>
         /\ ~user.enabled
         /\ \A q \in Copies : q.row.enabled => q.at = "save_user" /\ q.op = "enable"

\* A device signed out for good has no row and no writer.
NoWriters ==
    \A d \in Devices : out[d] = "quiet" => device[d] = None /\ DeviceWriters(d) = {}

IInv ==
    /\ TypeOK
    /\ Generated
    /\ RetiredGone
    /\ TokensAreNotSecrets
    /\ TokensOfOneDevice
    /\ OnlyEnable
    /\ NoWriters

-----------------------------------------------------------------------------
(* Steps that write no table. *)

\* u is a copy of the row w, possibly with new random values in it.
Derived(u, w) ==
    /\ u \in User
    /\ \A v \in Secrets(u) : v \in Secrets(w) \/ (fresh < v /\ v <= fresh')

\* A request that may join the requests in flight.
Admissible(p) ==
    /\ IsRequest(p)
    /\ p.at \in {"guard", "save_user"} =>
         \/ Derived(p.row, user)
         \/ \E q \in Copies : Derived(p.row, q.row)
    /\ p.at = "save_push" => p.old = device[p.dev]
    /\ p.at = "guard" => p.row.enabled
    /\ p.at = "save_user" /\ p.op = "disable" => ~p.row.enabled
    /\ ban = "quiet" /\ p.at \in {"guard", "save_user"} /\ p.row.enabled =>
         p.at = "save_user" /\ p.op = "enable"
    /\ p.at \in {"save_push", "read_user", "refresh"} => out[p.dev] # "quiet"

\* A step that only moves requests on keeps the invariant, when what they
\* remember was read from the tables or from their earlier copies.
LEMMA MovePreserves ==
    ASSUME IInv,
           \A p \in req' : p \in req \/ Admissible(p),
           UNCHANGED <<user, device, access, fate, ban, out>>,
           fresh' \in Values, fresh <= fresh'
    PROVE  IInv'
<1> USE FreshAssumption DEF Values, None
<1>0. /\ user \in User /\ device \in [Devices -> Values \cup {None}]
      /\ \A q \in req : IsRequest(q)
      /\ fresh \in Values
  BY DEF IInv, TypeOK
<1>1. TypeOK'
  BY DEF IInv, TypeOK, Admissible, IsRequest
<1>2. \A p \in Copies' : \A v \in Secrets(p.row) :
         \/ v \in Secrets(user)
         \/ \E q \in Copies : v \in Secrets(q.row)
         \/ fresh < v /\ v <= fresh'
  BY Zenon DEF Copies, Admissible, Derived
<1>3. \A p \in Pushes' : /\ p \in Pushes \/ (p.old = device[p.dev])
                         /\ p.old \in Values /\ p.dev \in Devices
  BY <1>0, Zenon DEF Pushes, Admissible, IsRequest, HoldsDevice
<1>4. \A p \in Copies' \cup Copies : \A v \in Secrets(p.row) : v \in Values
  BY <1>0 DEF Copies, Admissible, Derived, IsRequest, HoldsRow, User, Secrets
<1>5. \A v \in Secrets(user) : v \in Values
  BY <1>0 DEF User, Secrets
<1>6. Generated'
  <2>1. \A v \in Secrets(user) : v <= fresh'
    BY <1>0, <1>5 DEF IInv, Generated
  <2>2. \A p \in Copies' : \A v \in Secrets(p.row) : v <= fresh'
    BY <1>0, <1>2, <1>4, <1>5 DEF IInv, Generated
  <2>3. \A d \in Devices : device[d] <= fresh'
    BY <1>0 DEF IInv, Generated
  <2>4. \A q \in Pushes' : q.old <= fresh'
    BY <1>0, <1>3 DEF IInv, Generated
  <2>5. \A v \in Values : v > fresh' => ~Retired(v)
    BY <1>0 DEF IInv, Generated
  <2> QED
    BY <2>1, <2>2, <2>3, <2>4, <2>5 DEF Generated, Retired
<1>7. RetiredGone'
  BY <1>0, <1>2, <1>3, <1>4 DEF IInv, RetiredGone, Generated, Retired
<1>8. TokensAreNotSecrets'
  BY <1>0, <1>2, <1>3, <1>4 DEF IInv, TokensAreNotSecrets, Generated
<1>9. TokensOfOneDevice'
  BY <1>0, <1>3 DEF IInv, TokensOfOneDevice, RefreshTokensDistinct
<1>10. OnlyEnable'
  BY DEF IInv, OnlyEnable, Admissible, Copies
<1>11. NoWriters'
  BY DEF IInv, NoWriters, Admissible, DeviceWriters
<1> QED
  BY <1>1, <1>6, <1>7, <1>8, <1>9, <1>10, <1>11 DEF IInv

\* Random values never repeat: the supply only grows.
LEMMA GenerateGrows ==
    ASSUME IInv, NEW n \in {1, 2}, Generate(n)
    PROVE  fresh' = fresh + n /\ fresh' \in Values /\ fresh <= fresh'
  BY FreshAssumption DEF IInv, TypeOK, Generate, Values

\* The copies with a new stamp, a new password or a new API key.
LEMMA DerivedCopies ==
    ASSUME IInv, NEW w \in User
    PROVE  /\ Derived(w, w)
           /\ Generate(1) => /\ Derived(NewStamp(w), w)
                             /\ NewStamp(w).enabled = w.enabled
                             /\ Derived([NewStamp(w) EXCEPT !.enabled = FALSE], w)
                             /\ Derived([w EXCEPT !.api_key = fresh + 1], w)
                             /\ [w EXCEPT !.api_key = fresh + 1].enabled = w.enabled
                             /\ ~[NewStamp(w) EXCEPT !.enabled = FALSE].enabled
           /\ Generate(2) => /\ Derived(NewPassword(w), w)
                             /\ NewPassword(w).enabled = w.enabled
           /\ Derived([w EXCEPT !.enabled = TRUE], w)
<1> USE FreshAssumption
<1>0. fresh \in Values /\ fresh \in Int
  BY DEF IInv, TypeOK, Values
<1>1. Derived(w, w)
  BY DEF Derived
<1>2. ASSUME Generate(1)
      PROVE  /\ Derived(NewStamp(w), w)
             /\ NewStamp(w).enabled = w.enabled
             /\ Derived([NewStamp(w) EXCEPT !.enabled = FALSE], w)
             /\ Derived([w EXCEPT !.api_key = fresh + 1], w)
             /\ [w EXCEPT !.api_key = fresh + 1].enabled = w.enabled
             /\ ~[NewStamp(w) EXCEPT !.enabled = FALSE].enabled
  <2>1. fresh' = fresh + 1 /\ fresh + 1 \in Values /\ fresh < fresh + 1
    BY <1>0, <1>2 DEF Generate, Values
  <2>2. /\ NewStamp(w) \in User
        /\ [w EXCEPT !.api_key = fresh + 1] \in User
    BY <2>1, Zenon DEF NewStamp, User
  <2>3. [NewStamp(w) EXCEPT !.enabled = FALSE] \in User
    BY <2>2, Zenon DEF User
  <2>4. Derived(NewStamp(w), w) /\ NewStamp(w).enabled = w.enabled
    BY <1>0, <2>1, <2>2 DEF Derived, NewStamp, User, Secrets, None
  <2>5. /\ Secrets([NewStamp(w) EXCEPT !.enabled = FALSE]) = Secrets(NewStamp(w))
        /\ ~[NewStamp(w) EXCEPT !.enabled = FALSE].enabled
    BY <2>2 DEF Secrets, User
  <2>6. Derived([NewStamp(w) EXCEPT !.enabled = FALSE], w)
    BY <2>3, <2>4, <2>5 DEF Derived
  <2>7. /\ Derived([w EXCEPT !.api_key = fresh + 1], w)
        /\ [w EXCEPT !.api_key = fresh + 1].enabled = w.enabled
    BY <1>0, <2>1, <2>2 DEF Derived, User, Secrets, None
  <2> QED
    BY <2>4, <2>5, <2>6, <2>7
<1>3. ASSUME Generate(2)
      PROVE  Derived(NewPassword(w), w) /\ NewPassword(w).enabled = w.enabled
  <2>1. /\ fresh' = fresh + 2 /\ fresh + 1 \in Values /\ fresh + 2 \in Values
        /\ fresh < fresh + 1 /\ fresh + 1 <= fresh' /\ fresh < fresh + 2
    BY <1>0, <1>3 DEF Generate, Values
  <2>2. NewPassword(w) \in User
    BY <2>1, Zenon DEF NewPassword, User
  <2> QED
    BY <1>0, <2>1, <2>2 DEF Derived, NewPassword, User, Secrets, None
<1>4. Derived([w EXCEPT !.enabled = TRUE], w)
  BY DEF Derived, User, Secrets
<1> QED
  BY <1>1, <1>2, <1>3, <1>4

\* A handler that changed the row the guard read.
LEMMA EditPreserves ==
    ASSUME IInv, NEW q \in req, NEW u, Edit(q, u),
           Derived(u, q.row), u.enabled = q.row.enabled,
           fresh' \in Values, fresh <= fresh'
    PROVE  IInv'
<1> DEFINE p == [id |-> q.id, at |-> "save_user", row |-> u, op |-> "user"]
<1>1. /\ q.at = "guard" /\ q \in Copies /\ q.id \in Requests
      /\ req' = (req \ {q}) \cup {p}
      /\ UNCHANGED <<user, device, access, fate, ban, out>>
  BY DEF Edit, DeviceFound, Continue, Copies, IInv, TypeOK, IsRequest
<1>2. ban # "quiet"
  BY <1>1 DEF IInv, OnlyEnable
<1>3. p.id = q.id /\ p.at = "save_user" /\ p.row = u /\ p.op = "user"
  OBVIOUS
<1> HIDE DEF p
<1>4. Admissible(p)
  BY <1>1, <1>2, <1>3 DEF Admissible, IsRequest, Derived, HoldsRow, HoldsDevice
<1> QED
  BY <1>1, <1>4, MovePreserves

\* A handler that read the user row itself.
LEMMA LoadPreserves ==
    ASSUME IInv, NEW r \in Requests, NEW u,
           NEW op \in {"user", "enable", "disable", "deauth"},
           Load(r, u, op), Derived(u, user),
           op = "disable" => ~u.enabled,
           op \in {"user", "deauth"} => u.enabled = user.enabled,
           fresh' \in Values, fresh <= fresh'
    PROVE  IInv'
<1> DEFINE p == [id |-> r, at |-> "save_user", row |-> u, op |-> op]
<1>1. /\ req' = req \cup {p}
      /\ UNCHANGED <<user, device, access, fate, ban, out>>
  BY DEF Load, Start
<1>2. ban = "quiet" => ~user.enabled
  BY DEF IInv, OnlyEnable
<1>3. p.id = r /\ p.at = "save_user" /\ p.row = u /\ p.op = op
  OBVIOUS
<1> HIDE DEF p
<1>4. Admissible(p)
  BY <1>2, <1>3 DEF Admissible, IsRequest, Derived, HoldsRow, HoldsDevice
<1> QED
  BY <1>1, <1>4, MovePreserves

\* A request that ends without a write.
LEMMA FinishPreserves ==
    ASSUME IInv, NEW q \in req, Finish(q)
    PROVE  IInv'
<1>1. fresh \in Values /\ fresh <= fresh
  BY FreshAssumption DEF IInv, TypeOK, Values
<1> QED
  BY <1>1, MovePreserves DEF Finish

\* Every first step of a request keeps the invariant.
LEMMA BeginPreserves ==
    ASSUME IInv, NEW r \in Requests, Begin(r)
    PROVE  IInv'
<1>0. /\ user \in User /\ fresh \in Values /\ fresh <= fresh
      /\ \A a \in access : a.device \in Devices
  BY FreshAssumption DEF IInv, TypeOK, Values
<1>1. ASSUME NEW a \in access, guard(r, a)
      PROVE  IInv'
  <2> DEFINE p == [id |-> r, at |-> "guard", row |-> user, dev |-> a.device]
  <2>1. /\ req' = req \cup {p} /\ user.enabled
        /\ UNCHANGED <<user, device, access, fate, ban, out, fresh>>
    BY <1>1 DEF guard, Start
  <2>2. p.id = r /\ p.at = "guard" /\ p.row = user /\ p.dev = a.device
    OBVIOUS
  <2>3. ban # "quiet"
    BY <2>1 DEF IInv, OnlyEnable
  <2> HIDE DEF p
  <2>4. Admissible(p)
    BY <1>0, <2>1, <2>2, <2>3, DerivedCopies DEF Admissible, IsRequest, HoldsRow, HoldsDevice
  <2> QED
    BY <1>0, <2>1, <2>4, MovePreserves
<1>2. CASE verify_email_token(r)
  BY <1>0, <1>2, DerivedCopies, LoadPreserves DEF verify_email_token
<1>3. CASE recover(r)
  BY <1>0, <1>3, DerivedCopies, GenerateGrows, LoadPreserves DEF recover
<1>4. CASE reset_password(r) \/ takeover_password(r)
  BY <1>0, <1>4, DerivedCopies, GenerateGrows, LoadPreserves
  DEF reset_password, takeover_password
<1>5. CASE admin_disable_user(r)
  BY <1>0, <1>5, DerivedCopies, GenerateGrows, LoadPreserves DEF admin_disable_user
<1>6. CASE admin_enable_user(r)
  BY <1>0, <1>6, DerivedCopies, LoadPreserves DEF admin_enable_user
<1>7. CASE admin_deauth_user(r)
  BY <1>0, <1>7, DerivedCopies, GenerateGrows, LoadPreserves DEF admin_deauth_user
<1>8. ASSUME NEW d \in Devices, Login(r, d)
      PROVE  IInv'
  <2> DEFINE p == [id |-> r, at |-> "login", row |-> user, dev |-> d]
  <2>1. /\ req' = req \cup {p}
        /\ UNCHANGED <<user, device, access, fate, ban, out, fresh>>
    BY <1>8 DEF Login, Start
  <2>2. p.id = r /\ p.at = "login" /\ p.row = user /\ p.dev = d
    OBVIOUS
  <2> HIDE DEF p
  <2>3. Admissible(p)
    BY <1>0, <2>2 DEF Admissible, IsRequest, HoldsRow, HoldsDevice
  <2> QED
    BY <1>0, <2>1, <2>3, MovePreserves
<1>9. ASSUME NEW d \in Devices, refresh_grant(r, d)
      PROVE  IInv'
  <2> DEFINE p == [id |-> r, at |-> "read_user", dev |-> d]
  <2>1. /\ req' = req \cup {p} /\ device[d] # None
        /\ UNCHANGED <<user, device, access, fate, ban, out, fresh>>
    BY <1>9 DEF refresh_grant, Start
  <2>2. p.id = r /\ p.at = "read_user" /\ p.dev = d
    OBVIOUS
  <2>3. out[d] # "quiet"
    BY <2>1 DEF IInv, NoWriters
  <2> HIDE DEF p
  <2>4. Admissible(p)
    BY <2>2, <2>3 DEF Admissible, IsRequest, HoldsRow, HoldsDevice
  <2> QED
    BY <1>0, <2>1, <2>4, MovePreserves
<1> QED
  BY <1>1, <1>2, <1>3, <1>4, <1>5, <1>6, <1>7, <1>8, <1>9
  DEF Begin, password_grant, api_key_grant, auth_request_grant

\* Every handler that goes on to save headers.user keeps the invariant.
LEMMA UserHandlerPreserves ==
    ASSUME IInv, NEW q \in req, UserHandler(q)
    PROVE  IInv'
<1>0. /\ fresh \in Values /\ fresh <= fresh
      /\ q.at = "guard" => q.row \in User
  BY FreshAssumption DEF IInv, TypeOK, Values, IsRequest, HoldsRow
<1>1. q.at = "guard"
  BY DEF UserHandler, put_profile, set_avatar, set_account_keys,
         settings_domains_save, request_email_change, ensure_recovery_code,
         rotate_security_stamp, rotate_user_account_keys, change_password,
         change_kdf, change_email, get_or_create_api_key, rotate_api_key,
         Edit, DeviceFound
<1>2. CASE Edit(q, q.row) /\ UNCHANGED fresh
  BY <1>0, <1>1, <1>2, DerivedCopies, EditPreserves
<1>3. CASE Edit(q, NewStamp(q.row)) /\ Generate(1)
  BY <1>0, <1>1, <1>3, DerivedCopies, GenerateGrows, EditPreserves
<1>4. CASE Edit(q, NewPassword(q.row)) /\ Generate(2)
  BY <1>0, <1>1, <1>4, DerivedCopies, GenerateGrows, EditPreserves
<1>5. CASE Edit(q, [q.row EXCEPT !.api_key = fresh + 1]) /\ Generate(1)
  BY <1>0, <1>1, <1>5, DerivedCopies, GenerateGrows, EditPreserves
<1>6. CASE Finish(q)
  BY <1>6, FinishPreserves
<1> QED
  BY <1>2, <1>3, <1>4, <1>5, <1>6
  DEF UserHandler, put_profile, set_avatar, set_account_keys,
      settings_domains_save, request_email_change, ensure_recovery_code,
      rotate_security_stamp, rotate_user_account_keys, change_password,
      change_kdf, change_email, get_or_create_api_key, rotate_api_key

\* Every further read of a request keeps the invariant.
LEMMA ProceedPreserves ==
    ASSUME IInv, NEW q \in req, Proceed(q)
    PROVE  IInv'
<1>0. /\ user \in User /\ fresh \in Values /\ fresh <= fresh
      /\ q.id \in Requests
      /\ q.at \in HoldsDevice => q.dev \in Devices
      /\ device \in [Devices -> Values \cup {None}]
  BY FreshAssumption DEF IInv, TypeOK, Values, IsRequest
<1>1. CASE device_not_found(q) \/ find_none(q) \/ refresh_disabled(q)
  BY <1>1, FinishPreserves DEF device_not_found, find_none, refresh_disabled
<1>2. CASE UserHandler(q)
  BY <1>2, UserHandlerPreserves
<1>3. ASSUME NEW d \in Devices, NEW op \in {"push", "delete"}, DeviceHandler(q, d, op)
      PROVE  IInv'
  <2> DEFINE p == [id |-> q.id, at |-> "find", dev |-> d, op |-> op]
  <2>1. /\ req' = (req \ {q}) \cup {p}
        /\ UNCHANGED <<user, device, access, fate, ban, out, fresh>>
    BY <1>3 DEF DeviceHandler, Continue
  <2>2. p.id = q.id /\ p.at = "find" /\ p.dev = d /\ p.op = op
    OBVIOUS
  <2> HIDE DEF p
  <2>3. Admissible(p)
    BY <1>0, <2>2 DEF Admissible, IsRequest, HoldsRow, HoldsDevice
  <2> QED
    BY <1>0, <2>1, <2>3, MovePreserves
<1>4. CASE find(q)
  <2> DEFINE p == IF q.op = "push"
                  THEN [id |-> q.id, at |-> "save_push", dev |-> q.dev,
                        old |-> device[q.dev]]
                  ELSE [id |-> q.id, at |-> "delete", dev |-> q.dev]
  <2>1. /\ req' = (req \ {q}) \cup {p}
        /\ UNCHANGED <<user, device, access, fate, ban, out, fresh>>
        /\ q.at = "find" /\ device[q.dev] # None
    BY <1>4 DEF find, Continue
  <2>2. /\ p.id = q.id /\ p.dev = q.dev /\ p.at \in {"save_push", "delete"}
        /\ p.at = "save_push" => p.old = device[q.dev]
    OBVIOUS
  <2>3. q.dev \in Devices /\ device[q.dev] \in Values
    BY <1>0, <2>1 DEF HoldsDevice
  <2>4. out[q.dev] # "quiet"
    BY <2>1, <2>3 DEF IInv, NoWriters
  <2> HIDE DEF p
  <2>5. Admissible(p)
    BY <1>0, <2>2, <2>3, <2>4 DEF Admissible, IsRequest, HoldsRow, HoldsDevice
  <2> QED
    BY <1>0, <2>1, <2>5, MovePreserves
<1>5. CASE refresh_user(q)
  <2> DEFINE p == [id |-> q.id, at |-> "refresh", row |-> user, dev |-> q.dev]
  <2>1. /\ req' = (req \ {q}) \cup {p}
        /\ UNCHANGED <<user, device, access, fate, ban, out, fresh>>
        /\ q.at = "read_user"
    BY <1>5 DEF refresh_user, Continue
  <2>2. p.id = q.id /\ p.at = "refresh" /\ p.dev = q.dev /\ p.row = user
    OBVIOUS
  <2>3. q.dev \in Devices
    BY <1>0, <2>1 DEF HoldsDevice
  <2>4. out[q.dev] # "quiet"
    BY <2>1, <2>3 DEF IInv, NoWriters, DeviceWriters
  <2> HIDE DEF p
  <2>5. Admissible(p)
    BY <1>0, <2>2, <2>3, <2>4 DEF Admissible, IsRequest, HoldsRow, HoldsDevice
  <2> QED
    BY <1>0, <2>1, <2>5, MovePreserves
<1> QED
  BY <1>1, <1>2, <1>3, <1>4, <1>5
  DEF Proceed, set_push_token, clear_push_token, delete_device

-----------------------------------------------------------------------------
(* Steps that write a table. *)

\* What FateAfter retires: the lost values that no copy holds.
LEMMA FateIs ==
    ASSUME IInv, NEW lost, NEW held, fate' = FateAfter(lost, held)
    PROVE  /\ fate' \in [Values -> {"live", "raced", "revoked", "retired"}]
           /\ \A v \in Values : Retired(v)' <=>
                 \/ v \in lost /\ v \notin held
                 \/ v \notin lost /\ Retired(v)
  BY DEF IInv, TypeOK, FateAfter, Retired

\* User::save keeps the invariant: it stores one of the copies, and retires
\* only what no other copy holds.
LEMMA SaveUserPreserves ==
    ASSUME IInv, NEW q \in req, save_user(q)
    PROVE  IInv'
<1> USE FreshAssumption DEF Values, None
<1> DEFINE lost == Secrets(user) \ Secrets(q.row)
           held == UNION {Secrets(p.row) : p \in OtherCopies(q)}
           next == IF q.op = "deauth" THEN {[id |-> q.id, at |-> "sweep"]} ELSE {}
<1>0. /\ user \in User /\ device \in [Devices -> Values \cup {None}]
      /\ \A p \in req : IsRequest(p)
      /\ fresh \in Values
  BY DEF IInv, TypeOK
<1>1. /\ q.at = "save_user" /\ user' = q.row
      /\ req' = (req \ {q}) \cup next
      /\ fate' = FateAfter(lost, held)
      /\ UNCHANGED <<device, access, fresh, out>>
  BY DEF save_user
<1>2. /\ q \in Copies /\ q.row \in User /\ q.id \in Requests
      /\ q.op \in {"user", "enable", "disable", "deauth"}
  BY <1>0, <1>1 DEF Copies, IsRequest, HoldsRow
<1>3. \A p \in req' : p \in req \/ (p.at = "sweep" /\ p.id = q.id)
  BY <1>1
<1>4. Copies' = OtherCopies(q) /\ Copies' \subseteq Copies
  BY <1>1 DEF Copies, OtherCopies
<1>5. Pushes' \subseteq Pushes
  BY <1>1 DEF Pushes
<1>6. /\ \A v \in Secrets(user) : v \in Values
      /\ \A p \in Copies : \A v \in Secrets(p.row) : v \in Values
      /\ \A p \in Pushes : p.old \in Values /\ p.dev \in Devices
  BY <1>0 DEF Copies, Pushes, IsRequest, HoldsRow, HoldsDevice, User, Secrets
<1>7. \A p \in Copies' : \A v \in Secrets(p.row) : v \in held
  BY <1>4
<1> HIDE DEF lost, held, next
<1>8. \A v \in Values : Retired(v)' <=>
        \/ v \in lost /\ v \notin held
        \/ v \notin lost /\ Retired(v)
  BY <1>1, FateIs
<1>9. TypeOK'
  <2>1. ban' \in {"none", "quiet", "raced"}
    BY DEF save_user, IInv, TypeOK
  <2> QED
    BY <1>0, <1>1, <1>2, <1>3, <2>1, FateIs
    DEF IInv, TypeOK, IsRequest, HoldsRow, HoldsDevice
<1>10. Generated'
  BY <1>0, <1>1, <1>2, <1>4, <1>5, <1>6, <1>8 DEF IInv, Generated, lost
<1>11. RetiredGone'
  <2>1. \A v \in Secrets(user') : ~Retired(v)'
    BY <1>1, <1>2, <1>6, <1>8 DEF IInv, RetiredGone, lost
  <2>2. \A p \in Copies' : \A v \in Secrets(p.row) : ~Retired(v)'
    BY <1>4, <1>6, <1>7, <1>8 DEF IInv, RetiredGone
  <2>3. \A d \in Devices : device[d] # None => ~Retired(device[d])'
    BY <1>0, <1>1, <1>8 DEF IInv, RetiredGone, TokensAreNotSecrets, lost
  <2>4. \A p \in Pushes' : ~Retired(p.old)'
    BY <1>5, <1>6, <1>8 DEF IInv, RetiredGone, TokensAreNotSecrets, lost
  <2> QED
    BY <1>1, <2>1, <2>2, <2>3, <2>4 DEF RetiredGone, Retired
<1>12. TokensAreNotSecrets'
  BY <1>1, <1>2, <1>4, <1>5 DEF IInv, TokensAreNotSecrets
<1>13. TokensOfOneDevice'
  BY <1>1, <1>5 DEF IInv, TokensOfOneDevice, RefreshTokensDistinct
<1>14. OnlyEnable'
  <2>1. /\ \A p \in req' : p.at = "guard" => p.row.enabled
        /\ \A p \in req' : p.at = "save_user" /\ p.op = "disable" => ~p.row.enabled
    BY <1>3 DEF IInv, OnlyEnable
  <2>2. ASSUME ban' = "quiet"
        PROVE  /\ ~q.row.enabled
               /\ \A p \in Copies' : p.row.enabled => p.at = "save_user" /\ p.op = "enable"
    <3>1. CASE q.op = "disable"
      <4>1. \A p \in OtherCopies(q) : ~p.row.enabled
        BY <2>2, <3>1 DEF save_user
      <4> QED
        BY <1>1, <1>4, <3>1, <4>1 DEF IInv, OnlyEnable
    <3>2. CASE q.op = "enable"
      BY <2>2, <3>2 DEF save_user
    <3>3. CASE q.op \in {"user", "deauth"}
      <4>1. ban = "quiet"
        BY <2>2, <3>3 DEF save_user
      <4> QED
        BY <1>1, <1>2, <1>4, <3>3, <4>1 DEF IInv, OnlyEnable
    <3> QED
      BY <1>2, <3>1, <3>2, <3>3
  <2> QED
    BY <1>1, <2>1, <2>2 DEF OnlyEnable
<1>15. NoWriters'
  BY <1>1, <1>3 DEF IInv, NoWriters, DeviceWriters
<1> QED
  BY <1>9, <1>10, <1>11, <1>12, <1>13, <1>14, <1>15 DEF IInv

\* A write of the devices table keeps the invariant when every row is left as
\* it is, deleted, given back the copy of its own token, or given a new token,
\* and every token that left the table is retired unless a copy of it is held.
LEMMA DeviceWritePreserves ==
    ASSUME IInv, NEW q \in req, NEW lost,
           req' = req \ {q}, UNCHANGED <<user, ban>>,
           access' \subseteq [device : Devices, stamp : Values],
           fresh' \in Values, fresh <= fresh',
           device' \in [Devices -> Values \cup {None}],
           \A d \in Devices : \/ device'[d] \in {device[d], None}
                              \/ q \in Pushes /\ d = q.dev /\ device'[d] = q.old
                              \/ d = q.dev /\ device'[d] = fresh + 1 /\ fresh < fresh',
           \A v \in lost : \E d \in Devices : v = device[d],
           \A d \in Devices : device'[d] \notin lost,
           fate' = FateAfter(lost, HeldTokens(q)),
           out' \in [Devices -> {"no", "quiet", "raced"}],
           \A d \in Devices : out'[d] = "quiet" =>
               device'[d] = None /\ DeviceWriters(d)' = {}
    PROVE  IInv'
<1> USE FreshAssumption DEF Values, None
<1>0. /\ user \in User /\ device \in [Devices -> Values \cup {None}]
      /\ \A p \in req : IsRequest(p)
      /\ fresh \in Values
  BY DEF IInv, TypeOK
<1>1. Copies' \subseteq Copies /\ Pushes' \subseteq Pushes
  BY DEF Copies, Pushes
<1>2. /\ \A v \in Secrets(user) : v \in Values
      /\ \A p \in Copies : \A v \in Secrets(p.row) : v \in Values
      /\ \A p \in Pushes : p.old \in Values /\ p.dev \in Devices
  BY <1>0 DEF Copies, Pushes, IsRequest, HoldsRow, HoldsDevice, User, Secrets
<1>3. /\ None \notin Secrets(user)
      /\ \A p \in Copies : None \notin Secrets(p.row)
  BY <1>2
<1>4. \A v \in Values : Retired(v)' <=>
        \/ v \in lost /\ v \notin HeldTokens(q)
        \/ v \notin lost /\ Retired(v)
  BY FateIs
<1>5. \A p \in Pushes' : p.old \in HeldTokens(q)
  BY DEF Pushes, HeldTokens
<1>6. TypeOK'
  BY <1>0, FateIs DEF IInv, TypeOK, IsRequest
<1>7. Generated'
  <2>1. \A v \in Secrets(user) : v <= fresh'
    BY <1>0, <1>2 DEF IInv, Generated
  <2>2. \A p \in Copies' : \A v \in Secrets(p.row) : v <= fresh'
    BY <1>0, <1>1, <1>2 DEF IInv, Generated
  <2>3. \A d \in Devices : device'[d] <= fresh'
    BY <1>0, <1>2 DEF IInv, Generated
  <2>4. \A p \in Pushes' : p.old <= fresh'
    BY <1>0, <1>1, <1>2 DEF IInv, Generated
  <2>5. \A v \in Values : v > fresh' => ~Retired(v)'
    BY <1>0, <1>4 DEF IInv, Generated
  <2> QED
    BY <2>1, <2>2, <2>3, <2>4, <2>5 DEF Generated
<1>8. RetiredGone'
  <2>1. \A v \in Secrets(user) : ~Retired(v)'
    BY <1>2, <1>4 DEF IInv, RetiredGone, TokensAreNotSecrets
  <2>2. \A p \in Copies' : \A v \in Secrets(p.row) : ~Retired(v)'
    BY <1>1, <1>2, <1>4 DEF IInv, RetiredGone, TokensAreNotSecrets
  <2>3. \A d \in Devices : (device[d] # None => ~Retired(device[d]))'
    <3> SUFFICES ASSUME NEW d \in Devices, device'[d] # None
                 PROVE  ~Retired(device[d])'
      OBVIOUS
    <3>1. device'[d] \in Values
      OBVIOUS
    <3>2. ~Retired(device'[d])
      BY <1>0, <1>2, <3>1 DEF IInv, RetiredGone, Generated
    <3> QED
      BY <1>4, <3>1, <3>2
  <2>4. \A p \in Pushes' : ~Retired(p.old)'
    BY <1>1, <1>2, <1>4, <1>5 DEF IInv, RetiredGone
  <2> QED
    BY <2>1, <2>2, <2>3, <2>4 DEF RetiredGone
<1>9. TokensAreNotSecrets'
  <2>1. \A d \in Devices : device'[d] \notin Secrets(user)
    BY <1>0, <1>2, <1>3 DEF IInv, TokensAreNotSecrets, Generated
  <2>2. \A p \in Copies : \A d \in Devices : device'[d] \notin Secrets(p.row)
    <3> SUFFICES ASSUME NEW p \in Copies, NEW d \in Devices
                 PROVE  device'[d] \notin Secrets(p.row)
      OBVIOUS
    <3>1. \A v \in Secrets(p.row) : v \in Values /\ v <= fresh
      BY <1>2 DEF IInv, Generated
    <3>2. device[d] \notin Secrets(p.row) /\ None \notin Secrets(p.row)
      BY <1>3 DEF IInv, TokensAreNotSecrets
    <3>3. q \in Pushes => q.old \notin Secrets(p.row)
      BY DEF IInv, TokensAreNotSecrets
    <3>4. fresh + 1 \notin Secrets(p.row)
      BY <1>0, <3>1
    <3> QED
      BY <3>2, <3>3, <3>4
  <2> QED
    BY <1>1, <2>1, <2>2 DEF IInv, TokensAreNotSecrets
<1>10. TokensOfOneDevice'
  <2>1. RefreshTokensDistinct'
    BY <1>0, <1>2 DEF IInv, TokensOfOneDevice, RefreshTokensDistinct, Generated
  <2>2. \A p \in Pushes' : \A d \in Devices : device'[d] = p.old => d = p.dev
    BY <1>0, <1>1, <1>2 DEF IInv, TokensOfOneDevice, Generated
  <2> QED
    BY <1>1, <2>1, <2>2 DEF IInv, TokensOfOneDevice
<1>11. OnlyEnable'
  BY <1>1 DEF IInv, OnlyEnable
<1>12. NoWriters'
  BY DEF NoWriters
<1> QED
  BY <1>6, <1>7, <1>8, <1>9, <1>10, <1>11, <1>12 DEF IInv

\* The writes of the devices table are of that kind.
LEMMA WritePreserves ==
    ASSUME IInv, NEW q \in req, Write(q)
    PROVE  IInv'
<1> USE FreshAssumption DEF Values, None
<1>0. /\ user \in User /\ device \in [Devices -> Values \cup {None}]
      /\ IsRequest(q)
      /\ fresh \in Values /\ fresh <= fresh
      /\ access \subseteq [device : Devices, stamp : Values]
      /\ out \in [Devices -> {"no", "quiet", "raced"}]
  BY DEF IInv, TypeOK
<1>1. CASE save_user(q)
  BY <1>1, SaveUserPreserves
<1>2. \A d \in Devices : req' = req \ {q} => DeviceWriters(d)' \subseteq DeviceWriters(d)
  BY DEF DeviceWriters
<1>3. CASE sweep(q)
  <2> DEFINE lost == {device[d] : d \in Devices} \ {None}
  <2>1. /\ req' = req \ {q} /\ device' = [d \in Devices |-> None]
        /\ fate' = FateAfter(lost, HeldTokens(q))
        /\ out' = [d \in Devices |-> SignedOut(d, "no")]
        /\ UNCHANGED <<user, access, fresh, ban>>
    BY <1>3 DEF sweep
  <2>2. /\ \A v \in lost : \E d \in Devices : v = device[d]
        /\ None \notin lost
    OBVIOUS
  <2>3. /\ out' \in [Devices -> {"no", "quiet", "raced"}]
        /\ \A d \in Devices : out'[d] = "quiet" => DeviceWriters(d)' = {}
    BY <1>2, <2>1 DEF SignedOut
  <2> HIDE DEF lost
  <2> QED
    BY <1>0, <2>1, <2>2, <2>3, DeviceWritePreserves
<1>4. CASE save_push(q)
  <2> DEFINE lost == {device[q.dev]} \ {q.old, None}
  <2>1. /\ q.at = "save_push"
        /\ req' = req \ {q} /\ device' = [device EXCEPT ![q.dev] = q.old]
        /\ fate' = FateAfter(lost, HeldTokens(q))
        /\ UNCHANGED <<user, access, fresh, ban, out>>
    BY <1>4 DEF save_push
  <2>2. q \in Pushes /\ q.dev \in Devices /\ q.old \in Values
    BY <1>0, <2>1 DEF Pushes, IsRequest, HoldsDevice
  <2>3. \A d \in Devices : device'[d] \notin lost
    BY <1>0, <2>1, <2>2 DEF IInv, TokensOfOneDevice, RefreshTokensDistinct
  <2>4. \A d \in Devices : out'[d] = "quiet" => device'[d] = None /\ DeviceWriters(d)' = {}
    <3>1. q \in DeviceWriters(q.dev)
      BY <2>1 DEF DeviceWriters
    <3> QED
      BY <1>0, <1>2, <2>1, <2>2, <3>1 DEF IInv, NoWriters
  <2>5. \A v \in lost : \E d \in Devices : v = device[d]
    BY <2>2
  <2> HIDE DEF lost
  <2> QED
    BY <1>0, <2>1, <2>2, <2>3, <2>4, <2>5, DeviceWritePreserves
<1>5. CASE delete(q)
  <2> DEFINE lost == {device[q.dev]} \ {None}
  <2>1. /\ q.at = "delete"
        /\ req' = req \ {q} /\ device' = [device EXCEPT ![q.dev] = None]
        /\ fate' = FateAfter(lost, HeldTokens(q))
        /\ out' = [out EXCEPT ![q.dev] = SignedOut(q.dev, "raced")]
        /\ UNCHANGED <<user, access, fresh, ban>>
    BY <1>5 DEF delete
  <2>2. q.dev \in Devices
    BY <1>0, <2>1 DEF IsRequest, HoldsDevice
  <2>3. \A d \in Devices : device'[d] \notin lost
    BY <1>0, <2>1, <2>2 DEF IInv, TokensOfOneDevice, RefreshTokensDistinct
  <2>4. /\ out' \in [Devices -> {"no", "quiet", "raced"}]
        /\ \A d \in Devices : out'[d] = "quiet" =>
               device'[d] = None /\ DeviceWriters(d)' = {}
    BY <1>0, <1>2, <2>1, <2>2 DEF IInv, NoWriters, SignedOut
  <2>5. \A v \in lost : \E d \in Devices : v = device[d]
    BY <2>2
  <2> HIDE DEF lost
  <2> QED
    BY <1>0, <2>1, <2>2, <2>3, <2>4, <2>5, DeviceWritePreserves
<1>6. CASE issue(q)
  <2> DEFINE lost == {device[q.dev]} \ {None}
  <2>1. /\ q.at \in {"login", "refresh"} /\ Generate(1)
        /\ req' = req \ {q} /\ device' = [device EXCEPT ![q.dev] = fresh + 1]
        /\ access' = access \cup {[device |-> q.dev, stamp |-> q.row.stamp]}
        /\ fate' = FateAfter(lost, HeldTokens(q))
        /\ out' = [out EXCEPT ![q.dev] = IF q.at = "login" THEN "no" ELSE @]
        /\ UNCHANGED <<user, ban>>
    BY <1>6 DEF issue
  <2>2. q.dev \in Devices /\ q.row \in User /\ q.row.stamp \in Values
    BY <1>0, <2>1 DEF IsRequest, HoldsDevice, HoldsRow, User
  <2>3. fresh' = fresh + 1 /\ fresh' \in Values /\ fresh < fresh' /\ fresh <= fresh'
    BY <1>0, <2>1, GenerateGrows DEF Generate
  <2>4. access' \subseteq [device : Devices, stamp : Values]
    BY <1>0, <2>1, <2>2
  <2>5. device' \in [Devices -> Values \cup {None}]
    BY <1>0, <2>1, <2>2, <2>3
  <2>6. \A d \in Devices : device'[d] \notin lost
    BY <1>0, <2>1, <2>2, <2>3
    DEF IInv, TokensOfOneDevice, RefreshTokensDistinct, Generated
  <2>7. /\ out' \in [Devices -> {"no", "quiet", "raced"}]
        /\ \A d \in Devices : out'[d] = "quiet" =>
               device'[d] = None /\ DeviceWriters(d)' = {}
    <3>1. q.at = "refresh" => q \in DeviceWriters(q.dev)
      BY DEF DeviceWriters
    <3> QED
      BY <1>0, <1>2, <2>1, <2>2, <3>1 DEF IInv, NoWriters
  <2>8. \A v \in lost : \E d \in Devices : v = device[d]
    BY <2>2
  <2>9. \A d \in Devices : \/ device'[d] = device[d]
                           \/ d = q.dev /\ device'[d] = fresh + 1 /\ fresh < fresh'
    BY <1>0, <2>1, <2>2, <2>3
  <2> HIDE DEF lost
  <2> QED
    BY <1>0, <2>1, <2>3, <2>4, <2>5, <2>6, <2>7, <2>8, <2>9, DeviceWritePreserves
<1> QED
  BY <1>1, <1>3, <1>4, <1>5, <1>6 DEF Write

-----------------------------------------------------------------------------
(* The theorems. *)

\* The invariant holds of every reachable state.
THEOREM Invariance == Spec => []IInv
<1>1. Init => IInv
  <2> SUFFICES ASSUME Init PROVE IInv
    OBVIOUS
  <2>1. TypeOK
    BY FreshAssumption DEF Init, TypeOK, User, Values, None
  <2>2. Copies = {} /\ Pushes = {} /\ Secrets(user) = {1, 2}
    BY DEF Init, Copies, Pushes, Secrets, None
  <2>3. Generated /\ RetiredGone /\ TokensAreNotSecrets /\ TokensOfOneDevice
    BY <2>2, FreshAssumption
    DEF Init, Generated, RetiredGone, TokensAreNotSecrets, TokensOfOneDevice,
        RefreshTokensDistinct, Retired, Values, None
  <2>4. OnlyEnable /\ NoWriters
    BY DEF Init, OnlyEnable, NoWriters
  <2> QED
    BY <2>1, <2>3, <2>4 DEF IInv
<1>2. IInv /\ [Next]_vars => IInv'
  <2> SUFFICES ASSUME IInv, [Next]_vars PROVE IInv'
    OBVIOUS
  <2>1. ASSUME NEW r \in Requests, Begin(r) PROVE IInv'
    BY <2>1, BeginPreserves
  <2>2. ASSUME NEW q \in req, Proceed(q) PROVE IInv'
    BY <2>2, ProceedPreserves
  <2>3. ASSUME NEW q \in req, Write(q) PROVE IInv'
    BY <2>3, WritePreserves
  <2>4. ASSUME NEW q \in req, fail(q) PROVE IInv'
    BY <2>4, FinishPreserves DEF fail
  <2>5. CASE UNCHANGED vars
    <3>1. fresh' \in Values /\ fresh <= fresh'
      BY <2>5, FreshAssumption DEF vars, IInv, TypeOK, Values
    <3> QED
      BY <2>5, <3>1, MovePreserves DEF vars
  <2> QED
    BY <2>1, <2>2, <2>3, <2>4, <2>5 DEF Next
<1> QED
  BY <1>1, <1>2, PTL DEF Spec

\* Every variable keeps its type.
THEOREM TypeCorrect == Spec => []TypeOK
<1>1. IInv => TypeOK
  BY DEF IInv
<1> QED
  BY <1>1, Invariance, PTL

\* A stamp, password, API key or refresh token that was replaced while no
\* request in flight held a copy of it is never in the tables again.
THEOREM RotationIsFinal == Spec => []RotationHolds
<1>1. IInv => RotationHolds
  BY FreshAssumption
  DEF IInv, RetiredGone, RotationHolds, Retired, Values, None
<1> QED
  BY <1>1, Invariance, PTL

\* An account disabled while no request in flight held its row enabled stays
\* disabled until admin_enable_user.
THEOREM DisablingIsFinal == Spec => []DisabledHolds
<1>1. IInv => DisabledHolds
  BY DEF IInv, OnlyEnable, Copies, DisabledHolds
<1> QED
  BY <1>1, Invariance, PTL

\* A device signed out while no request in flight was to write its row has no
\* row until the next login on it.
THEOREM SignOutIsFinal == Spec => []SignOutHolds
<1>1. IInv => SignOutHolds
  BY DEF IInv, NoWriters, SignOutHolds
<1> QED
  BY <1>1, Invariance, PTL

\* Two devices never share a refresh token.
THEOREM RefreshTokensUnambiguous == Spec => []RefreshTokensDistinct
<1>1. IInv => RefreshTokensDistinct
  BY DEF IInv, TokensOfOneDevice
<1> QED
  BY <1>1, Invariance, PTL

\* A signed-out device stays out, and refresh tokens are not shared.
THEOREM DevicesAlwaysHold == Spec => []DevicesHold
<1>1. SignOutHolds /\ RefreshTokensDistinct => DevicesHold
  BY DEF DevicesHold
<1> QED
  BY <1>1, SignOutIsFinal, RefreshTokensUnambiguous, PTL

-----------------------------------------------------------------------------
(* Requests to log in with another device, for any number of them, any window *)
(* and any age at which they are purged.                                      *)

CONSTANTS Ids, Window, Day

VARIABLES a_row, a_req, age, denied, late

AR == INSTANCE AuthRequests WITH row <- a_row, req <- a_req

\* A copy that was loaded is as old as its request, even when the row is gone.
CopiesAged == \A q \in a_req : q.copy.age = age[q.of] /\ ~AR!Fresh(q.of)

\* The row of a request that was denied alone says so, or is gone.
DeniedRows == \A i \in denied : a_row[i].approved # "yes"

AnswersInv == AR!TypeOK /\ CopiesAged /\ DeniedRows /\ late = {}

\* A row ages without changing its answer.
LEMMA AgedRow ==
    ASSUME Day \in Nat, NEW x \in AR!Row
    PROVE  /\ x # AR!NoRow /\ AR!Aged(x) \in AR!Row
           /\ AR!Aged(x).approved = x.approved /\ AR!Aged(x).age = AR!Older(x.age)
  BY DEF AR!Row, AR!NoRow, AR!Aged, AR!Older

\* create_request, the answers, and the grant.
LEMMA AnswerStep ==
    ASSUME Day \in Nat, Window \in Nat, AnswersInv,
           \/ \E i \in Ids : AR!create_request(i) \/ AR!auth_request_grant(i)
           \/ \E r \in Requests, i \in Ids, b \in {"yes", "no"} : AR!respond_request(r, i, b)
           \/ \E q \in a_req : AR!save(q) \/ AR!fail(q)
    PROVE  AnswersInv'
<1>1. ASSUME NEW i \in Ids, AR!create_request(i) PROVE AnswersInv'
  <2>1. /\ a_row' = [a_row EXCEPT ![i] = [approved |-> "pending", age |-> 0]]
        /\ AR!Fresh(i) /\ UNCHANGED <<a_req, age, denied, late>>
    BY <1>1 DEF AR!create_request
  <2>2. [approved |-> "pending", age |-> 0] \in AR!Row
    BY DEF AR!Row
  <2>3. AR!TypeOK'
    BY <2>1, <2>2 DEF AnswersInv, AR!TypeOK, AR!Fresh
  <2>4. CopiesAged'
    BY <2>1 DEF AnswersInv, CopiesAged, AR!Fresh, AR!TypeOK, AR!Answer
  <2>5. DeniedRows'
    BY <2>1 DEF AnswersInv, DeniedRows, AR!TypeOK
  <2> QED
    BY <2>1, <2>3, <2>4, <2>5 DEF AnswersInv
<1>2. ASSUME NEW i \in Ids, AR!auth_request_grant(i) PROVE AnswersInv'
  <2>1. AR!Granted(i) /\ UNCHANGED <<a_row, a_req, age, denied>>
        /\ late' = IF age[i] > Window THEN late \cup {i} ELSE late
    BY <1>2 DEF AR!auth_request_grant
  <2>2. a_row[i] # AR!NoRow
    BY <2>1 DEF AR!Granted, AR!NoRow
  <2>3. ~(age[i] > Window)
    BY <2>1, <2>2 DEF AR!Granted, AnswersInv, AR!TypeOK
  <2> QED
    BY <2>1, <2>3 DEF AnswersInv, AR!TypeOK, CopiesAged, DeniedRows, AR!Fresh
<1>3. ASSUME NEW r \in Requests, NEW i \in Ids, NEW b \in {"yes", "no"}, AR!respond_request(r, i, b)
      PROVE  AnswersInv'
  <2> DEFINE copy == [a_row[i] EXCEPT !.approved = b]
             new == [id |-> r, of |-> i, copy |-> copy]
  <2>1. /\ AR!Free(r) /\ a_row[i] # AR!NoRow /\ a_req' = a_req \cup {new}
        /\ UNCHANGED <<a_row, age, denied, late>>
    BY <1>3 DEF AR!respond_request
  <2>2. a_row[i] \in AR!Row /\ a_row[i].age = age[i]
    BY <2>1 DEF AnswersInv, AR!TypeOK
  <2>3. copy \in AR!Row /\ copy.age = age[i]
    BY <2>2 DEF AR!Row
  <2> HIDE DEF copy
  <2>4. new \in AR!Answer /\ new.copy.age = age[new.of] /\ new.id = r /\ new.of = i
    BY <2>3 DEF AR!Answer
  <2> HIDE DEF new
  <2>5. AR!TypeOK'
    BY <2>1, <2>4 DEF AnswersInv, AR!TypeOK, AR!Free
  <2>6. CopiesAged'
    BY <2>1, <2>4 DEF AnswersInv, CopiesAged, AR!Fresh
  <2> QED
    BY <2>1, <2>5, <2>6 DEF AnswersInv, DeniedRows
<1>4. ASSUME NEW q \in a_req, AR!save(q) PROVE AnswersInv'
  <2>1. /\ a_req' = a_req \ {q} /\ a_row' = [a_row EXCEPT ![q.of] = q.copy]
        /\ denied' = (IF q.copy.approved = "no" /\ \A p \in a_req \ {q} : p.of # q.of
                      THEN denied \cup {q.of} ELSE denied \ {q.of})
        /\ UNCHANGED <<age, late>>
    BY <1>4 DEF AR!save, AR!Saved
  <2>2. q.of \in Ids /\ q.copy \in AR!Row /\ q.copy.age = age[q.of]
    BY DEF AnswersInv, AR!TypeOK, AR!Answer, CopiesAged
  <2>3. AR!TypeOK'
    BY <2>1, <2>2 DEF AnswersInv, AR!TypeOK
  <2>4. CopiesAged'
    <3>1. ASSUME NEW p \in a_req' PROVE p.copy.age = age'[p.of] /\ ~AR!Fresh(p.of)'
      <4>1. p.of \in Ids /\ p.copy.age = age[p.of] /\ ~AR!Fresh(p.of)
        BY <2>1 DEF AnswersInv, CopiesAged, AR!TypeOK, AR!Answer
      <4>2. q.copy # AR!NoRow
        BY <2>2, AgedRow
      <4> QED
        BY <2>1, <2>2, <4>1, <4>2 DEF AR!Fresh, AnswersInv, AR!TypeOK
    <3> QED
      BY <3>1 DEF CopiesAged
  <2>5. DeniedRows'
    BY <2>1, <2>2 DEF AnswersInv, DeniedRows, AR!TypeOK
  <2> QED
    BY <2>1, <2>3, <2>4, <2>5 DEF AnswersInv
<1>5. ASSUME NEW q \in a_req, AR!fail(q) PROVE AnswersInv'
  BY <1>5 DEF AR!fail, AnswersInv, AR!TypeOK, CopiesAged, DeniedRows, AR!Fresh
<1> QED
  BY <1>1, <1>2, <1>3, <1>4, <1>5

\* The purge, and the passing of time.
LEMMA TimeStep ==
    ASSUME Day \in Nat, AnswersInv, AR!purge_old \/ AR!Tick
    PROVE  AnswersInv'
<1>1. CASE AR!purge_old
  <2>1. /\ a_row' = [i \in Ids |-> IF AR!Overdue(i) THEN AR!NoRow ELSE a_row[i]]
        /\ UNCHANGED <<a_req, age, denied, late>>
    BY <1>1 DEF AR!purge_old
  <2>2. \A i \in Ids : AR!Overdue(i) => age[i] # 0
    BY DEF AR!Overdue, AnswersInv, AR!TypeOK
  <2>3. AR!TypeOK'
    BY <2>1 DEF AnswersInv, AR!TypeOK
  <2>4. CopiesAged'
    <3>1. ASSUME NEW p \in a_req PROVE p.copy.age = age[p.of] /\ ~AR!Fresh(p.of)'
      <4>1. p.of \in Ids /\ p.copy.age = age[p.of] /\ ~AR!Fresh(p.of)
        BY DEF AnswersInv, CopiesAged, AR!TypeOK, AR!Answer
      <4> QED
        BY <2>1, <2>2, <4>1 DEF AR!Fresh
    <3> QED
      BY <2>1, <3>1 DEF CopiesAged
  <2>5. DeniedRows'
    BY <2>1 DEF AnswersInv, DeniedRows, AR!TypeOK, AR!NoRow
  <2> QED
    BY <2>1, <2>3, <2>4, <2>5 DEF AnswersInv
<1>2. CASE AR!Tick
  <2>1. /\ a_row' = [i \in Ids |-> AR!Aged(a_row[i])]
        /\ a_req' = {[q EXCEPT !.copy = AR!Aged(q.copy)] : q \in a_req}
        /\ age' = [i \in Ids |-> IF AR!Fresh(i) THEN 0 ELSE AR!Older(age[i])]
        /\ UNCHANGED <<denied, late>>
    BY <1>2 DEF AR!Tick
  <2>2. \A n \in 0 .. Day + 1 : AR!Older(n) \in 0 .. Day + 1 /\ AR!Older(n) # 0
    BY DEF AR!Older
  <2>3. age' \in [Ids -> 0 .. Day + 1]
    BY <2>1, <2>2 DEF AnswersInv, AR!TypeOK
  <2>4. ASSUME NEW i \in Ids
        PROVE  /\ a_row'[i] \in AR!Row \cup {AR!NoRow}
               /\ a_row'[i] # AR!NoRow => a_row'[i].age = age'[i]
               /\ a_row'[i].approved = a_row[i].approved
               /\ a_row'[i] = AR!NoRow <=> a_row[i] = AR!NoRow
    <3>1. CASE a_row[i] = AR!NoRow
      BY <2>1, <3>1 DEF AR!Aged
    <3>2. CASE a_row[i] # AR!NoRow
      <4>1. a_row[i] \in AR!Row /\ a_row[i].age = age[i]
        BY <3>2 DEF AnswersInv, AR!TypeOK
      <4>2. a_row'[i] = AR!Aged(a_row[i]) /\ age'[i] = AR!Older(age[i])
        BY <2>1, <3>2 DEF AR!Fresh
      <4> QED
        BY <3>2, <4>1, <4>2, AgedRow
    <3> QED
      BY <3>1, <3>2
  <2>5. ASSUME NEW p \in a_req'
        PROVE  \E q \in a_req : /\ p.id = q.id /\ p.of = q.of /\ p.copy = AR!Aged(q.copy)
                                /\ p = [q EXCEPT !.copy = AR!Aged(q.copy)]
                                /\ p \in AR!Answer /\ p.copy.age = age'[p.of] /\ ~AR!Fresh(p.of)'
    <3>1. PICK q \in a_req : p = [q EXCEPT !.copy = AR!Aged(q.copy)]
      BY <2>1
    <3>2. q \in AR!Answer /\ q.of \in Ids /\ q.copy \in AR!Row
          /\ q.copy.age = age[q.of] /\ ~AR!Fresh(q.of)
      BY DEF AnswersInv, AR!TypeOK, AR!Answer, CopiesAged
    <3>3. p.id = q.id /\ p.of = q.of /\ p.copy = AR!Aged(q.copy)
      BY <3>1, <3>2 DEF AR!Answer
    <3>4. p \in AR!Answer
      BY <3>1, <3>2, AgedRow DEF AR!Answer
    <3>5. p.copy.age = age'[p.of]
      BY <2>1, <3>2, <3>3, AgedRow
    <3>6. ~AR!Fresh(p.of)'
      <4>1. age[q.of] \in 0 .. Day + 1
        BY <3>2 DEF AnswersInv, AR!TypeOK
      <4>2. age'[q.of] # 0
        BY <2>1, <2>2, <3>2, <4>1
      <4> QED
        BY <3>3, <4>2 DEF AR!Fresh
    <3> QED
      BY <3>1, <3>3, <3>4, <3>5, <3>6
  <2>6. AR!TypeOK'
    <3>1. a_req' \subseteq AR!Answer
      BY <2>5
    <3>2. \A p, q \in a_req' : p.id = q.id => p = q
      BY <2>5 DEF AnswersInv, AR!TypeOK
    <3>3. a_row' \in [Ids -> AR!Row \cup {AR!NoRow}]
      BY <2>1, <2>4
    <3> QED
      BY <2>1, <2>3, <2>4, <3>1, <3>2, <3>3 DEF AnswersInv, AR!TypeOK
  <2>7. CopiesAged'
    BY <2>5 DEF CopiesAged
  <2>8. DeniedRows'
    BY <2>1, <2>4 DEF AnswersInv, AR!TypeOK, DeniedRows
  <2> QED
    BY <2>1, <2>6, <2>7, <2>8 DEF AnswersInv
<1> QED
  BY <1>1, <1>2

\* A denial that overlapped no other answer is never granted, and no request is
\* granted after its window, not even one that a late answer inserts again
\* after the purge: the copy it writes back has kept the age of the request.
THEOREM AnswersAlwaysHold ==
    ASSUME Window \in Nat, Day \in Nat
    PROVE  AR!Spec => []AR!AnswersHold
<1>1. AR!Init => AnswersInv
  BY DEF AR!Init, AnswersInv, AR!TypeOK, CopiesAged, DeniedRows, AR!NoRow
<1>2. AnswersInv /\ [AR!Next]_(AR!vars) => AnswersInv'
  <2> SUFFICES ASSUME AnswersInv, [AR!Next]_(AR!vars) PROVE AnswersInv'
    OBVIOUS
  <2>1. CASE UNCHANGED AR!vars
    BY <2>1 DEF AR!vars, AnswersInv, AR!TypeOK, CopiesAged, DeniedRows, AR!Fresh
  <2> QED
    BY <2>1, AnswerStep, TimeStep DEF AR!Next
<1>3. AnswersInv => AR!AnswersHold
  BY DEF AnswersInv, AR!AnswersHold, AR!DenialHolds, AR!WindowHolds, DeniedRows, AR!Granted
<1> QED
  BY <1>1, <1>2, <1>3, PTL DEF AR!Spec
=============================================================================
