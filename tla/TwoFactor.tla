----------------------------- MODULE TwoFactor -----------------------------
(* The second factors of one user: the rows of twofactor, the handlers that  *)
(* enrol and remove them, the codes that are mailed and the two-factor part  *)
(* of a login (module IncompleteLogins has the reminders about logins that   *)
(* stopped there).                                                           *)
(*                                                                           *)
(* The table holds enrolled factors as well as codes for protected actions,  *)
(* remember tokens and pending enrolments, at most one row of each type.  A  *)
(* handler reads a row and then saves the copy it edited, or deletes it, by  *)
(* its uuid.                                                                 *)
EXTENDS Integers

CONSTANTS
    Uuids,         \* the uuids that TwoFactor::new may generate
    Tokens,        \* the codes that random_email_token and random_otp may generate
    Devices,       \* device identifiers
    Keys,          \* ids of webauthn credentials
    Requests,      \* requests that may be in flight at once
    AttemptLimit,  \* EMAIL_ATTEMPT_LIMIT and PROTECTED_OTP_MAX_ATTEMPTS
    NoToken

ASSUME ConstantsAssumption ==
    /\ NoToken \notin Tokens
    /\ AttemptLimit \in Nat \ {0}

VARIABLES
    twofactor,   \* the rows of the user
    req,         \* requests in flight
    used,        \* HISTORY: uuids and codes that were generated
    gone,        \* HISTORY: uuids of rows deleted while no one was to save them
    spent,       \* HISTORY: codes accepted while no other request held them
    wrong,       \* HISTORY: how often a wrong code was checked against a code
    raced        \* HISTORY: codes that two requests held at once, or whose
                 \* row could not be written

history == <<used, gone, spent, wrong, raced>>
vars == <<twofactor, req, history>>

\* atype; the last two are 1000 and more.
Types == {"authenticator", "email", "yubikey", "protected", "remember", "webauthn",
          "email_challenge", "webauthn_challenge"}

\* The factors that a user enrols.
Factors == {"authenticator", "email", "yubikey", "webauthn"}

\* data: the code mailed and the attempts at it, or the credentials, or the
\* device that is remembered.
Row == [uuid : Uuids, atype : Types, token : Tokens \cup {NoToken},
        attempts : 0 .. AttemptLimit + 1, keys : SUBSET (Keys \cup Devices)]

new(u, t, token, K) == [uuid |-> u, atype |-> t, token |-> token, attempts |-> 0, keys |-> K]

reset_token(x) == [x EXCEPT !.token = NoToken, !.attempts = 0]

find_by_user_and_type(t) == {x \in twofactor : x.atype = t}

\* The factors that password_grant asks for.
active == {x \in twofactor : x.atype \notin {"email_challenge", "webauthn_challenge"}}

\* UNIQUE (user_uuid, atype), for the upsert by uuid.
Conflicts(x) == \E y \in twofactor : y.atype = x.atype /\ y.uuid # x.uuid

Saved(x) == {y \in twofactor : y.uuid # x.uuid} \cup {x}

-----------------------------------------------------------------------------
(* Requests in flight.  At "delete" and "save" they hold copies of rows; then *)
(* is where they go on, and code is the code that they read and checked.      *)

Free(r) == \A q \in req : q.id # r

Begin(r, dev) ==
    [id |-> r, at |-> "done", rows |-> {}, then |-> "done", dev |-> dev, code |-> NoToken,
     touched |-> {}]

Goto(q, at) == [q EXCEPT !.at = at, !.rows = {}, !.then = "done", !.code = NoToken]

\* The handler goes on with the deletion of these rows, if there are any.
ToDelete(q, rows, then) ==
    IF rows = {} THEN Goto(q, then)
                 ELSE [q EXCEPT !.at = "delete", !.rows = rows, !.then = then]

ToSave(q, x, then, code) ==
    [q EXCEPT !.at = "save", !.rows = {x}, !.then = then, !.code = code]

\* The codes that a request has read and not written back.
Held(q) == ({q.code} \cup {x.token : x \in q.rows}) \ {NoToken}

Others(q) == {p \in req : p.id # q.id}

\* The request goes on as p; at "done" it has responded.
Step(q, p) ==
    /\ req' = Others(q) \cup {x \in {p} : x.at # "done"}
    /\ raced' = raced \cup (Held(p) \cap UNION {Held(o) : o \in Others(q)})

Start(r, p) == Free(r) /\ Step(p, p)

Savers(u) == {q \in req : q.at = "save" /\ \E x \in q.rows : x.uuid = u}

\* HISTORY: recover does not answer for a row that is written while it runs,
\* unless it deletes the row after that.
Touch(S, u) ==
    {IF "cleared" \in {q.at, q.then} THEN [q EXCEPT !.touched = @ \cup {u}] ELSE q : q \in S}

\* Rows X go.  HISTORY: the rows U were to be deleted, and the requests S go on.
Deletes(X, U, S) ==
    /\ twofactor' = twofactor \ X
    /\ gone' = gone \cup {u \in U : Savers(u) = {}}
    /\ spent' = spent \cup (({x.token : x \in X} \ {NoToken}) \ (raced \cup UNION {Held(o) : o \in S}))

Reads == UNCHANGED <<twofactor, used, gone, spent, wrong>>

-----------------------------------------------------------------------------
(* Enrolment by one INSERT. *)

Post(u, t, token, K) ==
    /\ u \in Uuids \ used
    /\ ~Conflicts(new(u, t, token, K))
    /\ twofactor' = twofactor \cup {new(u, t, token, K)}

Enrols(u, t) ==
    /\ Post(u, t, NoToken, {})
    /\ used' = used \cup {u}
    /\ req' = Touch(req, u)
    /\ UNCHANGED <<gone, spent, wrong, raced>>

activate_authenticator(u) == Enrols(u, "authenticator")
yubikey(u) == Enrols(u, "yubikey")
generate_challenge(u) == Enrols(u, "webauthn_challenge")

\* disable_method, disable_authenticator
disable_method(r, t) ==
    /\ find_by_user_and_type(t) # {}
    /\ Start(r, ToDelete(Begin(r, r), find_by_user_and_type(t), "done"))
    /\ Reads

-----------------------------------------------------------------------------
(* Email. *)

send_email_2fa(r) ==
    /\ Start(r, ToDelete(Begin(r, r), find_by_user_and_type("email"), "find_challenge"))
    /\ Reads

find_challenge(q) ==
    /\ q.at = "find_challenge"
    /\ Step(q, ToDelete(q, find_by_user_and_type("email_challenge"), "post_challenge"))
    /\ Reads

\* The last statement of send_email_2fa and of request_otp.
post(q, u, t) ==
    /\ q.at \in {"post_challenge", "post_otp"}
    /\ t \in Tokens \ used
    /\ Post(u, IF q.at = "post_otp" THEN "protected" ELSE "email_challenge", t, {})
    /\ used' = used \cup {u, t}
    /\ req' = Touch(req \ {q}, u)
    /\ UNCHANGED <<gone, spent, wrong, raced>>

\* The code is right, or it has expired.  A wrong one changes nothing.
activate_email_2fa(r, expired) ==
    /\ \E x \in find_by_user_and_type("email_challenge") :
          /\ x.token # NoToken
          /\ LET y == reset_token(x)
             IN  Start(r, ToSave(Begin(r, r), IF expired THEN y ELSE [y EXCEPT !.atype = "email"],
                                 "done", IF expired THEN NoToken ELSE x.token))
    /\ Reads

\* q has read the row of the email factor and will save a new code.
NewCode(q, then, x, t) ==
    /\ t \in Tokens \ used
    /\ Step(q, ToSave(q, [x EXCEPT !.token = t, !.attempts = 0], then, x.token))
    /\ used' = used \cup {t}
    /\ UNCHANGED <<twofactor, gone, spent, wrong>>

\* send_email_login; a login that names the email factor without a code.
send_email_login(r, t) ==
    /\ Free(r)
    /\ \E x \in find_by_user_and_type("email") : NewCode(Begin(r, r), "done", x, t)

-----------------------------------------------------------------------------
(* WebAuthn. *)

activate_webauthn(r, k) ==
    /\ Start(r, ToDelete(Begin(r, k), find_by_user_and_type("webauthn_challenge"), "find_credentials"))
    /\ Reads

\* A credential that is registered already is refused.
find_credentials(q, u) ==
    /\ q.at = "find_credentials"
    /\ LET found == find_by_user_and_type("webauthn")
       IN  IF found = {}
           THEN /\ u \in Uuids \ used
                /\ used' = used \cup {u}
                /\ Step(q, ToSave(q, new(u, "webauthn", NoToken, {q.dev}), "done", NoToken))
           ELSE \E x \in found :
                /\ Step(q, IF q.dev \in x.keys THEN Goto(q, "done")
                           ELSE ToSave(q, [x EXCEPT !.keys = @ \cup {q.dev}], "done", NoToken))
                /\ UNCHANGED used
    /\ UNCHANGED <<twofactor, gone, spent, wrong>>

\* The name of a credential is no part of the model: the copy is saved as read.
rename_webauthn(r, k) ==
    /\ \E x \in find_by_user_and_type("webauthn") :
          k \in x.keys /\ Start(r, ToSave(Begin(r, k), x, "done", NoToken))
    /\ Reads

\* The row goes with the last credential.
delete_webauthn(r, k) ==
    /\ \E x \in find_by_user_and_type("webauthn") :
          /\ k \in x.keys
          /\ Start(r, IF x.keys = {k} THEN ToDelete(Begin(r, k), {x}, "done")
                      ELSE ToSave(Begin(r, k), [x EXCEPT !.keys = @ \ {k}], "done", NoToken))
    /\ Reads

-----------------------------------------------------------------------------
(* Codes for protected actions, recovery and the administrator. *)

request_otp(r) ==
    /\ Start(r, ToDelete(Begin(r, r), find_by_user_and_type("protected"), "post_otp"))
    /\ Reads

\* HISTORY: one more wrong guess; the count stops once it is too high.
Guess(t) == [wrong EXCEPT ![t] = IF @ > AttemptLimit THEN @ ELSE @ + 1]

Outcomes == {"right", "wrong", "expired"}

\* MUTANT: the attempt is counted after the check that limits them.
verify_otp_CountsLate(r, o) ==
    /\ \E x \in find_by_user_and_type("protected") :
          LET y == [x EXCEPT !.attempts = @ + 1]
          IN  /\ Start(r, IF o = "wrong" /\ x.attempts <= AttemptLimit
                          THEN ToSave(Begin(r, r), y, "done", x.token)
                          ELSE ToDelete(Begin(r, r), {x}, "done"))
              /\ wrong' = IF o = "wrong" THEN Guess(x.token) ELSE wrong
    /\ UNCHANGED <<twofactor, used, gone, spent>>

verify_otp(r, o) ==
    /\ \E x \in find_by_user_and_type("protected") :
          LET y == [x EXCEPT !.attempts = @ + 1]
              checked == o = "wrong" /\ y.attempts <= AttemptLimit
          IN  /\ Start(r, IF checked THEN ToSave(Begin(r, r), y, "done", x.token)
                          ELSE ToDelete(Begin(r, r), {x}, "done"))
              /\ wrong' = IF checked THEN Guess(x.token) ELSE wrong
    /\ UNCHANGED <<twofactor, used, gone, spent>>

\* MUTANT: only what the user enrolled is deleted.
recover_FactorsOnly(r) ==
    /\ Start(r, ToDelete(Begin(r, r), {x \in twofactor : x.atype \in Factors}, "cleared"))
    /\ Reads

recover(r) ==
    /\ Start(r, ToDelete(Begin(r, r), twofactor, "cleared"))
    /\ Reads

\* The SELECT failed, which recover takes for no factors at all.
\* HISTORY: it does not answer for the rows that it could not read.
recover_unread(r) ==
    /\ Start(r, [Goto(Begin(r, r), "cleared") EXCEPT !.touched = {x.uuid : x \in twofactor}])
    /\ Reads

\* The user is saved without the recovery code and with a new stamp (see Sessions).
recovered(q) ==
    /\ q.at = "cleared"
    /\ Step(q, Goto(q, "done"))
    /\ Reads

admin_remove_2fa ==
    /\ Deletes(twofactor, {x.uuid : x \in twofactor}, req)
    /\ UNCHANGED <<req, used, wrong, raced>>

-----------------------------------------------------------------------------
(* The two-factor part of password_grant, after the password was right. *)

\* No provider is named: a code is mailed, if there is an email factor, and the
\* client is asked for a second factor.
password_grant(r, d) ==
    /\ \E x \in active : x.atype = "email"
    /\ Start(r, Goto(Begin(r, d), "send_login_token"))
    /\ Reads

send_login_token(q, t) ==
    /\ q.at = "send_login_token"
    /\ \/ \E x \in find_by_user_and_type("email") : NewCode(q, "done", x, t)
       \/ Step(q, Goto(q, "done")) /\ Reads  \* rate limit, or the row is gone

\* A factor is named, with a code.  The authenticator is checked against the
\* factors that were read; the others are read again.
password_grant_with(r, d, p) ==
    /\ \E x \in active : x.atype = p
    /\ p \in Factors \cup {"remember"}
    /\ Start(r, Goto(Begin(r, d), IF p = "authenticator" THEN "find_factors" ELSE p))
    /\ Reads

\* verify_yubikey_login_code, verify_webauthn_login
verify_login(q) ==
    /\ q.at \in {"yubikey", "webauthn"}
    /\ Step(q, Goto(q, IF find_by_user_and_type(q.at) = {} THEN "done" ELSE "find_factors"))
    /\ Reads

\* MUTANT: the code is left in place after it was accepted.
accept_Keeps(x) == x

\* What verify_email_login_code saves when the code is right.
accept(x) == reset_token(x)

verify_email_login_code(q, o) ==
    /\ q.at = "email"
    /\ \E x \in find_by_user_and_type("email") :
          LET y == [x EXCEPT !.attempts = @ + 1]
          IN  /\ x.token # NoToken
              /\ Step(q, CASE o = "right"   -> ToSave(q, accept(x), "find_factors", x.token)
                           [] o = "expired" -> ToSave(q, reset_token(x), "done", x.token)
                           [] o = "wrong"   ->
                                ToSave(q, IF y.attempts >= AttemptLimit THEN reset_token(x) ELSE y,
                                       "done", x.token))
              /\ wrong' = IF o = "wrong" THEN Guess(x.token) ELSE wrong
    /\ UNCHANGED <<twofactor, used, gone, spent>>

\* There is no code to compare with.
no_login_code(q) ==
    /\ q.at = "email"
    /\ \A x \in find_by_user_and_type("email") : x.token = NoToken
    /\ Step(q, Goto(q, "done"))
    /\ Reads

\* The factors are read again; a device that is remembered has passed.
check_remember_token(q) ==
    /\ q.at = "remember"
    /\ Step(q, Goto(q, IF \E x \in find_by_user_and_type("remember") : x.keys = {q.dev}
                       THEN "find_factors" ELSE "done"))
    /\ Reads

\* No second factor: the login goes on.
password_grant_alone(r, d) ==
    /\ active = {}
    /\ Start(r, Goto(Begin(r, d), "find_factors"))
    /\ Reads

\* The client asked to be remembered.
find_factors(q) ==
    /\ q.at = "find_factors"
    /\ Step(q, Goto(q, IF \E x \in active : x.atype # "remember" THEN "issue" ELSE "done"))
    /\ Reads

issue_remember_token(q, u) ==
    /\ q.at = "issue"
    /\ Post(u, "remember", NoToken, {q.dev})
    /\ used' = used \cup {u}
    /\ req' = Touch(req \ {q}, u)
    /\ UNCHANGED <<gone, spent, wrong, raced>>

-----------------------------------------------------------------------------
(* The statements of the requests in flight. *)

\* HISTORY: the code was accepted, or row x holds another one or none.
Spends(q, x) ==
    /\ q.code \notin raced \cup {NoToken}
    /\ q.then = "find_factors" \/ x.token # q.code

\* TwoFactor::save
save(q) ==
    /\ q.at = "save"
    /\ \E x \in q.rows :
          /\ ~Conflicts(x)
          /\ twofactor' = Saved(x)
          /\ req' = Touch(Others(q), x.uuid) \cup {p \in {Goto(q, q.then)} : p.at # "done"}
          /\ spent' = IF Spends(q, x) THEN spent \cup {q.code} ELSE spent
    /\ UNCHANGED <<used, gone, wrong, raced>>

\* MUTANT: only a row that is still as it was read is deleted.
delete_IfSame(q) ==
    /\ q.at = "delete"
    /\ \E x \in q.rows :
          /\ Deletes({x} \cap twofactor, {x.uuid}, Others(q))
          /\ Step(q, ToDelete([q EXCEPT !.touched = @ \ {x.uuid}], q.rows \ {x}, q.then))
    /\ UNCHANGED <<used, wrong>>

\* TwoFactor::delete, by uuid
delete(q) ==
    /\ q.at = "delete"
    /\ \E x \in q.rows :
          /\ Deletes({y \in twofactor : y.uuid = x.uuid}, {x.uuid}, Others(q))
          /\ Step(q, ToDelete([q EXCEPT !.touched = @ \ {x.uuid}], q.rows \ {x}, q.then))
    /\ UNCHANGED <<used, wrong>>

\* The handlers that ignore a failed DELETE.
GoesOn(q) == q.then \in {"find_credentials", "cleared"}

\* How q may go on after a statement failed.  Most handlers end with an error;
\* a login ignores it.
AfterFailure(q) ==
    CASE q.at = "save" -> {Goto(q, q.then)}
      [] q.at = "delete" /\ GoesOn(q) ->
           {[ToDelete(q, q.rows \ {x}, q.then) EXCEPT !.touched = @ \cup {x.uuid}] : x \in q.rows}
      [] OTHER -> {Goto(q, "done")}

fail(q) ==
    /\ \E p \in AfterFailure(q) : req' = Others(q) \cup {x \in {p} : x.at # "done"}
    /\ raced' = raced \cup Held(q)
    /\ UNCHANGED <<twofactor, used, gone, spent, wrong>>

-----------------------------------------------------------------------------

Init ==
    /\ twofactor = {}
    /\ req = {}
    /\ used = {} /\ gone = {} /\ spent = {} /\ raced = {}
    /\ wrong = [t \in Tokens |-> 0]

Enrol ==
    \/ \E u \in Uuids : activate_authenticator(u) \/ yubikey(u) \/ generate_challenge(u)
    \/ \E r \in Requests : send_email_2fa(r) \/ request_otp(r) \/ recover(r) \/ recover_unread(r)
    \/ \E r \in Requests, t \in Types : disable_method(r, t)
    \/ \E r \in Requests, expired \in BOOLEAN : activate_email_2fa(r, expired)
    \/ \E r \in Requests, o \in Outcomes : verify_otp(r, o)
    \/ \E r \in Requests, k \in Keys :
          activate_webauthn(r, k) \/ rename_webauthn(r, k) \/ delete_webauthn(r, k)
    \/ admin_remove_2fa

Login ==
    \/ \E r \in Requests, t \in Tokens : send_email_login(r, t)
    \/ \E r \in Requests, d \in Devices : password_grant(r, d) \/ password_grant_alone(r, d)
    \/ \E r \in Requests, d \in Devices, p \in Types : password_grant_with(r, d, p)

Proceed(q) ==
    \/ find_challenge(q) \/ recovered(q) \/ verify_login(q) \/ no_login_code(q)
    \/ check_remember_token(q) \/ find_factors(q) \/ save(q) \/ delete(q) \/ fail(q)
    \/ \E u \in Uuids : find_credentials(q, u) \/ issue_remember_token(q, u)
    \/ \E u \in Uuids, t \in Tokens : post(q, u, t)
    \/ \E t \in Tokens : send_login_token(q, t)
    \/ \E o \in Outcomes : verify_email_login_code(q, o)

Next == Enrol \/ Login \/ \E q \in req : Proceed(q)

Spec == Init /\ [][Next]_vars

-----------------------------------------------------------------------------
(* Properties. *)

\* The rows are well formed, one per uuid and one per type: the upsert by uuid
\* never gets past UNIQUE (user_uuid, atype).
TypeOK ==
    /\ twofactor \subseteq Row
    /\ \A x, y \in twofactor : x.uuid = y.uuid \/ x.atype = y.atype => x = y
    /\ \A q, p \in req : q.id = p.id => q = p
    /\ \A q \in req : q.rows \subseteq Row

\* A code that was accepted, replaced or withdrawn (it expired, or was guessed
\* wrong too often) is never stored again, so it cannot be used a second time:
\* unless another request held a copy of its row, or the row was not saved.
CodesSpent == \A x \in twofactor : x.token \notin spent

\* No login code and no code for a protected action is checked against more
\* than AttemptLimit wrong guesses, unless two requests counted at once.
AttemptsCapped == \A t \in Tokens : wrong[t] > AttemptLimit => t \in raced

\* A factor, code or token that was deleted while no request was about to save
\* its row never comes back: disable_method, recover and the rest are final.
DeletedStays == \A x \in twofactor : x.uuid \notin gone

\* When recover comes to save the user without the recovery code, the only rows
\* left are those that were written after it had read or deleted their type, and
\* those that it could not read or delete, which it ignores.  All others are
\* gone, of whatever type, also the ones that another request edited between the
\* SELECT and the DELETE.
RecoverClears == \A q \in req : q.at = "cleared" => \A x \in twofactor : x.uuid \in q.touched

\* Codes are used once, and guessed at no more often than the limit.
CodesHold == CodesSpent /\ AttemptsCapped

\* A factor removed while no request held its row stays removed, and a recovery
\* leaves no factor behind that it could read and delete.
FactorsRemoved == DeletedStays /\ RecoverClears

\* A user who enrolled no second factor is not asked for one.
SingleFactorLogin == (\A x \in twofactor : x.atype \notin Factors) => active = {}
=============================================================================
