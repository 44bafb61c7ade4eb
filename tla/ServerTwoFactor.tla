--------------------------- MODULE ServerTwoFactor ---------------------------
(***************************************************************************)
(* The second factors of one user of the upstream server:                  *)
(* api/core/two_factor/*.rs, the second step of a login in identity.rs and *)
(* db/models/two_factor.rs.  There is one row of each type at most: a save *)
(* replaces the row with its id, and the row of its type.                  *)
(*                                                                         *)
(* A request is a list of statements, `todo[r]`, as in ServerMembers; the  *)
(* clock counts the steps of 30 seconds of an authenticator.  Codes and    *)
(* challenges are numbers; 0 is the empty code, and -1 a wrong one.        *)
(***************************************************************************)
EXTENDS Integers, Sequences, FiniteSets

CONSTANTS
    Keys,        \* security keys
    Limit,       \* email_attempts_limit
    Expiry,      \* email_expiration_time, in steps
    Families,    \* bound: the sets of factors a behaviour is about
    Requests,
    None,
    MaxOps,      \* bound: requests started
    MaxFresh,    \* bound: rows and codes made
    MaxNow       \* bound: the clock

VARIABLES
    kinds,       \* the factors this behaviour is about
    tf,          \* twofactor rows, by type
    totp_recover,     \* users.totp_recover is set
    remember,    \* devices.twofactor_remember is set
    incomplete,  \* the twofactor_incomplete row of the device exists
    fresh,       \* last row id or code made
    now,
    todo,
    ops,
    clean,       \* HISTORY: requests no other request has written beside
    torn,        \* HISTORY: some request was not clean when it wrote, or failed
    spent,       \* HISTORY: codes and challenges accepted
    twice,       \* HISTORY: one of them was accepted again
    wrong,       \* HISTORY: wrong guesses made at each code
    granted      \* HISTORY: the Email factor was activated by a policy

vars == <<kinds, tf, totp_recover, remember, incomplete, fresh, now, todo, ops, clean, torn,
          spent, twice, wrong, granted>>

Factors == {"Authenticator", "Email", "Webauthn", "YubiKey"}
Challenges == {"EmailChallenge", "RegisterChallenge", "LoginChallenge", "Protected"}

Has(t) == tf[t] # None
find_by_user == {t \in Factors : Has(t)}

\* EmailTokenData and ProtectedActionData
EmailTokenData(id, token) == [id |-> id, token |-> token, attempts |-> 0, sent |-> now]
reset_token(m) == [m EXCEPT !.token = None, !.attempts = 0]
set_token(m, token) == [m EXCEPT !.token = token, !.sent = now]
add_attempt(m) == [m EXCEPT !.attempts = @ + 1]
Expired(m) == now - m.sent > Expiry

-----------------------------------------------------------------------------
(* Statements.                                                             *)

Running(r, op) == todo[r] # <<>> /\ Head(todo[r])[1] = op
Arg(r, i) == Head(todo[r])[i]
Continue(r) == todo' = [todo EXCEPT ![r] = Tail(@)]
Instead(r, statements) == todo' = [todo EXCEPT ![r] = statements \o Tail(@)]
Last(r, statements) == todo' = [todo EXCEPT ![r] = statements]

Wrote(r) ==
    /\ torn' = (torn \/ r \notin clean)
    /\ clean' = clean \cap {r}

Unwritten == UNCHANGED <<tf, totp_recover, remember, incomplete, clean, torn>>
NoHistory == UNCHANGED <<spent, twice, wrong, granted>>
Same == UNCHANGED <<kinds, now, ops>>

New(n) == fresh + n <= MaxFresh /\ fresh' = fresh + n

TwoFactor_save(r) ==
    /\ Running(r, "put")
    /\ LET t == Arg(r, 2)  m == Arg(r, 3) IN
       tf' = [u \in DOMAIN tf |-> IF u = t THEN m
                                  ELSE IF Has(u) /\ tf[u].id = m.id THEN None
                                  ELSE tf[u]]
    /\ Continue(r) /\ Wrote(r) /\ Same /\ NoHistory
    /\ UNCHANGED <<totp_recover, remember, incomplete, fresh>>

TwoFactor_delete(r) ==
    /\ Running(r, "drop")
    /\ tf' = [u \in DOMAIN tf |-> IF Has(u) /\ tf[u].id = Arg(r, 2) THEN None ELSE tf[u]]
    /\ Continue(r) /\ Wrote(r) /\ Same /\ NoHistory
    /\ UNCHANGED <<totp_recover, remember, incomplete, fresh>>

delete_all_by_user(r) ==
    /\ Running(r, "clear")
    /\ tf' = [u \in DOMAIN tf |-> None]
    /\ Continue(r) /\ Wrote(r) /\ Same /\ NoHistory
    /\ UNCHANGED <<totp_recover, remember, incomplete, fresh>>

\* the whole users row, with the recovery code the request knows of
User_save(r) ==
    /\ Running(r, "user")
    /\ totp_recover' = Arg(r, 2)
    /\ Continue(r) /\ Wrote(r) /\ Same /\ NoHistory
    /\ UNCHANGED <<tf, remember, incomplete, fresh>>

Device_save(r) ==
    /\ Running(r, "device")
    /\ remember' = Arg(r, 2)
    /\ Continue(r) /\ Wrote(r) /\ Same /\ NoHistory
    /\ UNCHANGED <<tf, totp_recover, incomplete, fresh>>

\* mark_incomplete and mark_complete
mark(r) ==
    /\ Running(r, "mark")
    /\ incomplete' = Arg(r, 2)
    /\ Continue(r) /\ Same /\ NoHistory
    /\ UNCHANGED <<tf, totp_recover, remember, fresh, clean, torn>>

\* what the request proved the possession of
accept(r) ==
    /\ Running(r, "accept")
    /\ twice' = (twice \/ Arg(r, 2) \in spent)
    /\ spent' = spent \cup ({Arg(r, 2)} \ {<<0, 0>>})
    /\ Continue(r) /\ Same /\ Unwritten
    /\ UNCHANGED <<fresh, wrong, granted>>

fail(r) ==
    /\ todo[r] # <<>>
    /\ Last(r, <<>>)
    /\ torn' = TRUE
    /\ Same /\ NoHistory
    /\ UNCHANGED <<tf, totp_recover, remember, incomplete, fresh, clean>>

Put(t, m) == <<"put", t, m>>
\* a code of an authenticator counts for its row, a mailed code for itself
Accept(row, c) == <<"accept", <<row, c>>>>

validate_totp_code_Again(r) ==
    /\ Running(r, "totp")
    /\ LET c == Arg(r, 2)
           m == IF Has("Authenticator") THEN tf["Authenticator"]
                ELSE [id |-> fresh + 1, used |-> 0]
       IN  IF c >= m.used
           THEN Instead(r, <<Put("Authenticator", [m EXCEPT !.used = c]), Accept(m.id, c)>>)
           ELSE Last(r, <<>>)
    /\ (IF Has("Authenticator") THEN UNCHANGED fresh ELSE New(1))
    /\ Same /\ Unwritten /\ NoHistory

\* a code of the window, newer than the last one used; a row already there keeps
\* its secret, whichever one the code was computed with
validate_totp_code(r) ==
    /\ Running(r, "totp")
    /\ LET c == Arg(r, 2)
           m == IF Has("Authenticator") THEN tf["Authenticator"]
                ELSE [id |-> fresh + 1, used |-> 0]
       IN  IF c > m.used
           THEN Instead(r, <<Put("Authenticator", [m EXCEPT !.used = c]), Accept(m.id, c)>>)
           ELSE Last(r, <<>>)
    /\ (IF Has("Authenticator") THEN UNCHANGED fresh ELSE New(1))
    /\ Same /\ Unwritten /\ NoHistory

OutOfAttempts_Late(m) == m.attempts > Limit

\* add_attempt was called before
OutOfAttempts(m) == m.attempts >= Limit

Guessed(token) == wrong' = [wrong EXCEPT ![token] = @ + 1]

\* the data are those the login read, the row's id is read again
validate_email_code_str(r) ==
    /\ Running(r, "mail code")
    /\ LET code == Arg(r, 2)  data == Arg(r, 3)
           again(m) == Put("Email", [m EXCEPT !.id = tf["Email"].id])
           tried == add_attempt(data)
       IN  \/ /\ ~Has("Email") \/ data.token = None
              /\ Last(r, <<>>) /\ UNCHANGED wrong
           \/ /\ Has("Email") /\ data.token # None /\ code # data.token
              /\ Last(r, <<again(IF OutOfAttempts(tried) THEN reset_token(tried) ELSE tried)>>)
              /\ Guessed(data.token)
           \/ /\ Has("Email") /\ data.token # None /\ code = data.token
              /\ IF Expired(data) THEN Last(r, <<again(reset_token(data))>>)
                 ELSE Instead(r, <<again(reset_token(data)), Accept(0, code)>>)
              /\ UNCHANGED wrong
    /\ Same /\ Unwritten /\ UNCHANGED <<fresh, spent, twice, granted>>

\* a code that has no attempts left stays, and fails
validate_protected_action_otp(r) ==
    /\ Running(r, "otp")
    /\ LET code == Arg(r, 2)  delete_if_valid == Arg(r, 3)
           pa == IF Has("Protected") THEN add_attempt(tf["Protected"]) ELSE None
       IN  \/ /\ pa = None \/ (pa # None /\ OutOfAttempts(pa))
              /\ Last(r, <<>>) /\ UNCHANGED wrong
           \/ /\ pa # None /\ ~OutOfAttempts(pa)
              /\ \/ Expired(pa) /\ Last(r, <<<<"drop", pa.id>>>>) /\ UNCHANGED wrong
                 \/ /\ ~Expired(pa) /\ code # pa.token
                    /\ Last(r, <<Put("Protected", pa)>>) /\ Guessed(pa.token)
                 \/ /\ ~Expired(pa) /\ code = pa.token
                    /\ Instead(r, IF delete_if_valid THEN <<<<"drop", pa.id>>, Accept(0, code)>>
                                  ELSE <<>>)
                    /\ UNCHANGED wrong
    /\ Same /\ Unwritten /\ UNCHANGED <<fresh, spent, twice, granted>>

\* find_by_user_and_type and delete
find_delete(r) ==
    /\ Running(r, "remove")
    /\ Instead(r, IF Has(Arg(r, 2)) THEN <<<<"drop", tf[Arg(r, 2)].id>>>> ELSE <<>>)
    /\ Same /\ Unwritten /\ NoHistory /\ UNCHANGED fresh

\* the new row of a challenge, or of a code that was mailed
new_row(r) ==
    /\ todo[r] # <<>> /\ Arg(r, 1) \in {"new", "empty"}
    /\ New(1)
    /\ LET code == IF Running(r, "empty") THEN 0 ELSE fresh + 1
       IN  Instead(r, <<Put(Arg(r, 2), EmailTokenData(fresh + 1, code))>>)
    /\ Same /\ Unwritten /\ NoHistory

send_token(r) ==
    /\ Running(r, "send")
    /\ IF Has("Email")
       THEN /\ New(1)
            /\ Instead(r, <<Put("Email", set_token(tf["Email"], fresh + 1))>>)
       ELSE Last(r, <<>>) /\ UNCHANGED fresh
    /\ Same /\ Unwritten /\ NoHistory

\* the verified row changes its type
verify_email(r) ==
    /\ Running(r, "verify")
    /\ LET m == tf["EmailChallenge"] IN
       IF Has("EmailChallenge") /\ m.token = Arg(r, 2)
       THEN Instead(r, <<Put("Email", reset_token(m)), Accept(0, m.token)>>)
       ELSE Last(r, <<>>)
    /\ Same /\ Unwritten /\ NoHistory /\ UNCHANGED fresh

\* take the saved challenge, and go on if the response answers it
take_challenge(r) ==
    /\ Running(r, "take")
    /\ LET t == Arg(r, 2)  nonce == Arg(r, 3) IN
       IF ~Has(t) THEN Last(r, <<>>)
       ELSE IF tf[t].id = nonce THEN Instead(r, <<<<"drop", nonce>>, Accept(0, nonce)>>)
       ELSE Last(r, <<<<"drop", tf[t].id>>>>)
    /\ Same /\ Unwritten /\ NoHistory /\ UNCHANGED fresh

registrations == IF Has("Webauthn") THEN tf["Webauthn"].regs ELSE {}

add_registration(r) ==
    /\ Running(r, "add key")
    /\ New(1)
    /\ Instead(r, <<Put("Webauthn", [id |-> fresh + 1, regs |-> registrations \cup {Arg(r, 2)}])>>)
    /\ Same /\ Unwritten /\ NoHistory

\* the credential must still be there; a counter that moved saves all of them
check_credential(r) ==
    /\ Running(r, "credential")
    /\ \/ /\ Arg(r, 2) \notin registrations
          /\ Last(r, <<>>) /\ UNCHANGED fresh
       \/ /\ Arg(r, 2) \in registrations
          /\ Continue(r) /\ UNCHANGED fresh
       \/ /\ Arg(r, 2) \in registrations
          /\ New(1)
          /\ Instead(r, <<Put("Webauthn", [id |-> fresh + 1, regs |-> registrations])>>)
    /\ Same /\ Unwritten /\ NoHistory

-----------------------------------------------------------------------------
(* Handlers.                                                               *)

\* a slot is free for another request
Idle(r) == todo[r] = <<>> /\ ops < MaxOps

Start(r, statements) ==
    /\ todo' = [todo EXCEPT ![r] = statements]
    /\ ops' = ops + 1
    /\ clean' = clean \cup {r}
    /\ UNCHANGED <<kinds, tf, totp_recover, remember, incomplete, fresh, now, torn, spent, twice, wrong>>

\* codes a client may enter: the right ones, and a wrong one
Codes == -1..fresh
Window == (now - 1)..(now + 1)

\* PasswordOrOtpData::validate: the password, or a code mailed for the purpose
Managed(r, delete, statements) ==
    /\ \/ Start(r, statements)
       \/ /\ "Protected" \in kinds
          /\ \E code \in Codes : Start(r, <<<<"otp", code, delete>>>> \o statements)
    /\ UNCHANGED granted

\* the copy of the user the guard read decides
generate_recover_code == IF totp_recover THEN <<>> ELSE <<<<"user", TRUE>>>>

request_otp(r) ==
    /\ "Protected" \in kinds
    /\ Has("Protected") => now - tf["Protected"].sent >= 1
    /\ Start(r, <<<<"remove", "Protected">>, <<"new", "Protected">>>>)
    /\ UNCHANGED granted

verify_otp(r) ==
    /\ "Protected" \in kinds
    /\ \E code \in Codes : Start(r, <<<<"otp", code, TRUE>>>>)
    /\ UNCHANGED granted

activate_authenticator(r) ==
    /\ "Authenticator" \in kinds
    /\ \E c \in Window : Managed(r, TRUE, <<<<"totp", c>>>> \o generate_recover_code)

send_email(r) ==
    /\ "Email" \in kinds
    /\ Managed(r, FALSE, <<<<"remove", "Email">>, <<"new", "EmailChallenge">>>>)

email(r) ==
    /\ "Email" \in kinds
    /\ \E code \in Codes : Managed(r, TRUE, <<<<"verify", code>>>> \o generate_recover_code)

\* a policy, or a registration, makes the verified address a factor; no code has
\* been mailed yet, and the empty one stands in its place
activate_email_2fa(r) ==
    /\ "Email" \in kinds
    /\ Start(r, <<<<"empty", "Email">>>>)
    /\ granted' = TRUE

generate_webauthn_challenge(r) ==
    /\ "Webauthn" \in kinds
    /\ Managed(r, FALSE, <<<<"new", "RegisterChallenge">>>>)

activate_webauthn(r) ==
    /\ "Webauthn" \in kinds
    /\ \E nonce \in Codes, k \in Keys :
          Managed(r, TRUE, <<<<"take", "RegisterChallenge", nonce>>, <<"add key", k>>>>
                           \o generate_recover_code)

\* a key is removed from the list, which may become an empty one
delete_webauthn(r) ==
    \E k \in registrations :
        /\ Start(r, <<Put("Webauthn", [tf["Webauthn"] EXCEPT !.regs = @ \ {k}])>>)
        /\ UNCHANGED granted

\* Yubico checks the codes of the new keys
activate_yubikey(r) ==
    /\ "YubiKey" \in kinds
    /\ LET m == IF Has("YubiKey") THEN tf["YubiKey"] ELSE [id |-> 0]
       IN  Managed(r, TRUE, <<Put("YubiKey", m)>> \o generate_recover_code)

disable_twofactor_NoCode(r) ==
    \E t \in find_by_user : Managed(r, TRUE, <<<<"remove", t>>, <<"user", FALSE>>>>)

\* the recovery code is kept
disable_twofactor(r) ==
    \E t \in find_by_user : Managed(r, TRUE, <<<<"remove", t>>>>)

\* twofactor_auth of identity.rs, for a user who has a factor; the enabled and
\* usable ones were read at the start
Login(r, statements) ==
    /\ find_by_user # {}
    /\ Start(r, <<<<"mark", TRUE>>>> \o statements)
    /\ UNCHANGED granted

\* mark_complete, and a device that is to be remembered
complete(trust) == <<<<"mark", FALSE>>>> \o (IF trust THEN <<<<"device", TRUE>>>> ELSE <<>>)

\* json_err_twofactor: no code was given, or not for one of the factors
login_challenge(r) ==
    Login(r, (IF Has("Webauthn") /\ registrations # {} THEN <<<<"new", "LoginChallenge">>>> ELSE <<>>)
             \o (IF find_by_user = {"Email"} THEN <<<<"send">>>> ELSE <<>>))

send_email_login(r) ==
    /\ Has("Email")
    /\ Start(r, <<<<"send">>>>)
    /\ UNCHANGED granted

login_authenticator(r) ==
    /\ Has("Authenticator")
    /\ \E c \in Window : Login(r, <<<<"totp", c>>>> \o complete(FALSE))

login_email(r) ==
    /\ Has("Email")
    /\ \E code \in Codes, trust \in BOOLEAN :
          Login(r, <<<<"mail code", code, tf["Email"]>>>> \o complete(trust))

validate_webauthn_login(r) ==
    /\ Has("Webauthn")
    /\ \E nonce \in Codes, k \in Keys :
          Login(r, <<<<"take", "LoginChallenge", nonce>>, <<"credential", k>>>> \o complete(FALSE))

validate_yubikey_login(r) == Has("YubiKey") /\ Login(r, complete(FALSE))

\* a token that is not the device's, or has expired, is deleted
login_remember(r) ==
    \/ remember /\ Login(r, complete(FALSE))
    \/ Login(r, IF remember THEN <<<<"device", FALSE>>>> ELSE <<>>)

login_recovery(r) ==
    /\ totp_recover
    /\ Login(r, <<<<"clear">>, <<"user", FALSE>>>> \o complete(FALSE))

\* the job that mails about logins that were not completed
send_incomplete_2fa_notifications ==
    /\ incomplete
    /\ incomplete' = FALSE
    /\ UNCHANGED <<kinds, tf, totp_recover, remember, fresh, now, todo, ops, clean, torn>>
    /\ NoHistory

Tick ==
    /\ now < MaxNow
    /\ now' = now + 1
    /\ UNCHANGED <<kinds, tf, totp_recover, remember, incomplete, fresh, todo, ops, clean, torn>>
    /\ NoHistory

\* a user with none of the factors, or with each of those the behaviour is about,
\* who has been mailed the code 1
Init ==
    /\ now = 2
    /\ kinds \in Families
    /\ \E has \in BOOLEAN :
        /\ tf = [t \in Factors \cup Challenges |->
                   IF ~has \/ t \notin kinds THEN None
                   ELSE IF t = "Email" THEN EmailTokenData(-1, 1)
                   ELSE IF t = "Protected" THEN EmailTokenData(1, 1)
                   ELSE IF t = "Webauthn" THEN [id |-> -2, regs |-> Keys]
                   ELSE IF t = "Authenticator" THEN [id |-> -3, used |-> 1]
                   ELSE [id |-> 0]]
        /\ totp_recover = has
    /\ remember = FALSE /\ incomplete = FALSE /\ fresh = 1
    /\ todo = [r \in Requests |-> <<>>] /\ ops = 0
    /\ clean = {} /\ torn = FALSE
    /\ spent = {} /\ twice = FALSE /\ wrong = [n \in 0..MaxFresh |-> 0] /\ granted = FALSE

Step ==
    \/ \E r \in Requests :
        \/ TwoFactor_save(r) \/ TwoFactor_delete(r) \/ delete_all_by_user(r) \/ User_save(r)
        \/ Device_save(r) \/ mark(r) \/ accept(r) \/ fail(r) \/ validate_totp_code(r)
        \/ validate_email_code_str(r) \/ validate_protected_action_otp(r) \/ find_delete(r)
        \/ new_row(r) \/ send_token(r) \/ verify_email(r) \/ take_challenge(r)
        \/ add_registration(r) \/ check_credential(r)
        \/ Idle(r) /\
            \/ request_otp(r) \/ verify_otp(r) \/ activate_authenticator(r) \/ send_email(r)
            \/ email(r) \/ activate_email_2fa(r) \/ generate_webauthn_challenge(r)
            \/ activate_webauthn(r) \/ delete_webauthn(r) \/ activate_yubikey(r)
            \/ disable_twofactor(r) \/ login_challenge(r) \/ send_email_login(r)
            \/ login_authenticator(r) \/ login_email(r) \/ validate_webauthn_login(r)
            \/ validate_yubikey_login(r) \/ login_remember(r) \/ login_recovery(r)
    \/ send_incomplete_2fa_notifications
    \/ Tick

\* bound: a history ends with its first torn write, of which nothing is promised
Next == ~torn /\ Step

Spec == Init /\ [][Next]_vars

Quiet == \A r \in Requests : todo[r] = <<>>

-----------------------------------------------------------------------------
(* Properties.  They are about requests that do not write beside each      *)
(* other: two logins that read a row before either saves it may both spend *)
(* its code, and each then counts one attempt.                             *)

\* No code of an authenticator, mailed code or challenge is accepted twice, by
\* any mixture of logins, activations and codes requested anew.
ServerCodesOnce == ~torn => ~twice

\* At most the configured number of wrong guesses is made at one mailed code.
ServerGuessesCapped == ~torn /\ Quiet => \A n \in DOMAIN wrong \ {0} : wrong[n] <= Limit

\* A user who activated a factor has a recovery code as long as a factor is left;
\* only the Email factor that a policy activates comes without one.
FactorsRecoverable ==
    ~torn /\ Quiet /\ ~granted => (find_by_user # {} => totp_recover)
=============================================================================
