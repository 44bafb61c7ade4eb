-------------------------------- MODULE Signup --------------------------------
(***************************************************************************)
(* The account of one e-mail address comes into being: register and        *)
(* admin_invite_user of the worker; register, post_set_password,           *)
(* invite_user, the invitations of organizations and grantors and the      *)
(* first single sign-on of the upstream server.  A request is a list of    *)
(* statements, `todo[r]`: it reads the account, and writes the whole row   *)
(* it read several statements later.                                       *)
(*                                                                         *)
(* A password is the number of the request that chose it, Null in a stub   *)
(* that only reserves the address; accounts are numbered the same way.     *)
(***************************************************************************)
EXTENDS Integers, Sequences, FiniteSets

CONSTANTS
    Requests,    \* request slots
    Null,
    MaxOps       \* bound: requests started

VARIABLES
    program,     \* "worker" or "server"
    conf,        \* the server's settings: [open, mail, mysql]
    acct,        \* the users row: [id, pw] or Null; keys come with the password
    invitation,  \* the invitations row exists
    grantor,     \* an emergency access row invites the address
    mails,       \* invitation mails sent, each with a token for register
    member,      \* status of the address's membership, Null without one
    session,     \* a single sign-on session of the address exists
    todo,
    ops,
    clean,       \* HISTORY: requests beside which no other has written
    torn,        \* HISTORY: a request wrote that was not clean
    swept,       \* HISTORY: an invitation deleted an account it had not made
    won          \* HISTORY: passwords whose request has saved them

state == <<acct, invitation, grantor, mails, member, session>>
vars == <<program, conf, state, todo, ops, clean, torn, swept, won>>

-----------------------------------------------------------------------------
(* Statements.                                                             *)

Running(r, op) == todo[r] # <<>> /\ Head(todo[r])[1] = op
Arg(r, i) == Head(todo[r])[i]
Continue(r) == todo' = [todo EXCEPT ![r] = Tail(@)]
Instead(r, statements) == todo' = [todo EXCEPT ![r] = statements \o Tail(@)]
Abort(r) == todo' = [todo EXCEPT ![r] = <<>>]

Wrote(r) ==
    /\ torn' = (torn \/ r \notin clean)
    /\ clean' = clean \cap {r}
    /\ UNCHANGED <<program, conf, ops>>

Reads == UNCHANGED <<program, conf, state, ops, clean, torn, swept, won>>

\* inserted, or updated by its id; users.email is unique, so a row of another
\* account is in the way.  MySQL then updates that row instead.
User_save(r) ==
    /\ Running(r, "save")
    /\ LET u == Arg(r, 2) IN
       IF acct = Null \/ acct.id = u.id \/ (program = "server" /\ conf.mysql)
       THEN /\ acct' = u
            /\ won' = IF Arg(r, 3) THEN won \cup {u.pw} ELSE won
            /\ Continue(r)
       ELSE UNCHANGED <<acct, won>> /\ Abort(r)
    /\ Wrote(r)
    /\ UNCHANGED <<invitation, grantor, mails, member, session, swept>>

\* Invitation::take finds the row, then deletes it: two may find the same one
take(r) ==
    /\ Running(r, "take")
    /\ Instead(r, IF invitation THEN <<<<"taken">>>> \o Arg(r, 2) ELSE Arg(r, 3))
    /\ Reads

taken(r) ==
    /\ Running(r, "taken")
    /\ invitation' = FALSE
    /\ Continue(r) /\ Wrote(r)
    /\ UNCHANGED <<acct, grantor, mails, member, session, swept, won>>

Invitation_save(r) ==
    /\ Running(r, "invitation")
    /\ invitation' = TRUE
    /\ Continue(r) /\ Wrote(r)
    /\ UNCHANGED <<acct, grantor, mails, member, session, swept, won>>

Membership_save(r) ==
    /\ Running(r, "member")
    /\ member' = Arg(r, 2)
    /\ Continue(r) /\ Wrote(r)
    /\ UNCHANGED <<acct, invitation, grantor, mails, session, swept, won>>

EmergencyAccess_save(r) ==
    /\ Running(r, "grantor")
    /\ grantor' = Arg(r, 2)
    /\ Continue(r) /\ Wrote(r)
    /\ UNCHANGED <<acct, invitation, mails, member, session, swept, won>>

\* a mail with a token; when it fails the handler goes on with what undoes it
send_invite(r) ==
    /\ Running(r, "mail")
    /\ \/ mails' = mails \cup {Arg(r, 2)} /\ Continue(r)
       \/ todo' = [todo EXCEPT ![r] = Arg(r, 3)] /\ UNCHANGED mails
    /\ UNCHANGED <<program, conf, acct, invitation, grantor, member, session, ops, clean, torn, swept, won>>

User_delete(r) ==
    /\ Running(r, "delete")
    /\ LET here == acct # Null /\ acct.id = Arg(r, 2) IN
        /\ acct' = IF here THEN Null ELSE acct
        /\ swept' = (swept \/ (here /\ ~Arg(r, 3)))
    /\ Continue(r) /\ Wrote(r)
    /\ UNCHANGED <<invitation, grantor, mails, member, session, won>>

accept_user_invitations(r) ==
    /\ Running(r, "accept")
    /\ member' = IF member = "Invited" THEN "Accepted" ELSE member
    /\ Continue(r) /\ Wrote(r)
    /\ UNCHANGED <<acct, invitation, grantor, mails, session, swept, won>>

\* the answer of the single sign-on holds tokens
login(r) ==
    /\ Running(r, "login")
    /\ session' = TRUE
    /\ Continue(r)
    /\ UNCHANGED <<program, conf, acct, invitation, grantor, mails, member, ops, clean, torn, swept, won>>

refuse(r) == Running(r, "refuse") /\ Abort(r) /\ Reads

\* any call may fail, and the handler with it
fail(r) == todo[r] # <<>> /\ Abort(r) /\ Reads

-----------------------------------------------------------------------------
(* The worker.                                                             *)

Start(r, statements) ==
    /\ todo[r] = <<>> /\ ops < MaxOps
    /\ todo' = [todo EXCEPT ![r] = statements]
    /\ ops' = ops + 1
    /\ clean' = clean \cup {r}
    /\ UNCHANGED <<program, conf, state, torn, swept, won>>

Stub == [id |-> ops, pw |-> Null]
Save(u) == <<<<"save", u, FALSE>>>>
Password(u) == <<<<"save", [u EXCEPT !.pw = ops], TRUE>>>>

\* the lookup may also fail, which register and admin_invite_user take for
\* "nobody has the address": the unique index is what refuses the row
worker_register(r) == program = "worker" /\ Start(r, Password(Stub))
admin_invite_user(r) == program = "worker" /\ Start(r, Save(Stub))

-----------------------------------------------------------------------------
(* The server.                                                             *)

\* a lingering invitation goes before the account is saved
Complete(u) == <<<<"take", <<>>, <<>>>>>> \o Password(u)

\* an account without a password is completed; a token of an organization's
\* mail is enough, otherwise there is an invitation, or sign-ups are open, or a
\* grantor's record is waiting
Completes(token) ==
    IF token = "organization" THEN Complete(acct)
    ELSE <<<<"take", <<<<"accept">>>> \o Complete(acct),
             IF conf.open \/ grantor THEN Complete(acct) ELSE <<<<"refuse">>>>>>>>

\* a new address needs an invitation, open sign-ups or a grantor's mail
Creates(token) ==
    <<<<"take", Complete(Stub),
        IF conf.open \/ token = "grantor" THEN Complete(Stub) ELSE <<<<"refuse">>>>>>>>

register_AnyAccount(r, token) ==
    /\ program = "server"
    /\ Start(r, IF acct = Null THEN Creates(token) ELSE Completes(token))

register(r, token) ==
    /\ program = "server"
    /\ acct # Null => acct.pw = Null
    /\ Start(r, IF acct = Null THEN Creates(token) ELSE Completes(token))

\* an account that has no keys sets its first password in a session
post_set_password(r) ==
    /\ program = "server"
    /\ session /\ acct # Null /\ acct.pw = Null
    /\ Start(r, (IF conf.mail THEN <<>> ELSE <<<<"accept">>>>) \o Password(acct))

\* a single sign-on makes a stub, or saves again the stub it read
sso_login(r) ==
    /\ program = "server"
    /\ Start(r, (IF acct = Null THEN Save(Stub)
                 ELSE IF acct.pw = Null THEN Save(acct)
                 ELSE <<>>) \o <<<<"login">>>>)

\* the administrator's invitation comes before the stub
invite_user(r) ==
    /\ program = "server"
    /\ acct = Null
    /\ Start(r, (IF conf.mail THEN <<<<"mail", "organization", <<>>>>>> ELSE <<<<"invitation">>>>)
                \o Save(Stub))

\* the stub an invitation makes of a new address
Reserve == (IF conf.mail THEN <<>> ELSE <<<<"invitation">>>>) \o Save(Stub)

\* User::delete, after what refers to the account
Delete(id, mine) ==
    <<<<"grantor", FALSE>>, <<"member", Null>>, <<"take", <<>>, <<>>>>, <<"delete", id, mine>>>>

\* An organization invites the address, among others.  A mail that fails takes
\* the membership back, or the account if user_created is set, which it is from
\* the first address of the request on that was new.
invite_member(r) ==
    /\ program = "server"
    /\ member = Null
    /\ \E user_created \in BOOLEAN :
       LET undo == IF acct = Null THEN Delete(ops, TRUE)
                   ELSE IF user_created THEN Delete(acct.id, FALSE)
                   ELSE <<<<"member", Null>>>>
           accepted == acct # Null /\ acct.pw # Null /\ ~conf.mail
       IN  Start(r, (IF acct = Null THEN Reserve ELSE <<>>)
                    \o <<<<"member", IF accepted THEN "Accepted" ELSE "Invited">>>>
                    \o (IF conf.mail THEN <<<<"mail", "organization", undo>>>> ELSE <<>>))

\* a grantor invites the address; nothing is taken back
invite_grantee(r) ==
    /\ program = "server"
    /\ ~grantor
    /\ Start(r, (IF acct = Null THEN Reserve ELSE <<>>) \o <<<<"grantor", TRUE>>>>
                \o (IF conf.mail THEN <<<<"mail", "grantor", <<>>>>>> ELSE <<>>))

Init ==
    /\ program \in {"worker", "server"}
    /\ conf \in [open : BOOLEAN, mail : BOOLEAN, mysql : BOOLEAN]
    /\ program = "worker" => conf = [open |-> TRUE, mail |-> TRUE, mysql |-> FALSE]
    /\ acct = Null /\ invitation = FALSE /\ grantor = FALSE /\ mails = {}
    /\ member = Null /\ session = FALSE
    /\ todo = [r \in Requests |-> <<>>] /\ ops = 0
    /\ clean = {} /\ torn = FALSE /\ swept = FALSE /\ won = {}

Next ==
    \E r \in Requests :
        \/ User_save(r) \/ take(r) \/ taken(r) \/ Invitation_save(r) \/ Membership_save(r)
        \/ EmergencyAccess_save(r) \/ send_invite(r) \/ User_delete(r)
        \/ accept_user_invitations(r) \/ login(r) \/ refuse(r) \/ fail(r)
        \/ worker_register(r) \/ admin_invite_user(r)
        \/ \E token \in {Null} \cup mails : register(r, token)
        \/ post_set_password(r) \/ sso_login(r) \/ invite_user(r)
        \/ invite_member(r) \/ invite_grantee(r)

Spec == Init /\ [][Next]_vars

-----------------------------------------------------------------------------

\* One request gives an address its password, and the account keeps it: no
\* later registration, invitation or single sign-on replaces or drops it.  The
\* worker owes it to the unique index, whatever runs at the same time.  The
\* server completes and saves accounts it read earlier, so there it holds as
\* long as no request writes after another has written beside it, and no failed
\* mail has deleted the account by the user_created of another address.
RegisteredOnce ==
    program = "worker" \/ (~torn /\ ~swept) =>
        Cardinality(won) <= 1 /\ (won # {} => acct # Null /\ acct.pw \in won)
=============================================================================
