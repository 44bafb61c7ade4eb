---------------------------- MODULE MCSessions ----------------------------
(* The account and its sessions, for TLC: the worker's, the upstream         *)
(* server's, the ways into an account, the limit on requests that try them,  *)
(* and the rotation of the account's key.  The five share no state: each     *)
(* behaviour runs one `part` and leaves the others in an initial state.      *)
EXTENDS Sessions, TLC

CONSTANT Null

VARIABLES
    part,
    s_user, s_device, s_access, s_req, s_fresh, s_ops, goneUser, goneToken, raced, s_ban,
    conf, acct, invitation, grantor, mails, member, session, swept, won,
    key, enc, stray,
    program, todo, ops, clean, torn,  \* shared by Signup and KeyRotation
    now, count, r_req, accepted, lagged

a_vars == <<s_user, s_device, s_access, s_req, s_fresh, s_ops, goneUser, goneToken, raced, s_ban>>
u_vars == <<conf, acct, invitation, grantor, mails, member, session, swept, won>>
k_vars == <<key, enc, stray>>
t_vars == <<program, todo, ops, clean, torn>>
r_vars == <<now, count, r_req, accepted, lagged>>

Server == INSTANCE ServerAccounts WITH
            user <- s_user, device <- s_device, access <- s_access, req <- s_req,
            fresh <- s_fresh, ops <- s_ops, ban <- s_ban,
            Devices <- {"device"}, MaxOps <- 5, MaxFresh <- 3

Sign == INSTANCE Signup WITH MaxOps <- 3

Rotation == INSTANCE KeyRotation WITH
              Folders <- {"folder"}, Grants <- {"grant"}, Sealed <- {"cipher"}, MaxOps <- 3

Rate == INSTANCE RateLimit WITH
          req <- r_req, Window <- 3, Limit <- 3, MaxNow <- 9

MCInit ==
    /\ part \in {"worker", "server", "signup", "rotation", "rate"}
    /\ Init /\ Server!Init /\ Sign!Init /\ Rotation!Init /\ Rate!Init
    /\ part \notin {"signup", "rotation"} => program = "worker"
    /\ part # "signup" => \A c \in DOMAIN conf : conf[c] = (c # "mysql")
    /\ part # "rotation" => \A i \in DOMAIN enc : enc[i] = 0

\* the bounds of the part that runs are reached
Finished ==
    CASE part = "worker" -> FALSE
      [] part = "server" -> s_ops = 5 /\ s_req = {}
      [] part = "rate" -> lagged \/ (now = 9 /\ \A r \in Requests : r_req[r] = Null)
      [] OTHER -> ops = 3 /\ \A r \in Requests : todo[r] = <<>>

MCNext ==
    \/ part = "worker" /\ Next /\ UNCHANGED <<part, a_vars, u_vars, k_vars, t_vars, r_vars>>
    \/ part = "server" /\ Server!Next /\ UNCHANGED <<part, vars, u_vars, k_vars, t_vars, r_vars>>
    \/ part = "signup" /\ Sign!Next /\ UNCHANGED <<part, vars, a_vars, k_vars, r_vars>>
    \/ part = "rotation" /\ Rotation!Next /\ UNCHANGED <<part, vars, a_vars, u_vars, r_vars>>
    \/ part = "rate" /\ Rate!Next /\ UNCHANGED <<part, vars, a_vars, u_vars, k_vars, t_vars>>
    \/ Finished /\ UNCHANGED <<part, vars, a_vars, u_vars, k_vars, t_vars, r_vars>>

MCSpec == MCInit /\ [][MCNext]_<<part, vars, a_vars, u_vars, k_vars, t_vars, r_vars>>

\* On the server, a stamp, password, API key or refresh token that was replaced
\* while no request held it opens no session again, and an account disabled while
\* no other request ran stays shut out until it is enabled, although neither the
\* guard nor a refresh looks at the enabled column.
ServerSessionsHold == part = "server" => Server!ServerSessionsHold

\* One request gives an address its password, and no later registration,
\* invitation or single sign-on replaces or drops it.
RegisteredOnce == part = "signup" => Sign!RegisteredOnce

\* The key in the user row opens every item but those that a rotation which
\* failed half-way, or left items out, is known to have parted from it; and a
\* rotation of the server that gets to its end takes every item along.
KeyOpensItems == part = "rotation" => Rotation!KeyOpensItems

\* Fewer than twice the limit pass in any stretch of window_secs seconds, as
\* long as no counter that a check read was out of date.
RateHolds == part = "rate" => Rate!RateHolds

Symmetry == Permutations(Requests) \cup Permutations(Devices)
=============================================================================
