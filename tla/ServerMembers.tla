--------------------------- MODULE ServerMembers ----------------------------
(***************************************************************************)
(* Memberships and organization policies of the upstream server (src/src): *)
(* the handlers of api/core/organizations.rs, api/core/public.rs, admin.rs *)
(* and two_factor/mod.rs that change a membership, a policy or a user's    *)
(* second factor, and the rules of db/models/org_policy.rs they ask.       *)
(*                                                                         *)
(* A request is a list of statements, `todo[r]`.  The guard, the role      *)
(* checks and the first reads of a handler are one step, since nothing is  *)
(* written between them; each later write is a step of its own, and it     *)
(* writes the whole row the handler read.  A request is `clean` while no   *)
(* other request has written since it began; a write by a request that is  *)
(* not, or a request cut short by an error, leaves the tables `torn`.      *)
(***************************************************************************)
EXTENDS Integers, Sequences, FiniteSets

CONSTANTS
    Users, Orgs,
    Requests,    \* request slots
    None,        \* no row
    MaxOps       \* bound: requests started

VARIABLES
    conf,     \* CONFIG: [mail, fallback, coupled]
    orgs,     \* organizations rows
    mem,      \* users_organizations rows: [status, atype, id] or None
    pol,      \* enabled org_policies: pairs <<organization, type>>
    tf,       \* users who have a second factor
    stub,     \* users without a password, created by an invitation
    todo,     \* statements each request has left
    ops,      \* requests started
    clean,    \* HISTORY: requests no other request has written beside
    torn,     \* HISTORY: some request was not clean when it wrote, or failed
    shut,     \* HISTORY: memberships revoked while nobody held a copy of them
    unasked   \* HISTORY: users a directory import restored without asking a policy

vars == <<conf, orgs, mem, pol, tf, stub, todo, ops, clean, torn, shut, unasked>>

\* MembershipStatus; a revoked membership keeps its old status, less 128
Invited == 0
Accepted == 1
Confirmed == 2
Revocation == 128

\* MembershipType compares by these levels
Level == [Owner |-> 3, Admin |-> 2, Manager |-> 1, User |-> 0]
BelowAdmin(m) == Level[m.atype] < Level.Admin

\* Membership::revoke and Membership::restore
revoke(m) == IF m.status > -1 THEN [m EXCEPT !.status = @ - Revocation] ELSE m
restore(m) == IF m.status < 0 THEN [m EXCEPT !.status = @ + Revocation] ELSE m

Policies == {"TwoFactor", "SingleOrg", "ResetPassword"}

-----------------------------------------------------------------------------
(* Queries and rules.                                                      *)

HasStatus(u, o, S) == mem[u][o] # None /\ mem[u][o].status \in S

count_confirmed_by_org_and_type(o, t) ==
    Cardinality({u \in Users : HasStatus(u, o, {Confirmed}) /\ mem[u][o].atype = t})

LastOwner(o) == count_confirmed_by_org_and_type(o, "Owner") <= 1

count_accepted_and_confirmed_by_user(u, o) ==
    Cardinality({p \in Orgs \ {o} : HasStatus(u, p, {Accepted, Confirmed})})

\* the user's own membership must be confirmed, although accepted ones are listed
is_applicable_to_user(u, p, exclude) ==
    \E o \in Orgs \ exclude :
        /\ <<o, p>> \in pol
        /\ HasStatus(u, o, {Confirmed})
        /\ BelowAdmin(mem[u][o])

NeedsFactor(u, o, m) ==
    /\ BelowAdmin(m) /\ m.status > Invited
    /\ <<o, "TwoFactor">> \in pol
    /\ u \notin tf

check_user_allowed_OwnPolicyOnly(u, o, m) ==
    BelowAdmin(m) /\ m.status > Invited =>
        ~(<<o, "SingleOrg">> \in pol /\ count_accepted_and_confirmed_by_user(u, o) > 0)

\* OrgPolicy::check_user_allowed after its second-factor part
check_user_allowed(u, o, m) ==
    BelowAdmin(m) /\ m.status > Invited =>
        /\ ~is_applicable_to_user(u, "SingleOrg", {o})
        /\ ~(<<o, "SingleOrg">> \in pol /\ count_accepted_and_confirmed_by_user(u, o) > 0)

-----------------------------------------------------------------------------
(* Statements.                                                             *)

Running(r, op) == todo[r] # <<>> /\ Head(todo[r])[1] = op
Arg(r, i) == Head(todo[r])[i]
Continue(r) == todo' = [todo EXCEPT ![r] = Tail(@)]
Abort(r) == todo' = [todo EXCEPT ![r] = <<>>]
Instead(r, statements) == todo' = [todo EXCEPT ![r] = statements \o Tail(@)]

\* what a write leaves behind for the other requests
Wrote(r) ==
    /\ torn' = (torn \/ r \notin clean)
    /\ clean' = clean \cap {r}

\* saves, told apart by what the handler is about
Saves == {"save", "restored", "imported"}

\* another request still holds a copy of the row
Held(r, u, o) ==
    \E q \in Requests \ {r} : \E i \in DOMAIN todo[q] :
        /\ todo[q][i][1] \in Saves \cup {"no factor", "elsewhere"}
        /\ todo[q][i][2] = u /\ todo[q][i][3] = o

Same == UNCHANGED <<conf, ops, unasked>>

\* A row whose organization is gone violates a foreign key: SQLite and MySQL
\* then update nothing and succeed, PostgreSQL reports the error.
Membership_save(r) ==
    /\ todo[r] # <<>> /\ Arg(r, 1) \in Saves
    /\ LET u == Arg(r, 2)  o == Arg(r, 3)  m == Arg(r, 4) IN
       IF o \in orgs
       THEN /\ mem' = [mem EXCEPT ![u][o] = m]
            /\ shut' = IF m.status < 0 /\ ~Held(r, u, o) THEN shut \cup {<<u, o>>}
                       ELSE IF ~Running(r, "save") THEN shut \ {<<u, o>>}
                       ELSE shut
            /\ Continue(r)
       ELSE (Continue(r) \/ Abort(r)) /\ UNCHANGED <<mem, shut>>
    /\ unasked' = IF Running(r, "imported") THEN unasked \cup {Arg(r, 2)} ELSE unasked
    /\ Wrote(r) /\ UNCHANGED <<conf, ops, orgs, pol, tf, stub>>

\* Membership::delete finds the row by its own id
Membership_delete(r) ==
    /\ Running(r, "delete")
    /\ LET u == Arg(r, 2)  o == Arg(r, 3)
           here == mem[u][o] # None /\ mem[u][o].id = Arg(r, 4)
       IN  /\ mem' = IF here THEN [mem EXCEPT ![u][o] = None] ELSE mem
           /\ shut' = IF here THEN shut \ {<<u, o>>} ELSE shut
    /\ Continue(r) /\ Wrote(r) /\ Same /\ UNCHANGED <<orgs, pol, tf, stub>>

Organization_save(r) ==
    /\ Running(r, "organization")
    /\ orgs' = orgs \cup {Arg(r, 2)}
    /\ Continue(r) /\ Wrote(r) /\ Same /\ UNCHANGED <<mem, pol, tf, stub, shut>>

OrgPolicy_save(r) ==
    /\ Running(r, "policy")
    /\ pol' = IF Arg(r, 4) THEN pol \cup {<<Arg(r, 2), Arg(r, 3)>>}
              ELSE pol \ {<<Arg(r, 2), Arg(r, 3)>>}
    /\ Continue(r) /\ Wrote(r) /\ Same /\ UNCHANGED <<orgs, mem, tf, stub, shut>>

\* the policies are asked about the row as it is going to be saved
check(r) ==
    /\ Running(r, "check")
    /\ LET u == Arg(r, 2)  o == Arg(r, 3)  m == Arg(r, 4) IN
       \/ /\ NeedsFactor(u, o, m)
          /\ IF conf.fallback THEN Instead(r, <<<<"factor", u>>, Head(todo[r])>>) ELSE Abort(r)
       \/ /\ ~NeedsFactor(u, o, m)
          /\ IF check_user_allowed(u, o, m) THEN Continue(r) ELSE Abort(r)
    /\ Same /\ UNCHANGED <<orgs, mem, pol, tf, stub, clean, torn, shut>>

\* find_and_activate_email_2fa, and every handler that activates a factor
TwoFactor_save(r) ==
    /\ Running(r, "factor")
    /\ tf' = tf \cup {Arg(r, 2)}
    /\ Continue(r) /\ Wrote(r) /\ Same /\ UNCHANGED <<orgs, mem, pol, stub, shut>>

TwoFactor_delete(r) ==
    /\ Running(r, "no factors")
    /\ tf' = tf \ {Arg(r, 2)}
    /\ Continue(r) /\ Wrote(r) /\ Same /\ UNCHANGED <<orgs, mem, pol, stub, shut>>

Seqs(S) == {s \in [1..Cardinality(S) -> S] : \A i, j \in DOMAIN s : s[i] = s[j] => i = j}

\* the user's confirmed memberships in organizations that ask for a factor
enforce_2fa_policy(r) ==
    /\ Running(r, "enforce")
    /\ LET u == Arg(r, 2)
           bound == {o \in Orgs : /\ <<o, "TwoFactor">> \in pol
                                  /\ HasStatus(u, o, {Confirmed})
                                  /\ BelowAdmin(mem[u][o])}
       IN  \E s \in Seqs(bound) :
              Instead(r, [i \in DOMAIN s |-> <<"save", u, s[i], revoke(mem[u][s[i]])>>])
    /\ Same /\ UNCHANGED <<orgs, mem, pol, tf, stub, clean, torn, shut>>

\* the user's memberships in any state, but those of the types to keep
find_any_state_by_user(r) ==
    /\ Running(r, "remove all")
    /\ LET u == Arg(r, 2)
           found == {o \in Orgs : mem[u][o] # None /\ mem[u][o].atype \notin Arg(r, 3)}
       IN  \E s \in Seqs(found) :
              Instead(r, [i \in DOMAIN s |-> <<"delete", u, s[i], mem[u][s[i]].id>>])
    /\ Same /\ UNCHANGED <<orgs, mem, pol, tf, stub, clean, torn, shut>>

\* one turn of enforce_2fa_policy_for_org
factor_turn(r) ==
    /\ Running(r, "no factor")
    /\ IF Arg(r, 2) \in tf THEN Continue(r)
       ELSE Instead(r, <<<<"save", Arg(r, 2), Arg(r, 3), revoke(Arg(r, 4))>>>>)
    /\ Same /\ UNCHANGED <<orgs, mem, pol, tf, stub, clean, torn, shut>>

\* one turn of put_policy's SingleOrg loop
elsewhere_turn(r) ==
    /\ Running(r, "elsewhere")
    /\ IF count_accepted_and_confirmed_by_user(Arg(r, 2), Arg(r, 3)) = 0 THEN Continue(r)
       ELSE Instead(r, <<<<"save", Arg(r, 2), Arg(r, 3), revoke(Arg(r, 4))>>>>)
    /\ Same /\ UNCHANGED <<orgs, mem, pol, tf, stub, clean, torn, shut>>

\* one statement for all of the user's invitations, and no policy is asked
accept_user_invitations(r) ==
    /\ Running(r, "accept all")
    /\ LET u == Arg(r, 2) IN
       /\ mem' = [mem EXCEPT ![u] = [o \in Orgs |->
                    IF HasStatus(u, o, {Invited}) THEN [@[o] EXCEPT !.status = Accepted] ELSE @[o]]]
       /\ stub' = stub \ {u}
    /\ Continue(r) /\ Wrote(r) /\ Same /\ UNCHANGED <<orgs, pol, tf, shut>>

\* an error of the database or of the mail ends the handler where it stands
fail(r) ==
    /\ todo[r] # <<>>
    /\ torn' = TRUE
    /\ Abort(r) /\ Same /\ UNCHANGED <<orgs, mem, pol, tf, stub, clean, shut>>

-----------------------------------------------------------------------------
(* Handlers.                                                               *)

\* a slot is free for another request
Idle(r) == todo[r] = <<>> /\ ops < MaxOps

Start(r, statements) ==
    /\ todo' = [todo EXCEPT ![r] = statements]
    /\ ops' = ops + 1
    /\ clean' = clean \cup {r}
    /\ UNCHANGED <<conf, orgs, mem, pol, tf, stub, torn, shut, unasked>>

\* the guards of auth.rs: a revoked membership has no valid status
OrgMemberHeaders(u, o) == mem[u][o] # None /\ mem[u][o].status >= 0
AdminHeaders(u, o) == HasStatus(u, o, {Confirmed}) /\ Level[mem[u][o].atype] >= Level.Admin
IsOwner(u, o) == mem[u][o].atype = "Owner"

\* a membership is a new row with an id of its own
Membership_new(status, atype) == [status |-> status, atype |-> atype, id |-> ops + 1]

create_organization(r) ==
    \E u \in Users \ stub, o \in Orgs \ orgs :
        /\ ~is_applicable_to_user(u, "SingleOrg", {})
        /\ Start(r, <<<<"organization", o>>,
                      <<"save", u, o, Membership_new(Confirmed, "Owner")>>>>)

leave_organization(r) ==
    \E u \in Users, o \in Orgs :
        /\ HasStatus(u, o, {Confirmed})
        /\ ~(IsOwner(u, o) /\ LastOwner(o))
        /\ Start(r, <<<<"delete", u, o, mem[u][o].id>>>>)

\* existing users are accepted at once when there is no mail to invite them by;
\* mail that fails takes the membership back
send_invite(r) ==
    \E by, u \in Users, o \in Orgs, t \in DOMAIN Level :
        LET m == Membership_new(IF conf.mail \/ u \in stub THEN Invited ELSE Accepted, t) IN
        /\ AdminHeaders(by, o)
        /\ t # "User" => IsOwner(by, o)
        /\ mem[u][o] = None
        /\ \/ Start(r, <<<<"save", u, o, m>>>>)
           \/ conf.mail /\ Start(r, <<<<"save", u, o, m>>, <<"delete", u, o, m.id>>>>)

\* with mail, or for a stub, only the invitation is sent again
reinvite_member_impl(r) ==
    \E by, u \in Users, o \in Orgs :
        /\ AdminHeaders(by, o)
        /\ HasStatus(u, o, {Invited})
        /\ ~conf.mail /\ u \notin stub
        /\ Start(r, <<<<"save", u, o, [mem[u][o] EXCEPT !.status = Accepted]>>>>)

\* accept_invite and accept_org_invite
accept_invite(r) ==
    \E u \in Users \ stub, o \in Orgs :
        /\ HasStatus(u, o, {Invited})
        /\ LET m == [mem[u][o] EXCEPT !.status = Accepted]
           IN  Start(r, <<<<"check", u, o, m>>, <<"save", u, o, m>>>>)

\* registration of a stub without mail
register(r) ==
    \E u \in stub : ~conf.mail /\ Start(r, <<<<"accept all", u>>>>)

confirm_invite_impl_AnyStatus(r) ==
    \E by, u \in Users, o \in Orgs :
        /\ AdminHeaders(by, o)
        /\ mem[u][o] # None
        /\ mem[u][o].atype # "User" => IsOwner(by, o)
        /\ LET m == [mem[u][o] EXCEPT !.status = Confirmed]
           IN  Start(r, <<<<"check", u, o, m>>, <<"save", u, o, m>>>>)

confirm_invite_impl(r) ==
    \E by, u \in Users, o \in Orgs :
        /\ AdminHeaders(by, o)
        /\ HasStatus(u, o, {Accepted})
        /\ mem[u][o].atype # "User" => IsOwner(by, o)
        /\ LET m == [mem[u][o] EXCEPT !.status = Confirmed]
           IN  Start(r, <<<<"check", u, o, m>>, <<"save", u, o, m>>>>)

\* what turns an owner into something less asks for another one first
edit_member(r) ==
    \E by, u \in Users, o \in Orgs, t \in DOMAIN Level :
        /\ AdminHeaders(by, o)
        /\ mem[u][o] # None
        /\ \/ IsOwner(by, o)
           \/ t = mem[u][o].atype /\ ~IsOwner(u, o)
           \/ BelowAdmin(mem[u][o]) /\ Level[t] < Level.Admin
        /\ ~(IsOwner(u, o) /\ t # "Owner" /\ HasStatus(u, o, {Confirmed}) /\ LastOwner(o))
        /\ LET m == [mem[u][o] EXCEPT !.atype = t]
           IN  Start(r, <<<<"check", u, o, m>>, <<"save", u, o, m>>>>)

delete_member_impl_NoCount(r) ==
    \E by, u \in Users, o \in Orgs :
        /\ AdminHeaders(by, o)
        /\ mem[u][o] # None
        /\ mem[u][o].atype # "User" => IsOwner(by, o)
        /\ Start(r, <<<<"delete", u, o, mem[u][o].id>>>>)

delete_member_impl(r) ==
    \E by, u \in Users, o \in Orgs :
        /\ AdminHeaders(by, o)
        /\ mem[u][o] # None
        /\ mem[u][o].atype # "User" => IsOwner(by, o)
        /\ ~(IsOwner(u, o) /\ HasStatus(u, o, {Confirmed}) /\ LastOwner(o))
        /\ Start(r, <<<<"delete", u, o, mem[u][o].id>>>>)

revoke_member_impl(r) ==
    \E by, u \in Users, o \in Orgs :
        /\ AdminHeaders(by, o) /\ u # by
        /\ OrgMemberHeaders(u, o)
        /\ IsOwner(u, o) => IsOwner(by, o) /\ ~LastOwner(o)
        /\ Start(r, <<<<"save", u, o, revoke(mem[u][o])>>>>)

\* an invited membership is below Accepted too, and is saved as it was
restore_member_impl(r) ==
    \E by, u \in Users, o \in Orgs :
        /\ AdminHeaders(by, o) /\ u # by
        /\ mem[u][o] # None /\ mem[u][o].status < Accepted
        /\ IsOwner(u, o) => IsOwner(by, o)
        /\ LET m == restore(mem[u][o])
           IN  Start(r, <<<<"check", u, o, m>>, <<"restored", u, o, m>>>>)

\* the guard's copy of the membership is what is saved
put_reset_password_enrollment(r) ==
    \E u \in Users, o \in Orgs :
        /\ conf.mail /\ <<o, "ResetPassword">> \in pol
        /\ OrgMemberHeaders(u, o)
        /\ Start(r, <<<<"save", u, o, mem[u][o]>>>>)

\* the members a policy is enforced on are listed before the policy is saved
enforce_2fa_policy_for_org(o) ==
    LET S == {u \in Users : HasStatus(u, o, {Confirmed}) /\ BelowAdmin(mem[u][o])}
    IN  {[i \in DOMAIN s |-> <<"no factor", s[i], o, mem[s[i]][o]>>] : s \in Seqs(S)}

EnforceSingleOrg(o) ==
    LET S == {u \in Users : mem[u][o] # None /\ BelowAdmin(mem[u][o])
                                             /\ mem[u][o].status # Invited}
    IN  {[i \in DOMAIN s |-> <<"elsewhere", s[i], o, mem[s[i]][o]>>] : s \in Seqs(S)}

put_policy(r) ==
    \E by \in Users, o \in Orgs, p \in Policies, on \in BOOLEAN :
        /\ AdminHeaders(by, o)
        /\ conf.coupled =>
              /\ p = "ResetPassword" /\ on => <<o, "SingleOrg">> \in pol
              /\ p = "SingleOrg" /\ ~on => <<o, "ResetPassword">> \notin pol
        /\ \E enforcement \in IF on /\ p = "TwoFactor" THEN enforce_2fa_policy_for_org(o)
                              ELSE IF on /\ p = "SingleOrg" THEN EnforceSingleOrg(o)
                              ELSE {<<>>} :
              Start(r, enforcement \o <<<<"policy", o, p, on>>>>)

\* the account's own settings, admin::remove_2fa and recovery: the policies are
\* enforced when the last factor is gone
activate_twofactor(r) ==
    \E u \in Users \ (stub \cup tf) : Start(r, <<<<"factor", u>>>>)

disable_twofactor(r) ==
    \E u \in tf : Start(r, <<<<"no factors", u>>, <<"enforce", u>>>>)

\* a takeover removes the factors, and all memberships but the owner's
password_emergency_access(r) ==
    \E u \in Users \ stub : Start(r, <<<<"no factors", u>>, <<"remove all", u, {"Owner"}>>>>)

\* admin::update_membership_type asks for another owner whatever the status
update_membership_type(r) ==
    \E u \in Users, o \in Orgs, t \in DOMAIN Level :
        /\ mem[u][o] # None
        /\ ~(IsOwner(u, o) /\ t # "Owner" /\ LastOwner(o))
        /\ LET m == [mem[u][o] EXCEPT !.atype = t]
           IN  Start(r, <<<<"check", u, o, m>>, <<"save", u, o, m>>>>)

\* User::delete, up to its memberships
delete_user(r) ==
    \E u \in Users :
        /\ \A o \in Orgs : ~(HasStatus(u, o, {Confirmed}) /\ IsOwner(u, o) /\ LastOwner(o))
        /\ Start(r, <<<<"remove all", u, {}>>>>)

\* the directory: a deleted entry revokes, a known one restores, and an unknown
\* one is invited; no policy is asked about any of them
ldap_import(r) ==
    \E u \in Users, o \in orgs :
        \/ /\ mem[u][o] # None
           /\ ~(IsOwner(u, o) /\ HasStatus(u, o, {Confirmed}) /\ LastOwner(o))
           /\ Start(r, <<<<"save", u, o, revoke(mem[u][o])>>>>)
        \/ /\ mem[u][o] = None
           /\ LET m == Membership_new(IF conf.mail \/ u \in stub THEN Invited ELSE Accepted, "User")
              IN  \/ Start(r, <<<<"save", u, o, m>>>>)
                  \/ conf.mail /\ Start(r, <<<<"save", u, o, m>>, <<"delete", u, o, m.id>>>>)
        \/ /\ mem[u][o] # None
           /\ ~(IsOwner(u, o) /\ HasStatus(u, o, {Confirmed}) /\ LastOwner(o))
           /\ Start(r, <<<<"delete", u, o, mem[u][o].id>>>>)
        \/ /\ mem[u][o] # None
           /\ Start(r, <<<<"imported", u, o, restore(mem[u][o])>>>>)

-----------------------------------------------------------------------------
(* Two starts.  From the first, an owner and one more member, requests     *)
(* interleave; from the others, which are all the contents the tables can  *)
(* have around one user, a single request runs.                            *)

Row(status, atype) == [status |-> status, atype |-> atype, id |-> 0]
Active == {Row(s, t) : s \in {Invited, Accepted, Confirmed}, t \in {"Admin", "User"}}
Rows == Active \cup {revoke(m) : m \in Active}

Fresh(n) ==
    /\ todo = [r \in Requests |-> <<>>]
    /\ ops = n
    /\ clean = {} /\ torn = FALSE /\ shut = {} /\ unasked = {}

Quiet == \A r \in Requests : todo[r] = <<>>

PolicyKept(u, o, p) ==
    CASE p = "TwoFactor" -> u \in tf
      [] p = "SingleOrg" -> \A q \in Orgs \ {o} :
            ~(HasStatus(u, q, {Confirmed}) /\ BelowAdmin(mem[u][q]))
      [] OTHER -> TRUE

\* What the policies promise, which the comments at each check in the code
\* refer to: a confirmed member below Admin has a second factor where the
\* organization asks for one, and is a confirmed member below Admin of no
\* other organization where it asks for that.  It holds between requests,
\* whatever sequence of handlers ran, as long as no request wrote over what
\* another was checking, none was cut short, and the directory import, which
\* asks no policy, did not restore the user.
PoliciesHold ==
    ~torn /\ Quiet =>
        /\ \A pair \in pol, u \in Users \ unasked :
              HasStatus(u, pair[1], {Confirmed}) /\ BelowAdmin(mem[u][pair[1]])
                  => PolicyKept(u, pair[1], pair[2])
        /\ \A o \in Orgs :
              conf.coupled /\ <<o, "ResetPassword">> \in pol => <<o, "SingleOrg">> \in pol

\* Every handler that takes an owner away counts the confirmed owners first, so
\* an organization keeps one as long as no two requests pass that count together.
OwnerRemains ==
    ~torn /\ Quiet => \A o \in orgs : count_confirmed_by_org_and_type(o, "Owner") > 0

\* A membership revoked while no other request held a copy of it stays revoked,
\* whatever runs beside it, until it is restored, imported again or deleted.
RevokedStays ==
    \A <<u, o>> \in shut : mem[u][o] # None => mem[u][o].status < 0

InitAny ==
    /\ Fresh(MaxOps - 1)
    /\ conf \in {[mail |-> FALSE, fallback |-> FALSE, coupled |-> c] : c \in BOOLEAN}
    /\ orgs = Orgs
    /\ \E u \in Users : \E owner \in Users \ {u} :
          /\ \E rows \in [Orgs -> Rows \cup {None}] :
                mem = [v \in Users |-> [o \in Orgs |->
                         IF v = u THEN rows[o]
                         ELSE IF v = owner THEN Row(Confirmed, "Owner") ELSE None]]
          /\ tf \in SUBSET {u}
    /\ IF conf.coupled
       THEN \E o \in Orgs : pol = {o} \X {"SingleOrg", "ResetPassword"}
       ELSE pol \in SUBSET (Orgs \X {"TwoFactor", "SingleOrg"})
    /\ stub = {}
    /\ PoliciesHold

Init ==
    /\ Fresh(0)
    /\ conf \in [mail : BOOLEAN, fallback : BOOLEAN, coupled : BOOLEAN]
    /\ \E o \in Orgs, u \in Users, v \in Users, m \in {Row(Confirmed, "Owner"), Row(Confirmed, "User"), Row(Invited, "User")} :
          /\ u # v
          /\ orgs = {o}
          /\ mem = [x \in Users |-> [p \in Orgs |->
                      IF p # o THEN None ELSE IF x = u THEN Row(Confirmed, "Owner")
                      ELSE IF x = v THEN m ELSE None]]
          /\ stub \in SUBSET {v}
          /\ stub # {} => m.status = Invited
    /\ pol = {} /\ tf = {}

Handler(r) ==
    \/ create_organization(r) \/ leave_organization(r)
    \/ send_invite(r) \/ reinvite_member_impl(r) \/ accept_invite(r) \/ register(r)
    \/ confirm_invite_impl(r) \/ edit_member(r) \/ delete_member_impl(r)
    \/ revoke_member_impl(r) \/ restore_member_impl(r)
    \/ put_reset_password_enrollment(r) \/ put_policy(r)
    \/ activate_twofactor(r) \/ disable_twofactor(r) \/ password_emergency_access(r)
    \/ update_membership_type(r) \/ delete_user(r) \/ ldap_import(r)

Statement(r) ==
    \/ Membership_save(r) \/ Membership_delete(r) \/ Organization_save(r)
    \/ OrgPolicy_save(r) \/ check(r) \/ TwoFactor_save(r) \/ TwoFactor_delete(r)
    \/ enforce_2fa_policy(r) \/ find_any_state_by_user(r)
    \/ factor_turn(r) \/ elsewhere_turn(r)
    \/ accept_user_invitations(r) \/ fail(r)

Next == \E r \in Requests : (Idle(r) /\ Handler(r)) \/ Statement(r)

=============================================================================
