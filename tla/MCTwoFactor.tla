---------------------------- MODULE MCTwoFactor ----------------------------
(* The second factors of the worker and of the upstream server, for TLC.    *)
(* The two share no state: each behaviour runs one of them and leaves the   *)
(* other in an initial state.                                               *)
EXTENDS TwoFactor, TLC

CONSTANT None

VARIABLES
    program,
    kinds, tf, totp_recover, remember, incomplete, fresh, now, todo, ops, clean, torn,
    s_spent, twice, s_wrong, granted

s_vars == <<kinds, tf, totp_recover, remember, incomplete, fresh, now, todo, ops, clean, torn,
            s_spent, twice, s_wrong, granted>>

Families == {{"Authenticator", "Webauthn"}, {"Email", "YubiKey"}, {"Protected", "YubiKey"}}

Server == INSTANCE ServerTwoFactor WITH
            spent <- s_spent, wrong <- s_wrong, Keys <- {"key"},
            Limit <- 2, Expiry <- 0, MaxFresh <- 3, MaxOps <- 3, MaxNow <- 3

\* the bounds of the server's behaviours are reached
Finished == torn \/ (ops = 3 /\ now = 3 /\ Server!Quiet)

MCInit ==
    /\ program \in {"worker", "server"} /\ Init /\ Server!Init
    /\ program = "worker" => kinds = {"Email", "YubiKey"} /\ ~totp_recover

MCNext ==
    \/ program = "worker" /\ Next /\ UNCHANGED <<program, s_vars>>
    \/ program = "server" /\ Server!Next /\ UNCHANGED <<program, vars>>
    \/ program = "server" /\ Finished /\ UNCHANGED <<program, vars, s_vars>>

MCSpec == MCInit /\ [][MCNext]_<<program, vars, s_vars>>

\* The server does not accept a code, or a challenge, that was accepted before,
\* and no code is guessed at more often than the limit of attempts: while no two
\* requests wrote beside each other and none failed.
ServerCodesHold == program = "server" => Server!ServerCodesOnce /\ Server!ServerGuessesCapped

\* After every request of the server a user with a second factor has a recovery
\* code, or got the factor from a policy.
FactorsRecoverable == program = "server" => Server!FactorsRecoverable

\* The identities of the rows, codes, requests and keys are interchangeable.
Symmetry ==
    Permutations(Uuids) \cup Permutations(Tokens) \cup Permutations(Requests)
        \cup Permutations(Keys)
=============================================================================
