----------------------------- MODULE Reminders -----------------------------
(* What the user of an account is promised about logins that stop at the     *)
(* second factor, without requests, statements or a trigger: an open login   *)
(* ends because its challenge is passed, because the next login on the       *)
(* device takes its place, or after one attempt to remind the user of it.    *)
(* The attempt may miss: the promise is that it is made, once for each login *)
(* that ends this way.                                                       *)
(*                                                                           *)
(* The attempt and the end of the login it is about are two steps: in        *)
(* between the user may pass the challenge, or start another login.          *)
CONSTANT Devices

VARIABLES
    login,     \* the last login on each device, unless it ended
    handling,  \* the device the last attempt was about, until its login ends
    done       \* devices whose last login passed its challenge

rvars == <<login, handling, done>>

Open(d) ==
    /\ login' = [login EXCEPT ![d] = "open"]
    /\ done' = done \ {d}
    /\ UNCHANGED handling

Complete(d) ==
    /\ login' = [login EXCEPT ![d] = "none"]
    /\ done' = done \cup {d}
    /\ UNCHANGED handling

\* A login that was completed meanwhile stays so.
Attempt(d, result) ==
    /\ handling = {}
    /\ handling' = {d}
    /\ login' = [login EXCEPT ![d] = IF @ = "none" THEN @ ELSE result]
    /\ UNCHANGED done

Remind(d) == Attempt(d, "reminded")

\* The user could not be found, or the mail was refused.
Miss(d) == Attempt(d, "missed")

\* The login ends, and with it one that was started after the attempt.
End(d) ==
    /\ d \in handling
    /\ handling' = {}
    /\ login' = [login EXCEPT ![d] = "none"]
    /\ UNCHANGED done

\* The login did not end: there will be another attempt.
Keep(d) ==
    /\ d \in handling
    /\ handling' = {}
    /\ login' = [login EXCEPT ![d] = IF @ = "none" THEN @ ELSE "open"]
    /\ UNCHANGED done

RInit ==
    /\ login = [d \in Devices |-> "none"]
    /\ handling = {}
    /\ done = {}

RNext == \E d \in Devices : Open(d) \/ Complete(d) \/ Remind(d) \/ Miss(d) \/ End(d) \/ Keep(d)

RSpec == RInit /\ [][RNext]_rvars
=============================================================================
