------------------------------ MODULE RateLimit ------------------------------
(***************************************************************************)
(* The worker's rate limiter (worker/src/ratelimit.rs) for one kind and    *)
(* one identifier.  A check reads the counters of the current and of the   *)
(* previous window, estimates the rate, and writes the current counter     *)
(* back incremented.  Reads and the write are separate calls of Workers    *)
(* KV, which is eventually consistent: a read may return an older value.   *)
(* The weight of the previous window, 1 - elapsed, is kept exact by        *)
(* multiplying the comparison by the length of the window.                 *)
(***************************************************************************)
EXTENDS Integers, Functions

CONSTANTS
    Window,      \* window_secs
    Limit,       \* limit
    Requests,    \* requests that may be in flight
    Null,
    MaxNow       \* bound: seconds

VARIABLES
    now,         \* seconds
    count,       \* KV: counter of each window
    req,         \* in-flight checks: [at, current, prev] or Null
    accepted,    \* HISTORY: checks accepted that began in each second
    lagged       \* HISTORY: a counter was out of date when a check used it

vars == <<now, count, req, accepted, lagged>>

WindowOf(t) == t \div Window

\* read_count, twice; Null until the second counter is read
read_current(r) ==
    /\ req[r] = Null
    /\ \E c \in 0..count[WindowOf(now)] :
        /\ req' = [req EXCEPT ![r] = [at |-> now, current |-> c, prev |-> Null]]
        /\ lagged' = (lagged \/ c # count[WindowOf(now)])
    /\ UNCHANGED <<now, count, accepted>>

read_prev(r) ==
    /\ req[r] # Null /\ req[r].prev = Null
    /\ LET w == WindowOf(req[r].at) - 1 IN
       \E p \in 0..count[w] :
        /\ req' = [req EXCEPT ![r].prev = p]
        /\ lagged' = (lagged \/ p # count[w])
    /\ UNCHANGED <<now, count, accepted>>

\* estimated >= limit
OverLimit_Unweighted(q) == q.current >= Limit

OverLimit(q) ==
    q.current * Window + q.prev * (Window - (q.at % Window)) >= Limit * Window

check(r) ==
    /\ req[r] # Null /\ req[r].prev # Null
    /\ LET q == req[r]  w == WindowOf(q.at) IN
       IF OverLimit(q)
       THEN UNCHANGED <<count, accepted, lagged>>
       ELSE /\ accepted' = [accepted EXCEPT ![q.at] = @ + 1]
            \* an error of the write is ignored
            /\ \/ count' = [count EXCEPT ![w] = q.current + 1]
               \/ UNCHANGED count
            /\ lagged' = (lagged \/ q.current # count[w] \/ q.prev # count[w - 1]
                                 \/ count'[w] # q.current + 1)
    /\ req' = [req EXCEPT ![r] = Null]
    /\ UNCHANGED now

Tick == now < MaxNow /\ now' = now + 1 /\ UNCHANGED <<count, req, accepted, lagged>>

\* window 0 is the first hour of 1970
Init ==
    /\ now = Window
    /\ count = [w \in 0..WindowOf(MaxNow) |-> 0]
    /\ req = [r \in Requests |-> Null]
    /\ accepted = [t \in 0..MaxNow |-> 0]
    /\ lagged = FALSE

\* bound: nothing is promised once a counter lagged, so nothing goes on
Next ==
    /\ ~lagged
    /\ Tick \/ \E r \in Requests : read_current(r) \/ read_prev(r) \/ check(r)

Spec == Init /\ [][Next]_vars

-----------------------------------------------------------------------------

\* checks accepted in the Window seconds that end with t
InSpan(t) == FoldFunctionOnSet(+, 0, accepted, (t - Window + 1)..t)

\* While every counter read is up to date, fewer than twice the limit pass in
\* any stretch of window_secs seconds, also in one that straddles two windows,
\* where each counter alone would allow a full limit.
RateHolds == ~lagged => \A t \in Window..MaxNow : InSpan(t) < 2 * Limit
=============================================================================
