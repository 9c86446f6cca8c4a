---------------------------- MODULE UplinkStatus ----------------------------
(***************************************************************************)
(* proxy/src/up-storage.ts: every request to an uplink goes through         *)
(* ProxyStorage.request, which counts the requests in a row that broke down *)
(* (failed_requests).  From max_fails on it refuses every request until     *)
(* fail_timeout has passed since the last one that was answered or broke    *)
(* down.  Requests run side by side, and each reports once.  A request to   *)
(* an uplink whose "auth" is of no use throws, where nobody catches it.    *)
(*                                                                          *)
(* Only comparisons look at the counter and at the time, so the counter     *)
(* stops at max_fails, and of last_request_time the ticks since are kept,   *)
(* up to fail_timeout.                                                      *)
(***************************************************************************)
EXTENDS UplinkRequest, Integers, FiniteSets, FiniteSetsExt

CONSTANTS
    Uplink,         \* numbered in the order of the configuration
    Call,           \* requests that may run at once
    Meta,           \* those of them that ask for metadata (getRemoteMetadata)
    MaxFails,       \* max_fails
    FailTimeout,    \* fail_timeout, in ticks
    MaxOutages,     \* bound: hosts that go down
    NoUplink        \* the uplink made for one tarball (_autogenerated)

ASSUME StatusAssumption ==
    /\ Uplink \subseteq Nat /\ IsFiniteSet(Uplink) /\ Meta \subseteq Call
    /\ MaxFails \in Nat /\ FailTimeout \in Nat /\ NoUplink \notin Uplink

VARIABLES
    failed_requests,
    age,            \* ticks since last_request_time; Never before the first report
    broken,         \* the uplinks whose "auth" is of no use
    up,             \* whether each host can be reached
    call,           \* the progress of each request
    via,            \* the ProxyStorage a request belongs to
    host,           \* the host a request goes to
    doomed,         \* the requests under way while their host was down
    streak,         \* history: breakdowns since a request was last answered
    outages

statusVars == <<failed_requests, age, broken, up, call, via, host, doomed, streak, outages>>

Never == FailTimeout + 1
Calling == {"pending", "answered", "refused"}

StatusTypeOK ==
    /\ failed_requests \in [Uplink -> 0..MaxFails] /\ age \in [Uplink -> 0..Never]
    /\ broken \subseteq Uplink /\ up \in [Uplink -> BOOLEAN]
    /\ call \in [Call -> {"idle", "thrown"} \cup Calling]
    /\ via \in [Call -> Uplink \cup {NoUplink}] /\ host \in [Call -> Uplink]
    /\ doomed \subseteq Call /\ streak \in [Uplink -> 0..MaxFails]
    /\ outages \in Nat

StatusInit ==
    /\ failed_requests = [u \in Uplink |-> 0] /\ age = [u \in Uplink |-> Never]
    /\ \E auth \in [Uplink -> {{}} \cup {{a} : a \in UplinkAuth}], environment \in SUBSET Variables :
          broken = {u \in Uplink : SetHeaders(auth[u], environment) = "throws"}
    /\ up = [u \in Uplink |-> TRUE]
    /\ call = [c \in Call |-> "idle"]
    /\ via = [c \in Call |-> NoUplink] /\ host = [c \in Call |-> Min(Uplink)]
    /\ doomed = {} /\ streak = [u \in Uplink |-> 0]
    /\ outages = 0

-----------------------------------------------------------------------------
\* Mutant: once offline, always offline.
ForEver(u) == u # NoUplink /\ failed_requests[u] >= MaxFails /\ age[u] # Never

\* _ifRequestFailure.  Before the first report the comparison with an undefined
\* time is false.
IfRequestFailure(u) == u # NoUplink /\ failed_requests[u] >= MaxFails /\ age[u] < FailTimeout

\* The exception of a request that could not be made ends the process.
Fatal == \E c \in Call : call[c] = "thrown"

\* request: refused while the host is held to be offline, else sent.
Request(c, u, h) ==
    /\ call[c] = "idle"
    /\ call' = [call EXCEPT ![c] = CASE IfRequestFailure(u) -> "refused"
                                     [] u \in broken        -> "thrown"
                                     [] OTHER               -> "pending"]
    /\ via' = [via EXCEPT ![c] = u] /\ host' = [host EXCEPT ![c] = h]
    /\ doomed' = IF up[h] THEN doomed \ {c} ELSE doomed \cup {c}
    /\ UNCHANGED <<failed_requests, age, broken, up, streak, outages>>

Bounded(n) == Min({n, MaxFails})

\* _statusCheck(alive).  The object made for one tarball is gone with it.
StatusCheck(u, alive) ==
    IF u = NoUplink THEN UNCHANGED <<failed_requests, age>>
    ELSE /\ failed_requests' = [failed_requests EXCEPT ![u] = IF alive THEN 0 ELSE Bounded(@ + 1)]
         /\ age' = [age EXCEPT ![u] = 0]

Streak(u, alive) ==
    streak' = IF u = NoUplink THEN streak
              ELSE [streak EXCEPT ![u] = IF alive THEN 0 ELSE Bounded(@ + 1)]

\* The event 'response', whatever the status: the body follows.
Respond(c) ==
    /\ call[c] = "pending" /\ up[host[c]]
    /\ call' = [call EXCEPT ![c] = "answered"]
    /\ StatusCheck(via[c], TRUE) /\ Streak(via[c], TRUE)
    /\ UNCHANGED <<broken, up, via, host, doomed, outages>>

\* Mutant: an error after the response is counted as well (no statusCalled).
BreakCounted(c) ==
    /\ call[c] \in {"pending", "answered"} /\ c \in doomed
    /\ call' = [call EXCEPT ![c] = "idle"] /\ doomed' = doomed \ {c}
    /\ StatusCheck(via[c], FALSE)
    /\ IF call[c] = "pending" THEN Streak(via[c], FALSE) ELSE UNCHANGED streak
    /\ UNCHANGED <<broken, up, via, host, outages>>

\* The event 'error': the connection fails or times out, perhaps after the host
\* is back.  It counts unless the response was there before.
Break(c) ==
    /\ call[c] \in {"pending", "answered"} /\ c \in doomed
    /\ call' = [call EXCEPT ![c] = "idle"] /\ doomed' = doomed \ {c}
    /\ IF call[c] = "pending"
       THEN StatusCheck(via[c], FALSE) /\ Streak(via[c], FALSE)
       ELSE UNCHANGED <<failed_requests, age, streak>>
    /\ UNCHANGED <<broken, up, via, host, outages>>

\* The error of a request that was refused, on the next tick of the event loop.
Refuse(c) ==
    /\ call[c] = "refused"
    /\ call' = [call EXCEPT ![c] = "idle"] /\ doomed' = doomed \ {c}
    /\ UNCHANGED <<failed_requests, age, broken, up, via, host, streak, outages>>

\* The event 'end'.
EndCall(c) ==
    /\ call[c] = "answered"
    /\ call' = [call EXCEPT ![c] = "idle"] /\ doomed' = doomed \ {c}
    /\ UNCHANGED <<failed_requests, age, broken, up, via, host, streak, outages>>

-----------------------------------------------------------------------------
(* getRemoteMetadata *)

GetRemoteMetadata(m, u) == Request(m, u, u)

\* The callback: the body with its status is there, or an error.
MetaStep(m) == Respond(m) \/ EndCall(m) \/ Break(m) \/ Refuse(m)

-----------------------------------------------------------------------------
(* The hosts and the clock *)

GoDown(h) ==
    /\ up[h] /\ outages < MaxOutages /\ outages' = outages + 1
    /\ up' = [up EXCEPT ![h] = FALSE]
    /\ doomed' = doomed \cup {c \in Call : call[c] # "idle" /\ host[c] = h}
    /\ UNCHANGED <<failed_requests, age, broken, call, via, host, streak>>

ComeBack(h) ==
    /\ ~up[h] /\ up' = [up EXCEPT ![h] = TRUE]
    /\ UNCHANGED <<failed_requests, age, broken, call, via, host, doomed, streak, outages>>

Tick ==
    /\ \E u \in Uplink : age[u] < FailTimeout
    /\ age' = [u \in Uplink |-> IF age[u] < FailTimeout THEN age[u] + 1 ELSE age[u]]
    /\ UNCHANGED <<failed_requests, broken, up, call, via, host, doomed, streak, outages>>

StatusNext ==
    \/ \E m \in Meta : MetaStep(m) \/ \E u \in Uplink : GetRemoteMetadata(m, u)
    \/ \E u \in Uplink : GoDown(u) \/ ComeBack(u)
    \/ Tick
=============================================================================
