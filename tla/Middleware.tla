----------------------------- MODULE Middleware -----------------------------
(***************************************************************************)
(* middleware/src/middleware.ts: what a request has to pass besides Auth,   *)
(* and how it is answered.  Express calls the middlewares one after the     *)
(* other; each calls "next", without an argument, to go on, with an error,  *)
(* or with "route" to leave the route.  "next" of a route counts: a second  *)
(* call goes on behind the handler, not to it again.                        *)
(***************************************************************************)
EXTENDS Naturals, UplinkRequest

CONSTANTS Request

VARIABLES
    stage,      \* how far each request is
    response    \* the answer that its client got: the first one that was sent

httpVars == <<stage, response>>

Stages == {"none", "identity", "allow", "handler", "served", "over"}

HttpTypeOK ==
    /\ stage \in [Request -> Stages]
    /\ response \in [Request -> {"none", "ok", "error"}]

HttpInit == stage = [r \in Request |-> "none"] /\ response = [r \in Request |-> "none"]

-----------------------------------------------------------------------------
(* Answers *)

\* final: once the headers are sent nothing can be told, the socket is closed.
Final(r, x) == response' = [response EXCEPT ![r] = IF @ = "none" THEN x ELSE @]

\* report_error: an error is told with its status, or as one of the server.
ReportError(r) == Final(r, "error")

\* The error handler of the application (handleError): a middleware that comes
\* before the handler keeps the request from it.
HandleError(r) ==
    /\ ReportError(r)
    /\ stage' = [stage EXCEPT ![r] = IF @ \in {"identity", "allow"} THEN "over" ELSE @]

-----------------------------------------------------------------------------
(* The middlewares: what each calls "next" with *)

\* What a name is made of.
Names == {"dash", "plain", "hidden", "reserved", "odd"}

\* validateName of utils.ts: letters, digits and a few signs; no leading dot; no
\* name that means something to the file system or to JavaScript.
ValidName(n) == n \notin {"hidden", "reserved", "odd"}

\* validatePackage of utils.ts: a name, or a scope and a name.
ValidPackage(parts) ==
    IF Len(parts) = 1 THEN ValidName(parts[1])
    ELSE parts[1].scope /\ ValidName(parts[1].name) /\ ValidName(parts[2])

PackageNames ==
    {<<n>> : n \in Names} \cup {<<[scope |-> s, name |-> a], b>> : s \in BOOLEAN, a, b \in Names \ {"dash"}}

ValidatePackage(q) ==
    CASE q.package = <<"dash">> -> "route"
      [] ValidPackage(q.package) -> "next"
      [] OTHER                   -> "error"

ValidateName(q) ==
    CASE q.file = "dash"   -> "route"
      [] ValidName(q.file) -> "next"
      [] OTHER             -> "error"

\* A request that this server has sent itself, over others, names it (Via).
AntiLoop(q) == IF \E i \in DOMAIN q.via : q.via[i] = "this" THEN "error" ELSE "next"

Media(q) == IF q.json THEN "next" ELSE "error"
ExpectJson(q) == IF q.object THEN "next" ELSE "error"

First(results) ==
    IF \A i \in DOMAIN results : results[i] = "next" THEN "next"
    ELSE results[CHOOSE i \in DOMAIN results :
                    results[i] # "next" /\ \A j \in 1..i - 1 : results[j] = "next"]

\* What comes of a request before "allow" is asked, and before its handler.
BeforeAllow ==
    {First(<<AntiLoop(q), ValidatePackage(q), ValidateName(q)>>) :
        q \in [via : {<<>>, AddProxyHeaders(<<"other">>, "this")}, package : PackageNames, file : Names]}

\* webAPI: the web interface looks at the names only.
WebBeforeAllow ==
    {First(<<ValidatePackage(q), ValidateName(q)>>) : q \in [package : PackageNames, file : Names]}

BeforePublish == {First(<<Media(q), ExpectJson(q)>>) : q \in [json : BOOLEAN, object : BOOLEAN]}

-----------------------------------------------------------------------------
(* allow: the callback that Auth calls *)

\* Refused.
Deny(r) == HandleError(r)

\* Allowed: the handler is next.  When the callback was called before there is
\* nothing behind the route, and the request counts as not found.
Pass(r, results) ==
    IF stage[r] = "allow"
    THEN \E x \in results :
            IF x = "next" THEN stage' = [stage EXCEPT ![r] = "handler"] /\ UNCHANGED response
            ELSE HandleError(r)
    ELSE Final(r, "error") /\ UNCHANGED stage

\* The handler does what was asked for and answers.
Serve(r) ==
    /\ stage[r] = "handler" /\ stage' = [stage EXCEPT ![r] = "served"]
    /\ Final(r, "ok")
=============================================================================
