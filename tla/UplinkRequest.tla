--------------------------- MODULE UplinkRequest ---------------------------
(***************************************************************************)
(* proxy/src/up-storage.ts: what a registry adds to a request that it sends *)
(* to another one: how it identifies itself (_setHeaders, _setAuth), and    *)
(* that it was on the way (_addProxyHeaders).                               *)
(***************************************************************************)
EXTENDS Sequences

Unset == "unset"

\* uplinks.<name>.auth, where there is one: a token, the name of a variable with
\* the token or TRUE for NPM_TOKEN, and a kind of token.
UplinkAuth ==
    [token : {Unset, "text", "other"}, token_env : {Unset, "NPM_TOKEN", "OWN_TOKEN", "TRUE", "other"},
     type : {Unset, "basic", "bearer", "other"}]

Variables == {"NPM_TOKEN", "OWN_TOKEN"}

\* The variable that is to hold the token, where the configuration does not.
Variable(auth) == IF auth.token_env \in {Unset, "TRUE"} THEN "NPM_TOKEN" ELSE auth.token_env

HasToken(auth, environment) == auth.token = "text" \/ Variable(auth) \in environment

\* _setHeaderAuthorization: a kind it does not know is an error.
SetHeaderAuthorization(type) == IF type = "other" THEN "throws" ELSE "sent"

\* _setAuth: a token that is nowhere is one.
SetAuth(auth, environment) ==
    IF HasToken(auth, environment) THEN SetHeaderAuthorization(auth.type) ELSE "throws"

\* The headers of a request: an uplink without "auth" is asked without it.
SetHeaders(auths, environment) ==
    IF \A auth \in auths : SetAuth(auth, environment) = "sent" THEN "sent" ELSE "throws"

\* _addProxyHeaders: the registries a request came through, this one as the last.
AddProxyHeaders(via, server) == Append(via, server)
=============================================================================
