------------------------------- MODULE Broker -------------------------------
(***************************************************************************)
(* GET /authorize of the OAuth broker (cmd/mcpoauth/main.go), through which *)
(* MCP clients log in at Dex: the redirect check of clients that are known  *)
(* without registration, and the scopes the broker adds.  A scope parameter *)
(* is the sequence of its words.                                           *)
(***************************************************************************)
EXTENDS Naturals, Sequences

(* The redirect URIs allowed to each client that needs no registration. *)
wellKnownClients == [c \in {"claude-desktop"} |-> {"claude callback"}]

isLoopbackRedirect(uri) == uri = "loopback"

(* Clients that are not well known are checked by Dex, with what they registered. *)
RedirectAllowed(client, uri) ==
    client \in DOMAIN wellKnownClients =>
        isLoopbackRedirect(uri) \/ uri \in wellKnownClients[client]

containsScope(scope, target) == \E i \in DOMAIN scope : scope[i] = target

(* One turn of the loop: a missing scope is put in front. *)
WithScope(scope, required) ==
    IF containsScope(scope, required) THEN scope ELSE <<required>> \o scope

(* Faulty: what the client asks for is left alone. *)
InjectUnasked(scope) == IF scope = <<>> THEN <<"openid", "email", "profile">> ELSE scope

(* The scope parameter sent on to Dex. *)
InjectScopes(scope) ==
    WithScope(WithScope(WithScope(scope, "openid"), "email"), "profile")

(* Dex puts the email into the ID token when that scope was granted: spelled  *)
(* as in user_mappings, or otherwise, since what the admin types is stored    *)
(* there as it is and Dex keeps a spelling of its own.  The subject is an     *)
(* encoding of Dex's, which is no key of user_mappings.                       *)
Claims(scope) ==
    IF containsScope(scope, "email") THEN {"email", "respelled"} ELSE {"subject"}
=============================================================================
