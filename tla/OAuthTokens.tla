---------------------------- MODULE OAuthTokens ----------------------------
(***************************************************************************)
(* The tokens of one provider process.  The Client holds an external token *)
(* (oauthToken) and the STS token exchanged for it (stsToken); handlers of *)
(* several resources run at the same time, look at the two, renew them     *)
(* without a lock and read stsToken again for the call.  A REST client     *)
(* copies oauthToken when it is made and renews its copy alone.            *)
(*                                                                         *)
(* A token carries the time at which its issuer stops to accept it         *)
(* (expires), which the provider does not see, and the time until which    *)
(* the provider uses it (validUntil), which it reckons when the answer     *)
(* arrives.  A request, and a call once its token is chosen, takes at most *)
(* Latency.                                                                *)
(***************************************************************************)
EXTENDS Integers, ApiContexts

CONSTANTS
    Handlers,           \* resource handlers that run concurrently
    Lifetimes,          \* lifetimes that issuers grant
    ExternalBuffer,     \* externalTokenExpirationBuffer
    STSBuffer,          \* stsTokenExpirationBuffer
    Latency,
    Configs,            \* provider blocks
    RestCallsUnder,     \* RestCalls for each of them
    StaticExpires,      \* when the issuer stops to accept the static token
    MaxTime             \* bound of the clock

VARIABLES
    now,
    provider,           \* of the process: "new", "configuring", "ready", "refused", "crashed"
    config,             \* the provider block
    oauthToken,         \* Client.oauthToken
    stsToken,           \* Client.stsToken
    call                \* for every handler, the call it is at

vars == <<now, provider, config, oauthToken, stsToken, call>>

\* providerConfigure fetches the first pair of tokens itself.
Setup == "providerConfigure"
Actors == Handlers \cup {Setup}

---------------------------------------------------------------------------
(* Tokens.                                                                 *)

Token == [expires : Int, validUntil : Int, granted : Nat]
\* The nil pointer.  No time is before the zero ValidUntil, Never.
Never == -1
NoToken == [expires |-> Never, validUntil |-> Never, granted |-> 0]

\* Half of a short lifetime, the whole buffer off a longer one.
BufferOf(life, buffer) == IF life <= buffer THEN life \div 2 ELSE buffer

ASSUME TimesAssumption ==
    /\ Lifetimes \subseteq Nat
    /\ ExternalBuffer \in Nat /\ STSBuffer \in Nat
    /\ Latency \in Nat /\ StaticExpires \in Nat /\ MaxTime \in Nat
    /\ Setup \notin Handlers
ASSUME ConfigsAssumption ==
    Configs \subseteq [oauth : {"none", "idp", "static"}, attrs : SUBSET ProviderAttributes]
ASSUME CallsAssumption == RestCallsUnder = [cfg \in Configs |-> RestCalls(cfg)]
\* An answer that is late, and then a call that is slow, fit into the buffer.
ASSUME BufferAssumption ==
    \A life \in Lifetimes : /\ BufferOf(life, ExternalBuffer) >= 2 * Latency
                            /\ BufferOf(life, STSBuffer) >= 2 * Latency
                            /\ life >= 2 * Latency

validateCurrentToken(token) == now <= token.validUntil
Unexpired(token) == now <= token.expires

\* A token that was issued at time t and arrives now; expires_in may be missing in
\* the answer of an identity provider.
NewExternal(t, life, told) ==
    [expires |-> t + life, granted |-> life,
     validUntil |-> IF told THEN now + life - BufferOf(life, ExternalBuffer) ELSE Never]
\* Mutated: used until the last second.
NewSTSUnbuffered(t, life) ==
    [expires |-> t + life, granted |-> life, validUntil |-> now + life]
NewSTS(t, life) ==
    [expires |-> t + life, granted |-> life,
     validUntil |-> now + life - BufferOf(life, STSBuffer)]
\* Used for as long as the process lives.
StaticToken == [expires |-> StaticExpires, granted |-> 0, validUntil |-> MaxTime]

---------------------------------------------------------------------------
(* Calls.  at: "idle"; "askExternal" and "askSTS", a request is under way;  *)
(* "use", the token is about to be read; "send", the call goes out with     *)
(* token, or with auth = "key" or "none".  by: the token its context asks   *)
(* for; own: the copy of a REST client; wanted: the lifetime to ask for,    *)
(* that of the STS token before; bare: the family of a call that has no     *)
(* token or no endpoint, "" for every other.                                *)

Call == [at : {"idle", "askExternal", "askSTS", "use", "send"},
         by : {"sts", "external", "none"}, since : Nat, token : Token, own : Token,
         wanted : Nat, auth : {"token", "key", "none"}, endpoint : {"set", "empty"},
         bare : Families \cup {"", "cloud"}, failed : BOOLEAN]
Idle == [at |-> "idle", by |-> "sts", since |-> 0, token |-> NoToken, own |-> NoToken,
         wanted |-> 0, auth |-> "none", endpoint |-> "set", bare |-> "", failed |-> FALSE]

Goes(p, step) == call' = [call EXCEPT ![p] = step]
\* The call waits, from now on, for an answer or to go out.
Waits(c, at, token) == [c EXCEPT !.at = at, !.token = token, !.since = now]

TypeOK ==
    /\ now \in Nat
    /\ provider \in {"new", "configuring", "ready", "refused", "crashed"}
    /\ config \in Configs
    /\ oauthToken \in Token /\ stsToken \in Token
    /\ call \in [Actors -> Call]

Init ==
    /\ now = 0
    /\ provider = "new"
    /\ config \in Configs
    /\ oauthToken = NoToken /\ stsToken = NoToken
    /\ call = [p \in Actors |-> Idle]

---------------------------------------------------------------------------
(* providerConfigure                                                       *)

ConfigureWithKeys ==
    /\ provider = "new" /\ ~isOAuthEnabled(config)
    /\ provider' = IF Accepted(config) THEN "ready" ELSE "refused"
    /\ UNCHANGED <<now, config, oauthToken, stsToken, call>>

\* initializeOAuthConfigs: the tokens come first, the checks of the block after them.
initializeOAuthConfigs ==
    /\ provider = "new" /\ isOAuthEnabled(config)
    /\ provider' = "configuring"
    /\ IF config.oauth = "static"
       THEN /\ oauthToken' = StaticToken
            /\ Goes(Setup, Waits(Idle, "askSTS", StaticToken))
       ELSE /\ Goes(Setup, Waits(Idle, "askExternal", NoToken))
            /\ UNCHANGED oauthToken
    /\ UNCHANGED <<now, config, stsToken>>

\* The process ends with an error or a panic; every call under way is lost with it.
Dies(how) ==
    /\ provider' = how
    /\ oauthToken' = NoToken /\ stsToken' = NoToken
    /\ call' = [p \in Actors |-> Idle]
    /\ UNCHANGED <<now, config>>

\* Terraform is run again.
Restart ==
    /\ provider \in {"refused", "crashed"}
    /\ provider' = "new"
    /\ UNCHANGED <<now, config, oauthToken, stsToken, call>>

---------------------------------------------------------------------------
(* A handler starts a call.                                                *)

\* fetchOrOverrideSTSOAuthTokenFromApiContext up to its first request
fetchOrOverrideSTSOAuthTokenFromApiContext(c) ==
    IF validateCurrentToken(stsToken) THEN Waits(c, "use", NoToken)
    ELSE [IF validateCurrentToken(oauthToken) THEN Waits(c, "askSTS", oauthToken)
          ELSE Waits(c, "askExternal", NoToken) EXCEPT !.wanted = stsToken.granted]

\* fetchExternalOAuthToken by a REST client
fetchExternalOAuthToken(c) ==
    IF validateCurrentToken(c.own) THEN Waits(c, "use", NoToken)
    ELSE Waits(c, "askExternal", NoToken)

WithKeys(c, family, keys) ==
    [Waits(c, "send", NoToken) EXCEPT !.auth = IF keys = "set" THEN "key" ELSE "none",
                                      !.bare = family]

Starts(p, c) ==
    /\ provider = "ready" /\ call[p].at = "idle"
    /\ call' = [call EXCEPT ![p] = c]
    /\ UNCHANGED <<now, provider, config, oauthToken, stsToken>>

CallCloud(p, context) ==
    LET c == [Idle EXCEPT !.by = context.token]
    IN  Starts(p, IF context.token = "sts" /\ oauthToken # NoToken /\ stsToken # NoToken
                  THEN fetchOrOverrideSTSOAuthTokenFromApiContext(c)
                  ELSE WithKeys(c, "cloud", CloudKeys(config)))

\* CreateXRestClient, with the token the Client has now, and the first call r of the
\* client
CreateRestClient(p, r) ==
    LET c == [Idle EXCEPT !.by = r.by, !.endpoint = r.endpoint,
                          !.bare = IF r.endpoint = "empty" THEN r.family ELSE "",
                          !.own = IF r.by = "external" THEN oauthToken ELSE NoToken]
    IN  Starts(p, IF c.own # NoToken THEN fetchExternalOAuthToken(c)
                  ELSE WithKeys(c, r.family, r.keys))

\* A later call of the same handler through its REST client
CallRest(p) ==
    /\ call[p].own # NoToken
    /\ Starts(p, fetchExternalOAuthToken(call[p]))

---------------------------------------------------------------------------
(* Answers.                                                                *)

OfRestClient(p) == p # Setup /\ call[p].by = "external"

\* Mutated: the STS is asked with the token looked at before.
ExchangesTheOldToken(p, t, life, told) ==
    LET token == NewExternal(t, life, told)
    IN  /\ call[p].at = "askExternal"
        /\ IF OfRestClient(p)
           THEN /\ Goes(p, [Waits(call[p], "use", NoToken) EXCEPT !.own = token])
                /\ UNCHANGED oauthToken
           ELSE /\ Goes(p, Waits(call[p], "askSTS", oauthToken))
                /\ oauthToken' = token
        /\ UNCHANGED <<now, provider, config, stsToken>>
\* A new external token, issued at time t: the copy of the REST client, or the
\* token of the Client, which is exchanged next.
requestNewExternalOAuthToken(p, t, life, told) ==
    LET token == NewExternal(t, life, told)
    IN  /\ call[p].at = "askExternal"
        /\ IF OfRestClient(p)
           THEN /\ Goes(p, [Waits(call[p], "use", NoToken) EXCEPT !.own = token])
                /\ UNCHANGED oauthToken
           ELSE /\ Goes(p, Waits(call[p], "askSTS", token))
                /\ oauthToken' = token
        /\ UNCHANGED <<now, provider, config, stsToken>>

\* A new STS token, issued at time t for a token that was good then, for no longer
\* than the lifetime asked for.
requestNewSTSOAuthToken(p, t, life) ==
    /\ call[p].at = "askSTS"
    /\ t <= call[p].token.expires
    /\ p # Setup => life <= call[p].wanted
    /\ IF p = Setup /\ ~Accepted(config)
       THEN Dies("refused")
       ELSE /\ stsToken' = NewSTS(t, life)
            /\ provider' = "ready"
            /\ Goes(p, IF p = Setup THEN Idle ELSE Waits(call[p], "use", NoToken))
            /\ UNCHANGED <<now, config, oauthToken>>

\* Mutated: the Client, too, stores what a failed exchange returns.
FailureIsStored(p) ==
    /\ call[p].at \in {"askExternal", "askSTS"}
    /\ \/ p = Setup /\ Dies("refused")
       \/ OfRestClient(p) /\ Dies("crashed")
       \/ /\ p # Setup /\ ~OfRestClient(p)
          /\ Goes(p, [Waits(call[p], "use", NoToken) EXCEPT !.failed = TRUE])
          /\ stsToken' = NoToken
          /\ UNCHANGED <<now, provider, config, oauthToken>>
\* The identity provider or the STS refuses, or does not answer.  The Client logs
\* it and goes on with the token it has; a REST client has overwritten its token
\* with nil and dereferences it.
FetchFails(p) ==
    /\ call[p].at \in {"askExternal", "askSTS"}
    /\ \/ p = Setup /\ Dies("refused")
       \/ OfRestClient(p) /\ Dies("crashed")
       \/ /\ p # Setup /\ ~OfRestClient(p)
          /\ Goes(p, [Waits(call[p], "use", NoToken) EXCEPT !.failed = TRUE])
          /\ UNCHANGED <<now, provider, config, oauthToken, stsToken>>

\* parseExternalOAuthResponse asserts that expires_in is a number.
ExpiresInIsNoNumber(p) ==
    /\ call[p].at = "askExternal"
    /\ Dies("crashed")

\* The ApiContext method reads the token for the call.
ReadToken(p) ==
    /\ call[p].at = "use"
    /\ Goes(p, [call[p] EXCEPT !.at = "send", !.auth = "token",
                               !.token = IF OfRestClient(p) THEN call[p].own ELSE stsToken])
    /\ UNCHANGED <<now, provider, config, oauthToken, stsToken>>

\* The call goes out; a REST client that holds a token stays for the next one.
Send(p) ==
    /\ call[p].at = "send"
    /\ Goes(p, IF call[p].own = NoToken THEN Idle
               ELSE [Idle EXCEPT !.own = call[p].own, !.by = call[p].by,
                                 !.endpoint = call[p].endpoint, !.bare = call[p].bare])
    /\ UNCHANGED <<now, provider, config, oauthToken, stsToken>>

Tick ==
    /\ now < MaxTime /\ isOAuthEnabled(config)
    /\ \A p \in Actors : call[p].at # "idle" => now < call[p].since + Latency
    /\ now' = now + 1
    /\ UNCHANGED <<provider, config, oauthToken, stsToken, call>>

Answered(p) ==
    \/ \E t \in call[p].since .. now, life \in Lifetimes :
           \/ \E told \in BOOLEAN : requestNewExternalOAuthToken(p, t, life, told)
           \/ requestNewSTSOAuthToken(p, t, life)
    \/ FetchFails(p)
    \/ ExpiresInIsNoNumber(p)

Handle(p) ==
    \/ \E context \in CloudContexts : CallCloud(p, context)
    \/ \E r \in RestCallsUnder[config] : CreateRestClient(p, r)
    \/ CallRest(p)
    \/ ReadToken(p)
    \/ Send(p)

Next ==
    \/ ConfigureWithKeys
    \/ initializeOAuthConfigs
    \/ Restart
    \/ Tick
    \/ \E p \in Actors : Answered(p)
    \/ \E p \in Handlers : Handle(p)

Spec == Init /\ [][Next]_vars

---------------------------------------------------------------------------
(* Properties.                                                             *)

Static == config.oauth = "static"

\* Safety: the token that a call goes out with is one its issuer still accepts,
\* whoever renewed it and however late, unless the fetch of this very call failed.
\* Nothing is said of a static token that a REST client sends.
UsedIsUnexpired ==
    \A p \in Handlers :
        /\ call[p].at = "send" /\ call[p].auth = "token" /\ ~call[p].failed
        /\ ~(Static /\ OfRestClient(p))
        => Unexpired(call[p].token)

\* Safety: an external token is exchanged only while its issuer accepts it (static
\* ones left out), also when another handler has replaced it meanwhile.
ExchangedIsUnexpired ==
    \A p \in Actors : call[p].at = "askSTS" /\ ~Static => Unexpired(call[p].token)

\* Safety: a provider that OAuth configured never loses a token of its Client: with
\* a nil one, every later Cloud API call would go out without credentials.
TokensStay ==
    provider = "ready" /\ isOAuthEnabled(config) => oauthToken # NoToken /\ stsToken # NoToken

\* Safety: what providerConfigure accepts and the extract functions return puts
\* credentials on every call, but for a Cloud API call of a provider block without
\* the Cloud key pair, and for the API of Connect artifacts under OAuth.
CarriesCredentials ==
    \A p \in Handlers :
        call[p].at = "send" /\ call[p].auth = "none"
            => /\ call[p].bare = "cloud" /\ CloudKeys(config) = "empty"
               /\ isOAuthEnabled(config) => call[p].by = camV1ApiContext.token

\* Safety: a REST call goes to an endpoint, but for the Schema Registry of a provider
\* block with catalog_rest_endpoint alone: the block counts as complete, and its empty
\* schema_registry_rest_endpoint hides the one of the resource.
EndpointIsKnown ==
    \A p \in Handlers :
        call[p].at = "send" /\ call[p].endpoint = "empty"
            => /\ call[p].bare = "schema_registry"
               /\ SchemaRegistryEndpoints \cap config.attrs = {"catalog_rest_endpoint"}
=============================================================================
