------------------------- MODULE OAuthTokens_proofs -------------------------
(***************************************************************************)
(* For every number of handlers, every latency and every lifetime that the *)
(* buffers cover: the tokens that calls go out with, and those that are    *)
(* exchanged, are still accepted by their issuers.  For every provider     *)
(* block and every number of handlers: which calls go out without          *)
(* credentials or without an endpoint.                                     *)
(***************************************************************************)
EXTENDS OAuthTokens, TLAPS

\* The provider stops to use a token a whole Latency before it expires.
Slack(token) == token.validUntil = Never \/ token.validUntil + Latency <= token.expires
\* The token outlives the call, which started at c.since.
Covers(c, token) == c.since + Latency <= token.expires

\* What is true of the call c of p.  The shared stsToken may be replaced while p is
\* about to read it, so its coverage is part of what p relies on.
Sound(p, c, time, process, cfg, external, sts) ==
    /\ c.at # "idle" => /\ c.since <= time /\ time <= c.since + Latency
                        /\ process = IF p = Setup THEN "configuring" ELSE "ready"
    /\ c.own # NoToken => c.by = "external"
    /\ cfg.oauth # "static" => Slack(c.own)
    /\ c.at = "askSTS" /\ cfg.oauth # "static" => Covers(c, c.token)
    /\ p # Setup /\ c.at = "askSTS" => c.by # "external"
    /\ p # Setup /\ c.at = "use" /\ c.by # "external" /\ ~c.failed => Covers(c, sts)
    /\ p # Setup /\ c.at = "use" /\ c.by = "external" /\ cfg.oauth # "static" => Covers(c, c.own)
    /\ p # Setup /\ c.at = "send" /\ c.auth = "token" /\ ~c.failed
         /\ ~(cfg.oauth = "static" /\ c.by = "external") => Covers(c, c.token)
    /\ p = Setup /\ c.at = "askSTS" => external # NoToken
SoundNow(p) == Sound(p, call[p], now, provider, config, oauthToken, stsToken)

\* The inductive invariant.
IInv ==
    /\ TypeOK
    /\ Slack(stsToken)
    /\ ~Static => Slack(oauthToken)
    /\ TokensStay
    /\ \A p \in Actors : SoundNow(p)

USE TimesAssumption DEF Never

---------------------------------------------------------------------------
(* Facts about tokens and calls.                                           *)

LEMMA NoTokenType == NoToken \in Token /\ Slack(NoToken)
  BY DEF NoToken, Token, Slack

LEMMA IdleType == Idle \in Call /\ Idle.at = "idle" /\ Idle.own = NoToken
  BY NoTokenType DEF Idle, Call

\* An STS token that arrives at most Latency after it was issued.
LEMMA NewSTSIsSlack ==
  ASSUME TypeOK, NEW t \in Int, NEW life \in Lifetimes, 0 <= t, now <= t + Latency
  PROVE  /\ NewSTS(t, life) \in Token /\ Slack(NewSTS(t, life))
         /\ NewSTS(t, life) # NoToken
         /\ now + Latency <= NewSTS(t, life).expires
<1>1. life \in Nat /\ BufferOf(life, STSBuffer) >= 2 * Latency /\ life >= 2 * Latency
  BY BufferAssumption
<1>2. BufferOf(life, STSBuffer) \in Int
  BY <1>1 DEF BufferOf
<1> QED
  BY <1>1, <1>2 DEF NewSTS, Token, Slack, NoToken, TypeOK

\* The same of an external token, whether or not its lifetime is told.
LEMMA NewExternalIsSlack ==
  ASSUME TypeOK, NEW t \in Int, NEW life \in Lifetimes, NEW told \in BOOLEAN,
         0 <= t, now <= t + Latency
  PROVE  /\ NewExternal(t, life, told) \in Token /\ Slack(NewExternal(t, life, told))
         /\ NewExternal(t, life, told) # NoToken
         /\ now + Latency <= NewExternal(t, life, told).expires
<1>1. life \in Nat /\ BufferOf(life, ExternalBuffer) >= 2 * Latency /\ life >= 2 * Latency
  BY BufferAssumption
<1>2. BufferOf(life, ExternalBuffer) \in Int
  BY <1>1 DEF BufferOf
<1> QED
  BY <1>1, <1>2 DEF NewExternal, Token, Slack, NoToken, TypeOK

\* A token that passes the provider's check outlives a call that starts now.
LEMMA ValidIsGood ==
  ASSUME NEW token \in Token, now \in Nat, Slack(token), validateCurrentToken(token)
  PROVE  now + Latency <= token.expires
  BY DEF Token, Slack, validateCurrentToken

LEMMA WaitsType ==
  ASSUME NEW c \in Call, NEW at \in {"askExternal", "askSTS", "use", "send"},
         NEW token \in Token, now \in Nat
  PROVE  /\ Waits(c, at, token) \in Call
         /\ Waits(c, at, token).at = at /\ Waits(c, at, token).since = now
         /\ Waits(c, at, token).token = token
         /\ Waits(c, at, token).own = c.own /\ Waits(c, at, token).by = c.by
         /\ Waits(c, at, token).failed = c.failed
  BY DEF Waits, Call

\* Where the extract functions succeed, endpoint and keys are set or empty.
LEMMA RestCallType ==
  ASSUME NEW cfg \in Configs, NEW r \in RestCallsUnder[cfg]
  PROVE  /\ r.by \in {"external", "none"} /\ r.family \in Families
         /\ r.endpoint \in {"set", "empty"}
<1>1. r \in RestCalls(cfg)
  BY CallsAssumption
<1>2. PICK context \in RestContexts, x \in Resources :
        r = RestCall(context, cfg, x) /\ Extracted(context.keys, cfg, x)
  BY <1>1 DEF RestCalls
<1>3. context.token \in {"external", "none"} /\ context.keys \in Families
  BY DEF RestContexts, kafkaApiContext, schemaRegistryApiContext, Families,
         schemaRegistryDataCatalogV1ApiContext, catalogDataCatalogV1ApiContext, flinkApiContext,
         tableflowApiContext, RestApiContext, KeyOnlyContext
<1>4. Endpoint(context.keys, cfg, x) \in {"set", "empty", "error"}
  BY <1>3 DEF Families, Endpoint, extractRestEndpoint, extractSchemaRegistryRestEndpoint,
              extractCatalogRestEndpoint, extractFlinkRestEndpoint, Lookup, Attribute
<1>5. Endpoint(context.keys, cfg, x) # "error"
  BY <1>2 DEF Extracted
<1> QED
  BY <1>2, <1>3, <1>4, <1>5 DEF RestCall

---------------------------------------------------------------------------
(* Steps preserve the invariant.                                           *)

\* A step of the call of p that leaves the process alive: a token it stores in the
\* Client has to outlive every call that started by now.
OneCallMoves(p) ==
    /\ call' = [call EXCEPT ![p] = call'[p]] /\ call'[p] \in Call
    /\ now' = now /\ config' = config /\ provider' = provider
    /\ oauthToken' \in Token /\ (~Static => Slack(oauthToken'))
    /\ oauthToken' = oauthToken \/ oauthToken' # NoToken
    /\ stsToken' \in Token /\ Slack(stsToken')
    /\ stsToken' = stsToken \/ (stsToken' # NoToken /\ now + Latency <= stsToken'.expires)
    /\ Sound(p, call'[p], now, provider, config, oauthToken', stsToken')

LEMMA OneCall ==
  ASSUME IInv, NEW p \in Actors, OneCallMoves(p)
  PROVE  IInv'
<1> USE DEF OneCallMoves
<1>1. TypeOK'
  BY DEF IInv, TypeOK
<1>2. Slack(stsToken)' /\ (~Static => Slack(oauthToken))'
  BY DEF IInv, Slack, Static
<1>3. TokensStay'
  BY DEF IInv, TokensStay
<1>4. ASSUME NEW q \in Actors, q # p PROVE SoundNow(q)'
  <2>1. call'[q] = call[q] /\ call[q] \in Call /\ SoundNow(q)
    BY <1>4 DEF IInv, TypeOK
  <2>2. Covers(call[q], stsToken) /\ call[q].at # "idle" => Covers(call[q], stsToken')
    <3>1. call[q].since \in Nat /\ now \in Nat /\ stsToken'.expires \in Int
      BY <2>1 DEF Call, Token, IInv, TypeOK
    <3>2. call[q].at # "idle" => call[q].since <= now
      BY <2>1 DEF Sound, SoundNow
    <3> QED
      BY <3>1, <3>2 DEF Covers
  <2>3. QED
    BY <2>1, <2>2 DEF Sound, SoundNow, Covers, Static, Slack
<1>5. SoundNow(p)'
  BY DEF SoundNow
<1> QED
  BY <1>1, <1>2, <1>3, <1>4, <1>5 DEF IInv

\* The process ends: every call is lost.
LEMMA DeathIsSound ==
  ASSUME IInv, NEW how \in {"refused", "crashed"}, Dies(how)
  PROVE  IInv'
<1>1. TypeOK'
  BY IdleType, NoTokenType DEF IInv, TypeOK, Dies
<1>2. \A p \in Actors : call'[p] = Idle
  BY DEF Dies
<1>3. \A p \in Actors : SoundNow(p)'
  BY <1>2, NoTokenType, IdleType DEF Sound, SoundNow
<1>4. Slack(stsToken)' /\ Slack(oauthToken)' /\ TokensStay'
  BY NoTokenType DEF Dies, Slack, TokensStay
<1> QED
  BY <1>1, <1>3, <1>4 DEF IInv

LEMMA InitIsSound == Init => IInv
<1> SUFFICES ASSUME Init PROVE IInv
  OBVIOUS
<1>1. TypeOK
  BY IdleType, NoTokenType DEF Init, TypeOK
<1>2. \A p \in Actors : call[p] = Idle
  BY DEF Init
<1>3. \A p \in Actors : SoundNow(p)
  BY <1>2, NoTokenType, IdleType DEF Sound, SoundNow
<1> QED
  BY <1>1, <1>3, NoTokenType DEF IInv, Init, TokensStay

LEMMA ConfigurationIsSound ==
  ASSUME IInv, ConfigureWithKeys \/ initializeOAuthConfigs \/ Restart
  PROVE  IInv'
<1>1. ASSUME provider \in {"new", "refused", "crashed"}, NEW p \in Actors
      PROVE  call[p] \in Call /\ call[p].at = "idle" /\ SoundNow(p)
  BY <1>1 DEF IInv, TypeOK, Sound, SoundNow
<1>2. CASE ConfigureWithKeys
  <2>1. TypeOK'
    BY <1>2 DEF IInv, TypeOK, ConfigureWithKeys
  <2>2. \A p \in Actors : SoundNow(p)'
    BY <1>2, <1>1 DEF ConfigureWithKeys, Sound, SoundNow, Static, Slack
  <2>3. TokensStay'
    BY <1>2 DEF ConfigureWithKeys, TokensStay, isOAuthEnabled
  <2> QED
    BY <1>2, <2>1, <2>2, <2>3 DEF IInv, ConfigureWithKeys, Slack, Static
<1>3. CASE Restart
  <2>1. TypeOK'
    BY <1>3 DEF IInv, TypeOK, Restart
  <2>2. \A p \in Actors : SoundNow(p)'
    BY <1>3, <1>1 DEF Restart, Sound, SoundNow, Static, Slack
  <2>3. TokensStay'
    BY <1>3 DEF Restart, TokensStay
  <2> QED
    BY <1>3, <2>1, <2>2, <2>3 DEF IInv, Restart, Slack, Static
<1>4. CASE initializeOAuthConfigs
  <2>1. StaticToken \in Token /\ StaticToken # NoToken
    BY DEF StaticToken, Token, NoToken
  <2>2. now \in Nat /\ Setup \in Actors
    BY DEF IInv, TypeOK, Actors
  <2>3. PICK at \in {"askSTS", "askExternal"}, token \in Token :
          /\ call' = [call EXCEPT ![Setup] = Waits(Idle, at, token)]
          /\ at = "askSTS" => Static /\ oauthToken' = StaticToken
          /\ at = "askExternal" => oauthToken' = oauthToken
    BY <1>4, <2>1, NoTokenType DEF initializeOAuthConfigs, Goes, Static
  <2>4. Waits(Idle, at, token) \in Call
    BY <2>2, IdleType, WaitsType
  <2>5. TypeOK'
    BY <1>4, <2>1, <2>2, <2>3, <2>4 DEF IInv, TypeOK, initializeOAuthConfigs
  <2>6. ASSUME NEW p \in Actors PROVE SoundNow(p)'
    <3>1. CASE p = Setup
      <4>1. call'[p] = Waits(Idle, at, token)
        BY <2>2, <2>3, <3>1 DEF IInv, TypeOK
      <4>2. /\ call'[p].at = at /\ call'[p].since = now /\ call'[p].own = NoToken
        BY <4>1 DEF Waits, Idle
      <4> QED
        BY <1>4, <2>1, <2>2, <2>3, <3>1, <4>2, NoTokenType
        DEF Sound, SoundNow, Static, Slack, initializeOAuthConfigs
    <3>2. CASE p # Setup
      <4>1. call'[p] = call[p] /\ call[p].at = "idle" /\ SoundNow(p)
        BY <1>1, <1>4, <2>3, <3>2 DEF IInv, TypeOK, initializeOAuthConfigs
      <4> QED
        BY <1>4, <3>2, <4>1 DEF Sound, SoundNow, Static, Slack, initializeOAuthConfigs
    <3> QED
      BY <3>1, <3>2
  <2>7. TokensStay'
    BY <1>4 DEF initializeOAuthConfigs, TokensStay
  <2>8. Slack(stsToken)' /\ (~Static => Slack(oauthToken))'
    BY <1>4 DEF IInv, Slack, Static, initializeOAuthConfigs
  <2> QED
    BY <2>5, <2>6, <2>7, <2>8 DEF IInv
<1> QED
  BY <1>2, <1>3, <1>4

LEMMA TickIsSound ==
  ASSUME IInv, Tick
  PROVE  IInv'
<1>1. TypeOK'
  BY DEF IInv, TypeOK, Tick
<1>2. ASSUME NEW p \in Actors PROVE SoundNow(p)'
  <2>1. call[p] \in Call /\ now \in Nat /\ SoundNow(p)
    BY DEF IInv, TypeOK
  <2>2. call[p].since \in Nat
    BY <2>1 DEF Call
  <2>3. call[p].at # "idle" => now < call[p].since + Latency
    BY DEF Tick
  <2> QED
    BY <2>1, <2>2, <2>3 DEF Tick, Sound, SoundNow, Covers, Slack, Static
<1> QED
  BY <1>1, <1>2 DEF IInv, Tick, TokensStay, Slack, Static

\* What a call that waits from now on has to be covered by.
CoveredNow(c) ==
    /\ c.since = now /\ c.at # "idle"
    /\ c.own # NoToken => c.by = "external"
    /\ ~Static => Slack(c.own)
    /\ c.at = "askSTS" /\ ~Static => now + Latency <= c.token.expires
    /\ c.at = "askSTS" => c.by # "external"
    /\ c.at = "use" /\ c.by # "external" /\ ~c.failed => now + Latency <= stsToken.expires
    /\ c.at = "use" /\ c.by = "external" /\ ~Static => now + Latency <= c.own.expires
    /\ c.at = "send" => c.auth # "token"

LEMMA StartIsSound ==
  ASSUME IInv, NEW p \in Handlers, NEW c \in Call, CoveredNow(c), Starts(p, c)
  PROVE  IInv'
<1>1. p \in Actors /\ p # Setup /\ now \in Nat
  BY DEF Actors, IInv, TypeOK
<1>2. call' = [call EXCEPT ![p] = c] /\ call'[p] = c
  BY <1>1 DEF Starts, IInv, TypeOK
<1>3. Sound(p, call'[p], now, provider, config, oauthToken', stsToken')
  BY <1>1, <1>2 DEF Sound, CoveredNow, Covers, Starts, Static
<1>4. oauthToken \in Token /\ stsToken \in Token /\ Slack(stsToken) /\ (~Static => Slack(oauthToken))
  BY DEF IInv, TypeOK
<1>5. /\ now' = now /\ config' = config /\ provider' = provider
      /\ oauthToken' = oauthToken /\ stsToken' = stsToken
  BY DEF Starts
<1>6. call' = [call EXCEPT ![p] = call'[p]] /\ call'[p] \in Call
  BY <1>2
<1>7. /\ oauthToken' \in Token /\ (~Static => Slack(oauthToken'))
      /\ stsToken' \in Token /\ Slack(stsToken')
  BY <1>4, <1>5
<1>8. OneCallMoves(p)
  BY <1>3, <1>5, <1>6, <1>7 DEF OneCallMoves
<1> QED
  BY <1>1, <1>8, OneCall

LEMMA FetchExternalIsCovered ==
  ASSUME IInv, NEW c \in Call, c.by = "external", ~Static => Slack(c.own)
  PROVE  fetchExternalOAuthToken(c) \in Call /\ CoveredNow(fetchExternalOAuthToken(c))
<1>1. now \in Nat /\ c.own \in Token
  BY DEF IInv, TypeOK, Call
<1>2. Waits(c, "use", NoToken) \in Call /\ Waits(c, "askExternal", NoToken) \in Call
  BY <1>1, NoTokenType, WaitsType
<1>3. \A at \in {"use", "askExternal"} :
         /\ Waits(c, at, NoToken).at = at /\ Waits(c, at, NoToken).since = now
         /\ Waits(c, at, NoToken).own = c.own /\ Waits(c, at, NoToken).by = c.by
  BY DEF Waits, Call
<1>4. validateCurrentToken(c.own) /\ ~Static => now + Latency <= c.own.expires
  BY <1>1, ValidIsGood
<1> QED
  BY <1>2, <1>3, <1>4 DEF fetchExternalOAuthToken, CoveredNow

LEMMA WithKeysIsCovered ==
  ASSUME IInv, NEW c \in Call, ~Static => Slack(c.own), c.own # NoToken => c.by = "external",
         NEW family \in Families \cup {"cloud"}, NEW keys
  PROVE  WithKeys(c, family, keys) \in Call /\ CoveredNow(WithKeys(c, family, keys))
<1>1. now \in Nat
  BY DEF IInv, TypeOK
<1>2. PICK w : w = Waits(c, "send", NoToken)
  OBVIOUS
<1>3. w \in Call /\ w.at = "send" /\ w.since = now /\ w.own = c.own /\ w.by = c.by
  BY <1>1, <1>2, NoTokenType DEF Waits, Call
<1>4. WithKeys(c, family, keys)
        = [w EXCEPT !.auth = IF keys = "set" THEN "key" ELSE "none", !.bare = family]
  BY <1>2 DEF WithKeys
<1>5. PICK auth \in {"key", "none"} : WithKeys(c, family, keys)
        = [w EXCEPT !.auth = auth, !.bare = family]
  BY <1>4
<1>6. WithKeys(c, family, keys) \in Call
  BY <1>3, <1>5 DEF Call
<1>7. /\ WithKeys(c, family, keys).auth = auth /\ WithKeys(c, family, keys).at = "send"
      /\ WithKeys(c, family, keys).since = now /\ WithKeys(c, family, keys).own = c.own
      /\ WithKeys(c, family, keys).by = c.by
  BY <1>3, <1>5 DEF Call
<1> QED
  BY <1>6, <1>7 DEF CoveredNow

LEMMA FetchSTSIsCovered ==
  ASSUME IInv, NEW c \in Call, c.by = "sts", c.own = NoToken, ~c.failed
  PROVE  /\ fetchOrOverrideSTSOAuthTokenFromApiContext(c) \in Call
         /\ CoveredNow(fetchOrOverrideSTSOAuthTokenFromApiContext(c))
<1>1. now \in Nat /\ oauthToken \in Token /\ stsToken \in Token
  BY DEF IInv, TypeOK
<1>2. CASE validateCurrentToken(stsToken)
  <2>1. now + Latency <= stsToken.expires
    BY <1>1, <1>2, ValidIsGood DEF IInv
  <2>2. PICK w \in Call : w = Waits(c, "use", NoToken)
    BY <1>1, NoTokenType, WaitsType
  <2>3. w.at = "use" /\ w.since = now /\ w.own = NoToken /\ w.by = "sts"
    BY <2>2 DEF Waits, Call
  <2>4. fetchOrOverrideSTSOAuthTokenFromApiContext(c) = w
    BY <1>2, <2>2 DEF fetchOrOverrideSTSOAuthTokenFromApiContext
  <2> QED
    BY <2>1, <2>3, <2>4, NoTokenType DEF CoveredNow
<1>3. CASE ~validateCurrentToken(stsToken)
  <2>1. PICK at \in {"askSTS", "askExternal"}, token \in Token :
          /\ fetchOrOverrideSTSOAuthTokenFromApiContext(c)
                = [Waits(c, at, token) EXCEPT !.wanted = stsToken.granted]
          /\ at = "askSTS" => token = oauthToken /\ validateCurrentToken(oauthToken)
    BY <1>1, <1>3, NoTokenType DEF fetchOrOverrideSTSOAuthTokenFromApiContext
  <2>2. PICK w \in Call : w = Waits(c, at, token)
    BY <1>1, WaitsType
  <2>3. w.at = at /\ w.since = now /\ w.own = NoToken /\ w.token = token /\ w.by = "sts"
    BY <2>2 DEF Waits, Call
  <2>4. stsToken.granted \in Nat
    BY <1>1 DEF Token
  <2>5. PICK f : f = [w EXCEPT !.wanted = stsToken.granted]
    OBVIOUS
  <2>6. /\ f \in Call /\ f.at = at /\ f.since = now /\ f.own = NoToken /\ f.token = token
        /\ f.by = "sts"
    BY <2>3, <2>4, <2>5 DEF Call
  <2>7. at = "askSTS" /\ ~Static => now + Latency <= token.expires
    BY <1>1, <2>1, ValidIsGood DEF IInv
  <2>8. CoveredNow(f)
    BY <2>6, <2>7, NoTokenType DEF CoveredNow
  <2> QED
    BY <2>1, <2>2, <2>5, <2>6, <2>8
<1> QED
  BY <1>2, <1>3

LEMMA CallCloudIsSound ==
  ASSUME IInv, NEW p \in Handlers, NEW context \in CloudContexts, CallCloud(p, context)
  PROVE  IInv'
<1>1. context.token \in {"sts", "none"}
  BY DEF CloudContexts, CloudApiContext, KeyOnlyContext, camV1ApiContext, apiKeysV2ApiContext,
         byokV1ApiContext, connectCustomPluginV1ApiContext, ccpmV1ApiContext, cmkV2ApiContext,
         iamV2ApiContext, iamIpFilteringV2ApiContext, certificateAuthorityV2ApiContext,
         ssoV2ApiContext, providerIntegrationV1ApiContext, providerIntegrationV2ApiContext,
         iamV1ApiContext, mdsV2ApiContext, networkingV1ApiContext, flinkArtifactV1ApiContext,
         flinkV2ApiContext, networkingAccessPointV1ApiContext, networkingGatewayV1ApiContext,
         networkingIpV1ApiContext, networkingPrivatelinkV1ApiContext,
         networkingDnsforwarderV1ApiContext, endpointV1ApiContext, srcmV3ApiContext,
         connectV1ApiContext, orgV2ApiContext, ksqlV2ApiContext, identityProviderV2ApiContext,
         kafkaQuotasV1ApiContext, rtceV1ApiContext
<1>2. PICK c : c = [Idle EXCEPT !.by = context.token]
  OBVIOUS
<1>3. c \in Call /\ c.by = context.token /\ c.own = NoToken /\ c.failed = FALSE
  BY <1>1, <1>2, NoTokenType DEF Idle, Call
<1>4. PICK f : f = IF context.token = "sts" /\ oauthToken # NoToken /\ stsToken # NoToken
                   THEN fetchOrOverrideSTSOAuthTokenFromApiContext(c)
                   ELSE WithKeys(c, "cloud", CloudKeys(config))
  OBVIOUS
<1>5. f \in Call /\ CoveredNow(f)
  <2>1. context.token = "sts" => /\ fetchOrOverrideSTSOAuthTokenFromApiContext(c) \in Call
                                 /\ CoveredNow(fetchOrOverrideSTSOAuthTokenFromApiContext(c))
    BY <1>3, FetchSTSIsCovered
  <2>2. /\ WithKeys(c, "cloud", CloudKeys(config)) \in Call
        /\ CoveredNow(WithKeys(c, "cloud", CloudKeys(config)))
    BY <1>3, WithKeysIsCovered, NoTokenType
  <2> QED
    BY <1>4, <2>1, <2>2
<1>6. Starts(p, f)
  BY <1>2, <1>4 DEF CallCloud
<1> QED
  BY <1>5, <1>6, StartIsSound

LEMMA CallRestIsSound ==
  ASSUME IInv, NEW p \in Handlers,
         CallRest(p) \/ \E r \in RestCallsUnder[config] : CreateRestClient(p, r)
  PROVE  IInv'
<1>1. p \in Actors /\ config \in Configs /\ oauthToken \in Token /\ (~Static => Slack(oauthToken))
  BY DEF Actors, IInv, TypeOK
<1>2. CASE CallRest(p)
  <2>1. PICK c : c = call[p]
    OBVIOUS
  <2>2. c \in Call /\ (~Static => Slack(c.own)) /\ c.own # NoToken
    BY <1>1, <1>2, <2>1 DEF IInv, TypeOK, SoundNow, Sound, Static, CallRest
  <2>3. c.by = "external"
    BY <1>1, <2>1, <2>2 DEF IInv, SoundNow, Sound
  <2>4. PICK f : f = fetchExternalOAuthToken(c)
    OBVIOUS
  <2>5. f \in Call /\ CoveredNow(f)
    BY <2>2, <2>3, <2>4, FetchExternalIsCovered
  <2>6. Starts(p, f)
    BY <1>2, <2>1, <2>4 DEF CallRest
  <2> QED
    BY <2>5, <2>6, StartIsSound
<1>3. ASSUME NEW r \in RestCallsUnder[config], CreateRestClient(p, r) PROVE IInv'
  <2>1. /\ r.by \in {"external", "none"} /\ r.family \in Families
        /\ r.endpoint \in {"set", "empty"}
    BY <1>1, RestCallType
  <2>2. PICK c : c = [Idle EXCEPT !.by = r.by, !.endpoint = r.endpoint,
                                  !.bare = IF r.endpoint = "empty" THEN r.family ELSE "",
                                  !.own = IF r.by = "external" THEN oauthToken ELSE NoToken]
    OBVIOUS
  <2>3. /\ c \in Call /\ c.by = r.by
        /\ c.own = IF r.by = "external" THEN oauthToken ELSE NoToken
    BY <1>1, <2>1, <2>2, NoTokenType DEF Idle, Call
  <2>4. ~Static => Slack(c.own)
    BY <1>1, <2>3, NoTokenType
  <2>5. PICK f : f = IF c.own # NoToken THEN fetchExternalOAuthToken(c)
                     ELSE WithKeys(c, r.family, r.keys)
    OBVIOUS
  <2>6. c.own # NoToken => fetchExternalOAuthToken(c) \in Call /\ CoveredNow(fetchExternalOAuthToken(c))
    BY <2>3, <2>4, FetchExternalIsCovered
  <2>7. WithKeys(c, r.family, r.keys) \in Call /\ CoveredNow(WithKeys(c, r.family, r.keys))
    BY <2>1, <2>3, <2>4, WithKeysIsCovered
  <2>8. Starts(p, f)
    BY <1>3, <2>2, <2>5 DEF CreateRestClient
  <2> QED
    BY <2>5, <2>6, <2>7, <2>8, StartIsSound
<1> QED
  BY <1>2, <1>3

\* A step in which p waits anew for f, and the Client keeps its tokens or takes new ones.
LEMMA WaitingIsSound ==
  ASSUME IInv, NEW p \in Actors, NEW f \in Call, call' = [call EXCEPT ![p] = f],
         call[p].at # "idle", f.since = now, f.at # "idle", f.at # "send",
         f.own # NoToken => f.by = "external", ~Static => Slack(f.own),
         f.at = "askSTS" /\ ~Static => now + Latency <= f.token.expires,
         p # Setup /\ f.at = "askSTS" => f.by # "external",
         p # Setup /\ f.at = "use" /\ f.by # "external" /\ ~f.failed
             => now + Latency <= stsToken'.expires,
         f.at = "use" /\ f.by = "external" /\ ~Static => now + Latency <= f.own.expires,
         p = Setup /\ f.at = "askSTS" => oauthToken' # NoToken,
         now' = now, config' = config, provider' = provider,
         oauthToken' \in Token, ~Static => Slack(oauthToken'),
         oauthToken' = oauthToken \/ oauthToken' # NoToken,
         stsToken' \in Token, Slack(stsToken'),
         stsToken' = stsToken \/ (stsToken' # NoToken /\ now + Latency <= stsToken'.expires)
  PROVE  IInv'
<1>1. now \in Nat /\ call \in [Actors -> Call]
  BY DEF IInv, TypeOK
<1>2. call'[p] = f
  BY <1>1
<1>3. provider = IF p = Setup THEN "configuring" ELSE "ready"
  BY DEF IInv, SoundNow, Sound
<1>4. Sound(p, f, now, provider, config, oauthToken', stsToken')
  BY <1>1, <1>3 DEF Sound, Covers, Static
<1>5. OneCallMoves(p)
  BY <1>1, <1>2, <1>4 DEF OneCallMoves
<1> QED
  BY <1>5, OneCall

LEMMA NewExternalTokenIsSound ==
  ASSUME IInv, NEW p \in Actors, NEW t \in call[p].since .. now, NEW life \in Lifetimes,
         NEW told \in BOOLEAN, requestNewExternalOAuthToken(p, t, life, told)
  PROVE  IInv'
<1>1. TypeOK /\ now \in Nat /\ call[p] \in Call /\ oauthToken \in Token /\ stsToken \in Token
  BY DEF IInv, TypeOK
<1>2. call[p].at = "askExternal"
  BY DEF requestNewExternalOAuthToken
<1>3. call[p].since \in Nat /\ now <= call[p].since + Latency
  BY <1>1, <1>2 DEF Call, IInv, SoundNow, Sound
<1>4. t \in Int /\ 0 <= t /\ now <= t + Latency
  BY <1>1, <1>3
<1>5. PICK token : token = NewExternal(t, life, told)
  OBVIOUS
<1>6. token \in Token /\ Slack(token) /\ token # NoToken /\ now + Latency <= token.expires
  BY <1>1, <1>4, <1>5, NewExternalIsSlack
<1>7. /\ now' = now /\ config' = config /\ provider' = provider /\ stsToken' = stsToken
      /\ Slack(stsToken)
  BY DEF requestNewExternalOAuthToken, IInv
<1>8. CASE OfRestClient(p)
  <2>1. PICK w : w = Waits(call[p], "use", NoToken)
    OBVIOUS
  <2>2. w \in Call /\ w.at = "use" /\ w.since = now /\ w.by = "external"
    BY <1>1, <1>8, <2>1, NoTokenType DEF Waits, Call, OfRestClient
  <2>3. PICK f : f = [w EXCEPT !.own = token]
    OBVIOUS
  <2>4. f \in Call /\ f.at = "use" /\ f.since = now /\ f.by = "external" /\ f.own = token
    BY <1>6, <2>2, <2>3 DEF Call
  <2>5. call' = [call EXCEPT ![p] = f] /\ oauthToken' = oauthToken
    BY <1>5, <1>8, <2>1, <2>3 DEF requestNewExternalOAuthToken, Goes
  <2>6. ~Static => Slack(oauthToken')
    BY <2>5 DEF IInv
  <2> QED
    BY <1>1, <1>2, <1>6, <1>7, <2>4, <2>5, <2>6, WaitingIsSound
<1>9. CASE ~OfRestClient(p)
  <2>1. PICK f : f = Waits(call[p], "askSTS", token)
    OBVIOUS
  <2>2. /\ f \in Call /\ f.at = "askSTS" /\ f.since = now /\ f.token = token
        /\ f.own = call[p].own /\ f.by = call[p].by
    BY <1>1, <1>6, <2>1 DEF Waits, Call
  <2>3. call' = [call EXCEPT ![p] = f] /\ oauthToken' = token
    BY <1>5, <1>9, <2>1 DEF requestNewExternalOAuthToken, Goes
  <2>4. (~Static => Slack(f.own)) /\ (f.own # NoToken => f.by = "external")
    BY <2>2 DEF IInv, SoundNow, Sound, Static
  <2>5. p # Setup => f.by # "external"
    BY <1>9, <2>2 DEF OfRestClient
  <2> QED
    BY <1>1, <1>2, <1>6, <1>7, <2>2, <2>3, <2>4, <2>5, WaitingIsSound
<1> QED
  BY <1>8, <1>9

LEMMA NewSTSTokenIsSound ==
  ASSUME IInv, NEW p \in Actors, NEW t \in call[p].since .. now, NEW life \in Lifetimes,
         requestNewSTSOAuthToken(p, t, life)
  PROVE  IInv'
<1>1. TypeOK /\ now \in Nat /\ call[p] \in Call /\ oauthToken \in Token /\ stsToken \in Token
  BY DEF IInv, TypeOK
<1>2. call[p].at = "askSTS"
  BY DEF requestNewSTSOAuthToken
<1>3. /\ call[p].since \in Nat /\ now <= call[p].since + Latency
      /\ provider = IF p = Setup THEN "configuring" ELSE "ready"
      /\ p = Setup => oauthToken # NoToken
      /\ (~Static => Slack(call[p].own)) /\ (call[p].own # NoToken => call[p].by = "external")
  BY <1>1, <1>2 DEF Call, IInv, SoundNow, Sound, Static
<1>4. t \in Int /\ 0 <= t /\ now <= t + Latency
  BY <1>1, <1>3
<1>5. PICK token : token = NewSTS(t, life)
  OBVIOUS
<1>6. token \in Token /\ Slack(token) /\ token # NoToken /\ now + Latency <= token.expires
  BY <1>1, <1>4, <1>5, NewSTSIsSlack
<1>7. CASE p = Setup /\ ~Accepted(config)
  BY <1>7, DeathIsSound DEF requestNewSTSOAuthToken
<1>8. CASE p = Setup /\ Accepted(config)
  <2>1. /\ stsToken' = token /\ provider' = "ready" /\ call' = [call EXCEPT ![p] = Idle]
        /\ now' = now /\ config' = config /\ oauthToken' = oauthToken
    BY <1>5, <1>8 DEF requestNewSTSOAuthToken, Goes
  <2>2. TypeOK'
    BY <1>1, <1>6, <2>1, IdleType DEF TypeOK
  <2>3. ASSUME NEW q \in Actors PROVE SoundNow(q)'
    <3>1. CASE q = p
      <4>1. call'[q] = Idle
        BY <1>1, <2>1, <3>1 DEF TypeOK
      <4> QED
        BY <4>1, NoTokenType, IdleType DEF SoundNow, Sound
    <3>2. CASE q # p
      <4>1. call'[q] = call[q] /\ SoundNow(q) /\ call[q].at = "idle"
        BY <1>1, <1>3, <1>8, <2>1, <3>2 DEF TypeOK, IInv, SoundNow, Sound
      <4> QED
        BY <2>1, <4>1 DEF SoundNow, Sound
    <3> QED
      BY <3>1, <3>2
  <2>4. TokensStay'
    BY <1>3, <1>6, <1>8, <2>1 DEF TokensStay
  <2> QED
    BY <1>6, <2>1, <2>2, <2>3, <2>4 DEF IInv, Slack, Static
<1>9. CASE p # Setup
  <2>1. PICK f : f = Waits(call[p], "use", NoToken)
    OBVIOUS
  <2>2. /\ f \in Call /\ f.at = "use" /\ f.since = now
        /\ f.own = call[p].own /\ f.by = call[p].by
    BY <1>1, <2>1, NoTokenType DEF Waits, Call
  <2>3. /\ call' = [call EXCEPT ![p] = f] /\ stsToken' = token /\ provider' = provider
        /\ now' = now /\ config' = config /\ oauthToken' = oauthToken
    BY <1>3, <1>5, <1>9, <2>1 DEF requestNewSTSOAuthToken, Goes
  <2>4. call[p].by # "external"
    BY <1>2, <1>9 DEF IInv, SoundNow, Sound
  <2>5. ~Static => Slack(oauthToken')
    BY <2>3 DEF IInv
  <2> QED
    BY <1>1, <1>2, <1>3, <1>6, <1>9, <2>2, <2>3, <2>4, <2>5, WaitingIsSound
<1> QED
  BY <1>7, <1>8, <1>9

LEMMA FailureIsSound ==
  ASSUME IInv, NEW p \in Actors, FetchFails(p) \/ ExpiresInIsNoNumber(p)
  PROVE  IInv'
<1>1. CASE Dies("refused") \/ Dies("crashed")
  BY <1>1, DeathIsSound
<1>2. CASE /\ call[p].at \in {"askExternal", "askSTS"} /\ p # Setup /\ ~OfRestClient(p)
           /\ Goes(p, [Waits(call[p], "use", NoToken) EXCEPT !.failed = TRUE])
           /\ UNCHANGED <<now, provider, config, oauthToken, stsToken>>
  <2>1. now \in Nat /\ call[p] \in Call /\ oauthToken \in Token /\ stsToken \in Token
    BY DEF IInv, TypeOK
  <2>2. /\ Slack(stsToken) /\ (~Static => Slack(oauthToken)) /\ (~Static => Slack(call[p].own))
        /\ call[p].own # NoToken => call[p].by = "external"
    BY DEF IInv, SoundNow, Sound, Static
  <2>3. PICK w : w = Waits(call[p], "use", NoToken)
    OBVIOUS
  <2>4. /\ w \in Call /\ w.at = "use" /\ w.since = now
        /\ w.own = call[p].own /\ w.by = call[p].by
    BY <2>1, <2>3, NoTokenType DEF Waits, Call
  <2>5. PICK f : f = [w EXCEPT !.failed = TRUE]
    OBVIOUS
  <2>6. /\ f \in Call /\ f.at = "use" /\ f.since = now /\ f.failed = TRUE
        /\ f.own = call[p].own /\ f.by = call[p].by
    BY <2>4, <2>5 DEF Call
  <2>7. /\ call' = [call EXCEPT ![p] = f] /\ call[p].by # "external" /\ call[p].at # "idle"
        /\ now' = now /\ config' = config /\ provider' = provider
        /\ oauthToken' = oauthToken /\ stsToken' = stsToken
    BY <1>2, <2>3, <2>5 DEF Goes, OfRestClient
  <2> QED
    BY <1>2, <2>1, <2>2, <2>6, <2>7, WaitingIsSound
<1> QED
  BY <1>1, <1>2 DEF FetchFails, ExpiresInIsNoNumber
\* The token is chosen: the Latency of the call goes on from where it waited.
LEMMA ReadTokenIsSound ==
  ASSUME IInv, NEW p \in Handlers, ReadToken(p)
  PROVE  IInv'
<1>1. /\ p \in Actors /\ p # Setup /\ now \in Nat /\ call \in [Actors -> Call]
      /\ call[p] \in Call /\ oauthToken \in Token /\ stsToken \in Token
  BY DEF Actors, IInv, TypeOK
<1>2. PICK c : c = call[p]
  OBVIOUS
<1>3. PICK token \in Token : token = IF OfRestClient(p) THEN c.own ELSE stsToken
  BY <1>1, <1>2 DEF Call
<1>4. PICK f : f = [c EXCEPT !.at = "send", !.auth = "token", !.token = token]
  OBVIOUS
<1>5. /\ f \in Call /\ f.at = "send" /\ f.token = token /\ f.since = c.since
      /\ f.own = c.own /\ f.by = c.by /\ f.failed = c.failed
  BY <1>1, <1>2, <1>3, <1>4 DEF Call
<1>6. /\ call' = [call EXCEPT ![p] = f] /\ call'[p] = f /\ c.at = "use"
      /\ now' = now /\ config' = config /\ provider' = provider
      /\ oauthToken' = oauthToken /\ stsToken' = stsToken
  BY <1>1, <1>2, <1>3, <1>4 DEF ReadToken, Goes
<1>7. Sound(p, c, now, provider, config, oauthToken, stsToken)
  BY <1>1, <1>2 DEF IInv, SoundNow
<1>8. Sound(p, f, now, provider, config, oauthToken, stsToken)
  BY <1>1, <1>2, <1>3, <1>5, <1>6, <1>7 DEF Sound, Covers, OfRestClient
<1>9. Slack(stsToken) /\ (~Static => Slack(oauthToken))
  BY DEF IInv
<1>10. OneCallMoves(p)
  BY <1>1, <1>5, <1>6, <1>8, <1>9 DEF OneCallMoves
<1> QED
  BY <1>1, <1>10, OneCall

LEMMA SendIsSound ==
  ASSUME IInv, NEW p \in Handlers, Send(p)
  PROVE  IInv'
<1>1. /\ p \in Actors /\ now \in Nat /\ call \in [Actors -> Call]
      /\ call[p] \in Call /\ oauthToken \in Token /\ stsToken \in Token
  BY DEF Actors, IInv, TypeOK
<1>2. PICK c : c = call[p]
  OBVIOUS
<1>3. PICK f : f = IF c.own = NoToken THEN Idle
                   ELSE [Idle EXCEPT !.own = c.own, !.by = c.by, !.endpoint = c.endpoint,
                                     !.bare = c.bare]
  OBVIOUS
<1>4. Sound(p, c, now, provider, config, oauthToken, stsToken)
  BY <1>1, <1>2 DEF IInv, SoundNow
<1>5. /\ f \in Call /\ f.at = "idle" /\ (f.own # NoToken => f.by = c.by)
      /\ f.own = c.own
  BY <1>1, <1>2, <1>3, NoTokenType DEF Call, Idle
<1>6. /\ call' = [call EXCEPT ![p] = f] /\ call'[p] = f
      /\ now' = now /\ config' = config /\ provider' = provider
      /\ oauthToken' = oauthToken /\ stsToken' = stsToken
  BY <1>1, <1>2, <1>3 DEF Send, Goes
<1>7. Sound(p, f, now, provider, config, oauthToken, stsToken)
  BY <1>4, <1>5 DEF Sound
<1>8. Slack(stsToken) /\ (~Static => Slack(oauthToken))
  BY DEF IInv
<1>9. OneCallMoves(p)
  BY <1>1, <1>5, <1>6, <1>7, <1>8 DEF OneCallMoves
<1> QED
  BY <1>1, <1>9, OneCall

\* Every step preserves the invariant.
LEMMA NextIsSound == IInv /\ [Next]_vars => IInv'
<1> SUFFICES ASSUME IInv, [Next]_vars PROVE IInv'
  OBVIOUS
<1>1. CASE UNCHANGED vars
  BY <1>1 DEF vars, IInv, TypeOK, Slack, Static, TokensStay, SoundNow, Sound, Covers
<1>2. CASE ConfigureWithKeys \/ initializeOAuthConfigs \/ Restart
  BY <1>2, ConfigurationIsSound
<1>3. CASE Tick
  BY <1>3, TickIsSound
<1>4. ASSUME NEW p \in Actors, Answered(p) PROVE IInv'
  BY <1>4, NewExternalTokenIsSound, NewSTSTokenIsSound, FailureIsSound DEF Answered
<1>5. ASSUME NEW p \in Handlers, Handle(p) PROVE IInv'
  BY <1>5, CallCloudIsSound, CallRestIsSound, ReadTokenIsSound, SendIsSound DEF Handle
<1> QED
  BY <1>1, <1>2, <1>3, <1>4, <1>5 DEF Next

---------------------------------------------------------------------------
(* Theorems.                                                               *)

\* The inductive invariant holds in every reachable state.
THEOREM TokensAreSound == Spec => []IInv
  BY InitIsSound, NextIsSound, PTL DEF Spec

\* The state of providerConfigure, of the Client's tokens and of the calls keeps its
\* types, for every provider block and every number of handlers.
THEOREM TypeCorrect == Spec => []TypeOK
<1>1. IInv => TypeOK
  BY DEF IInv
<1> QED
  BY <1>1, TokensAreSound, PTL

\* However many handlers renew the Client's tokens without a lock, in whatever order
\* the answers come back, a call whose own fetch did not fail goes out with a token
\* its issuer still accepts.
THEOREM CallsUseUnexpiredTokens == Spec => []UsedIsUnexpired
<1>1. ASSUME IInv PROVE UsedIsUnexpired
  <2> SUFFICES ASSUME NEW p \in Handlers, call[p].at = "send", call[p].auth = "token",
                      ~call[p].failed, ~(Static /\ OfRestClient(p))
               PROVE  Unexpired(call[p].token)
    BY DEF UsedIsUnexpired
  <2>1. p \in Actors /\ p # Setup /\ now \in Nat /\ call[p] \in Call /\ SoundNow(p)
    BY <1>1 DEF Actors, IInv, TypeOK
  <2>2. now <= call[p].since + Latency /\ Covers(call[p], call[p].token)
    BY <2>1 DEF SoundNow, Sound, Static, OfRestClient
  <2>3. call[p].since \in Nat /\ call[p].token.expires \in Int
    BY <2>1 DEF Call, Token
  <2> QED
    BY <2>1, <2>2, <2>3 DEF Covers, Unexpired
<1> QED
  BY <1>1, TokensAreSound, PTL

\* The external token handed to the STS is one the identity provider still accepts,
\* whichever handler fetched it.
THEOREM ExchangesAreUnexpired == Spec => []ExchangedIsUnexpired
<1>1. ASSUME IInv PROVE ExchangedIsUnexpired
  <2> SUFFICES ASSUME NEW p \in Actors, call[p].at = "askSTS", ~Static
               PROVE  Unexpired(call[p].token)
    BY DEF ExchangedIsUnexpired
  <2>1. now \in Nat /\ call[p] \in Call /\ SoundNow(p)
    BY <1>1 DEF IInv, TypeOK
  <2>2. now <= call[p].since + Latency /\ Covers(call[p], call[p].token)
    BY <2>1 DEF SoundNow, Sound, Static
  <2>3. call[p].since \in Nat /\ call[p].token.expires \in Int
    BY <2>1 DEF Call, Token
  <2> QED
    BY <2>1, <2>2, <2>3 DEF Covers, Unexpired
<1> QED
  BY <1>1, TokensAreSound, PTL

\* Once OAuth has configured the provider, no failed or late exchange takes a token
\* away from the Client.
THEOREM ClientKeepsTokens == Spec => []TokensStay
<1>1. IInv => TokensStay
  BY DEF IInv
<1> QED
  BY <1>1, TokensAreSound, PTL

-----------------------------------------------------------------------------
(* The credentials and the endpoint of a call. *)

\* What is true of the call c of a handler under the provider block cfg.  Whether the
\* endpoint is known is settled when the REST client is made, and stays with its copy.
Credited(c, cfg) ==
    /\ c.endpoint = "empty" =>
          /\ c.bare = "schema_registry"
          /\ SchemaRegistryEndpoints \cap cfg.attrs = {"catalog_rest_endpoint"}
    /\ c.at = "send" /\ c.auth = "none" =>
          /\ c.bare = "cloud" /\ CloudKeys(cfg) = "empty"
          /\ isOAuthEnabled(cfg) => c.by = camV1ApiContext.token

CredentialsInv ==
    /\ provider = "ready" => Accepted(config)
    /\ \A p \in Handlers : Credited(call[p], config)

---------------------------------------------------------------------------
(* What the extract functions return.                                      *)

LEMMA RestContextFamilies ==
  ASSUME NEW context \in RestContexts
  PROVE  /\ context.keys \in Families
         /\ context.token = IF context.keys = "tableflow" THEN "none" ELSE "external"
  BY DEF RestContexts, kafkaApiContext, schemaRegistryApiContext, Families,
         schemaRegistryDataCatalogV1ApiContext, catalogDataCatalogV1ApiContext, flinkApiContext,
         tableflowApiContext, RestApiContext, KeyOnlyContext

\* The one endpoint that may be empty is that of the Schema Registry.
LEMMA EndpointIsSet ==
  ASSUME NEW cfg \in Configs, NEW family \in Families, NEW r,
         Endpoint(family, cfg, r) = "empty"
  PROVE  /\ family = "schema_registry"
         /\ SchemaRegistryEndpoints \cap cfg.attrs = {"catalog_rest_endpoint"}
<1>1. CASE family = "kafka"
  <2>1. isKafkaMetadataSet(cfg) => Attribute(cfg, "kafka_rest_endpoint") = "set"
    BY DEF isKafkaMetadataSet, All, Attribute, KafkaAttributes
  <2>2. Endpoint(family, cfg, r) = extractRestEndpoint(cfg, r)
    BY <1>1 DEF Endpoint
  <2> QED BY <2>1, <2>2 DEF extractRestEndpoint, Lookup
<1>2. CASE family = "schema_registry"
  <2>1. Endpoint(family, cfg, r) = extractSchemaRegistryRestEndpoint(cfg, r)
    BY <1>2 DEF Endpoint
  <2>2. /\ isSchemaRegistryMetadataSet(cfg)
        /\ Attribute(cfg, "schema_registry_rest_endpoint") = "empty"
    BY <2>1 DEF extractSchemaRegistryRestEndpoint, Lookup
  <2>3. "schema_registry_rest_endpoint" \notin cfg.attrs
    BY <2>2 DEF Attribute
  <2>4. "endpoint" \in WithEndpoint(cfg.attrs)
    BY <2>2 DEF isSchemaRegistryMetadataSet, All
  <2>5. SchemaRegistryEndpoints \cap cfg.attrs # {}
    <3>1. "endpoint" \notin cfg.attrs
      BY ConfigsAssumption DEF ProviderAttributes, CloudAttributes, KafkaAttributes,
         SchemaRegistryAttributes, SchemaRegistryEndpoints, FlinkAttributes,
         FlinkOAuthAttributes, TableflowAttributes
    <3> QED BY <2>4, <3>1 DEF WithEndpoint
  <2> QED BY <1>2, <2>3, <2>5 DEF SchemaRegistryEndpoints
<1>3. CASE family = "catalog"
  <2>1. Endpoint(family, cfg, r) = extractCatalogRestEndpoint(cfg, r)
    BY <1>3 DEF Endpoint
  <2> QED BY <2>1 DEF extractCatalogRestEndpoint, Lookup
<1>4. CASE family = "flink"
  <2>1. isFlinkMetadataSet(cfg) => Attribute(cfg, "flink_rest_endpoint") = "set"
    BY DEF isFlinkMetadataSet, All, Attribute, FlinkAttributes, FlinkOAuthAttributes
  <2>2. Endpoint(family, cfg, r) = extractFlinkRestEndpoint(cfg, r)
    BY <1>4 DEF Endpoint
  <2> QED BY <2>1, <2>2 DEF extractFlinkRestEndpoint, Lookup
<1>5. CASE family = "tableflow"
  BY <1>5 DEF Endpoint
<1> QED BY <1>1, <1>2, <1>3, <1>4, <1>5 DEF Families

\* Without OAuth, and for Tableflow always, the key pair is set or an error is returned.
LEMMA KeysAreSet ==
  ASSUME NEW cfg \in Configs, NEW family \in Families, NEW r,
         Keys(family, cfg, r) # "error", ~isOAuthEnabled(cfg) \/ family = "tableflow"
  PROVE  Keys(family, cfg, r) = "set"
<1>1. CASE family = "kafka"
  <2>1. ~isOAuthEnabled(cfg) /\ isKafkaMetadataSet(cfg) => Attribute(cfg, "kafka_api_key") = "set"
    BY DEF isKafkaMetadataSet, All, Attribute, KafkaAttributes
  <2>2. Keys(family, cfg, r) = extractClusterApiKeyAndApiSecret(cfg, r) /\ ~isOAuthEnabled(cfg)
    BY <1>1 DEF Keys
  <2> QED BY <2>1, <2>2 DEF extractClusterApiKeyAndApiSecret, Lookup
<1>2. CASE family \in {"schema_registry", "catalog"}
  <2>0. ~isOAuthEnabled(cfg)
    BY <1>2
  <2>1. isSchemaRegistryMetadataSet(cfg) => Attribute(cfg, "schema_registry_api_key") = "set"
    BY <2>0 DEF isSchemaRegistryMetadataSet, All, Attribute, SchemaRegistryAttributes, WithEndpoint
  <2>2. Keys(family, cfg, r) = extractSchemaRegistryClusterApiKeyAndApiSecret(cfg, r)
    BY <1>2 DEF Keys
  <2> QED BY <2>0, <2>1, <2>2 DEF extractSchemaRegistryClusterApiKeyAndApiSecret, Lookup
<1>3. CASE family = "flink"
  <2>1. ~isOAuthEnabled(cfg) /\ isFlinkMetadataSet(cfg) => Attribute(cfg, "flink_api_key") = "set"
    BY DEF isFlinkMetadataSet, All, Attribute, FlinkAttributes
  <2>2. Keys(family, cfg, r) = extractFlinkApiKeyAndApiSecret(cfg, r) /\ ~isOAuthEnabled(cfg)
    BY <1>3 DEF Keys
  <2> QED BY <2>1, <2>2 DEF extractFlinkApiKeyAndApiSecret, Lookup
<1>4. CASE family = "tableflow"
  <2>1. isTableflowMetadataSet(cfg) => Attribute(cfg, "tableflow_api_key") = "set"
    BY DEF isTableflowMetadataSet, All, Attribute, TableflowAttributes
  <2>2. Keys(family, cfg, r) = extractTableflowApiKeyAndApiSecret(cfg, r)
    BY <1>4 DEF Keys
  <2> QED BY <2>1, <2>2 DEF extractTableflowApiKeyAndApiSecret, Lookup
<1> QED BY <1>1, <1>2, <1>3, <1>4 DEF Families

\* The calls that a handler makes under a provider block.
LEMMA RestCallIsCredited ==
  ASSUME NEW cfg \in Configs, NEW r \in RestCallsUnder[cfg]
  PROVE  /\ r.endpoint = "empty" =>
               /\ r.family = "schema_registry"
               /\ SchemaRegistryEndpoints \cap cfg.attrs = {"catalog_rest_endpoint"}
         /\ ~isOAuthEnabled(cfg) \/ r.by # "external" => r.keys = "set"
<1>1. r \in RestCalls(cfg)
  BY CallsAssumption
<1>2. PICK context \in RestContexts, x \in Resources :
        r = RestCall(context, cfg, x) /\ Extracted(context.keys, cfg, x)
  BY <1>1 DEF RestCalls
<1>3. /\ r.by = context.token /\ r.family = context.keys
      /\ r.endpoint = Endpoint(context.keys, cfg, x) /\ r.keys = Keys(context.keys, cfg, x)
  BY <1>2 DEF RestCall
<1>4. Keys(context.keys, cfg, x) # "error"
  BY <1>2 DEF Extracted
<1>5. /\ context.keys \in Families
      /\ context.token = IF context.keys = "tableflow" THEN "none" ELSE "external"
  BY RestContextFamilies
<1>6. r.endpoint = "empty" => /\ r.family = "schema_registry"
                              /\ SchemaRegistryEndpoints \cap cfg.attrs = {"catalog_rest_endpoint"}
  BY <1>3, <1>5, EndpointIsSet
<1>7. ~isOAuthEnabled(cfg) \/ r.by # "external" => r.keys = "set"
  BY <1>3, <1>4, <1>5, KeysAreSet
<1> QED BY <1>6, <1>7

\* The contexts of Cloud APIs.
LEMMA CloudContextTokens ==
  ASSUME NEW context \in CloudContexts
  PROVE  context.token = "sts" \/ context = camV1ApiContext
<1>1. CloudContexts = {CloudApiContext, camV1ApiContext}
  BY DEF CloudContexts, apiKeysV2ApiContext, byokV1ApiContext, connectCustomPluginV1ApiContext,
     ccpmV1ApiContext, cmkV2ApiContext, iamV2ApiContext, iamIpFilteringV2ApiContext,
     certificateAuthorityV2ApiContext, ssoV2ApiContext, providerIntegrationV1ApiContext,
     providerIntegrationV2ApiContext, iamV1ApiContext, mdsV2ApiContext, networkingV1ApiContext,
     flinkArtifactV1ApiContext, flinkV2ApiContext, networkingAccessPointV1ApiContext,
     networkingGatewayV1ApiContext, networkingIpV1ApiContext, networkingPrivatelinkV1ApiContext,
     networkingDnsforwarderV1ApiContext, endpointV1ApiContext, srcmV3ApiContext,
     connectV1ApiContext, orgV2ApiContext, ksqlV2ApiContext, identityProviderV2ApiContext,
     kafkaQuotasV1ApiContext, rtceV1ApiContext
<1>2. CloudApiContext.token = "sts"
  BY DEF CloudApiContext
<1> QED BY <1>1, <1>2

---------------------------------------------------------------------------
(* Steps.                                                                  *)

LEMMA WaitsKeeps ==
  ASSUME NEW c \in Call, NEW at \in {"askExternal", "askSTS", "use"}, NEW token,
         NEW f, f = Waits(c, at, token), NEW cfg, Credited(c, cfg)
  PROVE  Credited(f, cfg)
<1>1. f.at = at /\ f.endpoint = c.endpoint /\ f.bare = c.bare
  BY DEF Waits, Call
<1> QED BY <1>1 DEF Credited

LEMMA IdleIsCredited == \A cfg : Credited(Idle, cfg)
  BY DEF Credited, Idle

\* A step that moves one call.
LEMMA OneIsCredited ==
  ASSUME IInv, CredentialsInv, NEW p \in Actors, NEW f, call' = [call EXCEPT ![p] = f],
         p \in Handlers => Credited(f, config),
         config' = config, provider' = "ready" => Accepted(config)
  PROVE  CredentialsInv'
<1>1. call \in [Actors -> Call] /\ Handlers \subseteq Actors
  BY DEF IInv, TypeOK, Actors
<1>2. \A q \in Handlers : call'[q] = IF q = p THEN f ELSE call[q]
  BY <1>1
<1>3. \A q \in Handlers : Credited(call'[q], config)
  BY <1>2 DEF CredentialsInv
<1> QED BY <1>3 DEF CredentialsInv

LEMMA DeathIsCredited ==
  ASSUME NEW how \in {"refused", "crashed"}, Dies(how)
  PROVE  CredentialsInv'
<1>1. \A p \in Handlers : call'[p] = Idle
  BY DEF Dies, Actors
<1>2. provider' # "ready"
  BY DEF Dies
<1> QED BY <1>1, <1>2, IdleIsCredited DEF CredentialsInv

LEMMA ConfigurationIsCredited ==
  ASSUME IInv, CredentialsInv, ConfigureWithKeys \/ initializeOAuthConfigs \/ Restart
  PROVE  CredentialsInv'
<1>1. CASE ConfigureWithKeys \/ Restart
  BY <1>1 DEF ConfigureWithKeys, Restart, CredentialsInv
<1>2. CASE initializeOAuthConfigs
  <2>1. Setup \in Actors /\ Setup \notin Handlers
    BY TimesAssumption DEF Actors
  <2>2. \E f : call' = [call EXCEPT ![Setup] = f]
    BY <1>2 DEF initializeOAuthConfigs, Goes
  <2>3. config' = config /\ provider' # "ready"
    BY <1>2 DEF initializeOAuthConfigs
  <2> QED BY <2>1, <2>2, <2>3, OneIsCredited
<1> QED BY <1>1, <1>2

LEMMA FetchIsCredited ==
  ASSUME IInv, NEW c \in Call, Credited(c, config)
  PROVE  /\ Credited(fetchExternalOAuthToken(c), config)
         /\ Credited(fetchOrOverrideSTSOAuthTokenFromApiContext(c), config)
<1>1. now \in Nat /\ oauthToken \in Token /\ stsToken \in Token
  BY DEF IInv, TypeOK
<1>2. Credited(fetchExternalOAuthToken(c), config)
  BY WaitsKeeps DEF fetchExternalOAuthToken
<1>3. CASE validateCurrentToken(stsToken)
  <2>1. fetchOrOverrideSTSOAuthTokenFromApiContext(c) = Waits(c, "use", NoToken)
    BY <1>3 DEF fetchOrOverrideSTSOAuthTokenFromApiContext
  <2> QED BY <1>2, <2>1, WaitsKeeps
<1>4. CASE ~validateCurrentToken(stsToken)
  <2>1. PICK at \in {"askSTS", "askExternal"}, token \in Token :
          fetchOrOverrideSTSOAuthTokenFromApiContext(c)
            = [Waits(c, at, token) EXCEPT !.wanted = stsToken.granted]
    BY <1>1, <1>4, NoTokenType DEF fetchOrOverrideSTSOAuthTokenFromApiContext
  <2>2. PICK w : w = Waits(c, at, token)
    OBVIOUS
  <2>3. w \in Call /\ w.at = at
    BY <1>1, <2>2 DEF Waits, Call
  <2>4. Credited(w, config)
    BY <2>2, WaitsKeeps
  <2>5. PICK f : f = [w EXCEPT !.wanted = stsToken.granted]
    OBVIOUS
  <2>6. f.at = w.at /\ f.endpoint = w.endpoint /\ f.bare = w.bare
    BY <2>3, <2>5 DEF Call
  <2>7. Credited(f, config)
    BY <2>3, <2>4, <2>6 DEF Credited
  <2> QED BY <1>2, <2>1, <2>2, <2>5, <2>7
<1> QED BY <1>3, <1>4

\* A call that goes out with a key pair.
LEMMA KeysAreCredited ==
  ASSUME IInv, NEW c \in Call, NEW family \in Families \cup {"cloud"}, NEW keys,
         NEW f, f = WithKeys(c, family, keys),
         c.endpoint = "empty" =>
             /\ family = "schema_registry"
             /\ SchemaRegistryEndpoints \cap config.attrs = {"catalog_rest_endpoint"},
         keys # "set" => /\ family = "cloud" /\ CloudKeys(config) = "empty"
                         /\ isOAuthEnabled(config) => c.by = camV1ApiContext.token
  PROVE  Credited(f, config)
<1>1. PICK w : w = Waits(c, "send", NoToken)
  OBVIOUS
<1>2. w \in Call /\ w.endpoint = c.endpoint /\ w.by = c.by
  <2>1. now \in Nat
    BY DEF IInv, TypeOK
  <2> QED BY <1>1, <2>1, NoTokenType DEF Waits, Call
<1>3. PICK auth \in {"key", "none"} :
        f = [w EXCEPT !.auth = auth, !.bare = family] /\ (auth = "none" => keys # "set")
  BY <1>1 DEF WithKeys
<1>4. f.endpoint = c.endpoint /\ f.bare = family /\ f.auth = auth /\ f.by = c.by
  BY <1>2, <1>3 DEF Call
<1> QED BY <1>3, <1>4 DEF Credited

LEMMA StartIsCredited ==
  ASSUME IInv, CredentialsInv, NEW p \in Handlers, NEW f, Starts(p, f), Credited(f, config)
  PROVE  CredentialsInv'
<1>1. p \in Actors
  BY DEF Actors
<1>2. /\ call' = [call EXCEPT ![p] = f] /\ config' = config /\ provider' = provider
  BY DEF Starts
<1> QED BY <1>1, <1>2, OneIsCredited DEF CredentialsInv

LEMMA CallCloudIsCredited ==
  ASSUME IInv, CredentialsInv, NEW p \in Handlers, NEW context \in CloudContexts,
         CallCloud(p, context)
  PROVE  CredentialsInv'
<1>1. PICK c : c = [Idle EXCEPT !.by = context.token]
  OBVIOUS
<1>2. context.token \in {"sts", "none"} /\ (context.token # "sts" => context = camV1ApiContext)
  BY CloudContextTokens DEF camV1ApiContext, KeyOnlyContext
<1>3. /\ c \in Call /\ c.by = context.token /\ c.endpoint = "set" /\ c.at = "idle"
  BY <1>1, <1>2, IdleType, NoTokenType DEF Idle, Call
<1>4. Credited(c, config)
  BY <1>3 DEF Credited
<1>5. PICK f : f = IF context.token = "sts" /\ oauthToken # NoToken /\ stsToken # NoToken
                   THEN fetchOrOverrideSTSOAuthTokenFromApiContext(c)
                   ELSE WithKeys(c, "cloud", CloudKeys(config))
  OBVIOUS
<1>6. Starts(p, f)
  BY <1>1, <1>5 DEF CallCloud
<1>7. CASE context.token = "sts" /\ oauthToken # NoToken /\ stsToken # NoToken
  BY <1>3, <1>4, <1>5, <1>6, <1>7, FetchIsCredited, StartIsCredited
<1>8. CASE ~(context.token = "sts" /\ oauthToken # NoToken /\ stsToken # NoToken)
  <2>1. provider = "ready"
    BY <1>6 DEF Starts
  <2>2. isOAuthEnabled(config) => context.token # "sts"
    BY <1>8, <2>1 DEF IInv, TokensStay
  <2>3. CloudKeys(config) # "set" => /\ CloudKeys(config) = "empty"
                                     /\ isOAuthEnabled(config) => c.by = camV1ApiContext.token
    BY <1>2, <1>3, <2>2 DEF CloudKeys
  <2>4. f = WithKeys(c, "cloud", CloudKeys(config))
    BY <1>5, <1>8
  <2>5. PICK keys : keys = CloudKeys(config)
    OBVIOUS
  <2>6. Credited(f, config)
    BY <1>3, <2>3, <2>4, <2>5, KeysAreCredited
  <2> QED BY <1>6, <2>6, StartIsCredited
<1> QED BY <1>7, <1>8

LEMMA RestClientIsCredited ==
  ASSUME IInv, CredentialsInv, NEW p \in Handlers, NEW r \in RestCallsUnder[config],
         CreateRestClient(p, r)
  PROVE  CredentialsInv'
<1>1. config \in Configs /\ oauthToken \in Token
  BY DEF IInv, TypeOK
<1>2. /\ r.by \in {"external", "none"} /\ r.family \in Families /\ r.endpoint \in {"set", "empty"}
  BY <1>1, RestCallType
<1>3. /\ r.endpoint = "empty" =>
            /\ r.family = "schema_registry"
            /\ SchemaRegistryEndpoints \cap config.attrs = {"catalog_rest_endpoint"}
      /\ ~isOAuthEnabled(config) \/ r.by # "external" => r.keys = "set"
  BY <1>1, RestCallIsCredited
<1>4. PICK bare \in Families \cup {""}, own \in Token :
        /\ bare = IF r.endpoint = "empty" THEN r.family ELSE ""
        /\ own = IF r.by = "external" THEN oauthToken ELSE NoToken
  BY <1>1, <1>2, NoTokenType
<1>5. PICK c : c = [Idle EXCEPT !.by = r.by, !.endpoint = r.endpoint, !.bare = bare, !.own = own]
  OBVIOUS
<1>6. /\ c \in Call /\ c.by = r.by /\ c.endpoint = r.endpoint /\ c.bare = bare /\ c.own = own
      /\ c.at = "idle"
  BY <1>2, <1>4, <1>5, NoTokenType DEF Idle, Call
<1>7. Credited(c, config)
  BY <1>3, <1>4, <1>6 DEF Credited
<1>8. PICK f : f = IF c.own # NoToken THEN fetchExternalOAuthToken(c)
                   ELSE WithKeys(c, r.family, r.keys)
  OBVIOUS
<1>9. Starts(p, f)
  BY <1>4, <1>5, <1>8 DEF CreateRestClient
<1>10. CASE c.own # NoToken
  BY <1>6, <1>7, <1>8, <1>9, <1>10, FetchIsCredited, StartIsCredited
<1>11. CASE c.own = NoToken
  <2>1. provider = "ready"
    BY <1>9 DEF Starts
  <2>2. ~isOAuthEnabled(config) \/ r.by # "external"
    BY <1>4, <1>6, <1>11, <2>1 DEF IInv, TokensStay
  <2>3. r.keys = "set" /\ f = WithKeys(c, r.family, r.keys)
    BY <1>3, <1>8, <1>11, <2>2
  <2>4. Credited(f, config)
    BY <1>2, <1>3, <1>6, <2>3, KeysAreCredited
  <2> QED BY <1>9, <2>4, StartIsCredited
<1> QED BY <1>10, <1>11

LEMMA HandleIsCredited ==
  ASSUME IInv, CredentialsInv, NEW p \in Handlers, Handle(p)
  PROVE  CredentialsInv'
<1>1. p \in Actors /\ call[p] \in Call /\ call \in [Actors -> Call] /\ Credited(call[p], config)
  BY DEF IInv, TypeOK, Actors, CredentialsInv
<1>2. CASE CallRest(p)
  <2>1. Starts(p, fetchExternalOAuthToken(call[p]))
    BY <1>2 DEF CallRest
  <2> QED BY <1>1, <2>1, FetchIsCredited, StartIsCredited
<1>3. CASE ReadToken(p)
  <2>1. PICK c, token : c = call[p] /\ token = IF OfRestClient(p) THEN call[p].own ELSE stsToken
    OBVIOUS
  <2>2. PICK f : f = [c EXCEPT !.at = "send", !.auth = "token", !.token = token]
    OBVIOUS
  <2>3. f.auth = "token" /\ f.endpoint = c.endpoint /\ f.bare = c.bare
    BY <1>1, <2>1, <2>2 DEF Call
  <2>4. call' = [call EXCEPT ![p] = f] /\ config' = config /\ provider' = provider
    BY <1>3, <2>1, <2>2 DEF ReadToken, Goes
  <2>5. Credited(f, config)
    BY <1>1, <2>1, <2>3 DEF Credited
  <2> QED BY <1>1, <2>4, <2>5, OneIsCredited DEF CredentialsInv
<1>4. CASE Send(p)
  <2>1. PICK c : c = call[p]
    OBVIOUS
  <2>2. PICK f : f = IF c.own = NoToken THEN Idle
                     ELSE [Idle EXCEPT !.own = c.own, !.by = c.by, !.endpoint = c.endpoint,
                                       !.bare = c.bare]
    OBVIOUS
  <2>3. f = Idle \/ (f.at = "idle" /\ f.endpoint = c.endpoint /\ f.bare = c.bare)
    BY <2>2 DEF Idle
  <2>4. call' = [call EXCEPT ![p] = f] /\ config' = config /\ provider' = provider
    BY <1>4, <2>1, <2>2 DEF Send, Goes
  <2>5. Credited(f, config)
    BY <1>1, <2>1, <2>3, IdleIsCredited DEF Credited
  <2> QED BY <1>1, <2>4, <2>5, OneIsCredited DEF CredentialsInv
<1> QED BY <1>2, <1>3, <1>4, CallCloudIsCredited, RestClientIsCredited DEF Handle, IInv, TypeOK

LEMMA AnswerIsCredited ==
  ASSUME IInv, CredentialsInv, NEW p \in Actors, Answered(p)
  PROVE  CredentialsInv'
<1>1. call[p] \in Call /\ (p \in Handlers => Credited(call[p], config))
  BY DEF IInv, TypeOK, CredentialsInv
<1>2. PICK w : w = Waits(call[p], "use", NoToken)
  OBVIOUS
<1>3. p \in Handlers => Credited(w, config)
  BY <1>1, <1>2, WaitsKeeps
<1>4. w \in Call /\ w.at = "use"
  <2>1. now \in Nat
    BY DEF IInv, TypeOK
  <2> QED BY <1>1, <1>2, <2>1, NoTokenType DEF Waits, Call
<1>5. CASE Dies("refused") \/ Dies("crashed")
  BY <1>5, DeathIsCredited
<1>6. ASSUME NEW t, NEW life, NEW told, requestNewExternalOAuthToken(p, t, life, told)
      PROVE  CredentialsInv'
  <2>1. PICK token : token = NewExternal(t, life, told)
    OBVIOUS
  <2>2. config' = config /\ provider' = provider
    BY <1>6 DEF requestNewExternalOAuthToken
  <2>3. PICK f, g : f = [w EXCEPT !.own = token] /\ g = Waits(call[p], "askSTS", token)
    OBVIOUS
  <2>4. call' = [call EXCEPT ![p] = f] \/ call' = [call EXCEPT ![p] = g]
    BY <1>2, <1>6, <2>1, <2>3 DEF requestNewExternalOAuthToken, Goes
  <2>5. f.at = w.at /\ f.endpoint = w.endpoint /\ f.bare = w.bare
    BY <1>4, <2>3 DEF Call
  <2>6. p \in Handlers => Credited(f, config)
    BY <1>3, <1>4, <2>5 DEF Credited
  <2>7. p \in Handlers => Credited(g, config)
    BY <1>1, <2>3, WaitsKeeps
  <2> QED BY <2>2, <2>4, <2>6, <2>7, OneIsCredited DEF CredentialsInv
<1>7. ASSUME NEW t, NEW life, requestNewSTSOAuthToken(p, t, life) PROVE CredentialsInv'
  <2>1. CASE p = Setup /\ ~Accepted(config)
    BY <1>5, <1>7, <2>1 DEF requestNewSTSOAuthToken
  <2>2. CASE ~(p = Setup /\ ~Accepted(config))
    <3>1. PICK f : f = IF p = Setup THEN Idle ELSE w
      OBVIOUS
    <3>2. call' = [call EXCEPT ![p] = f] /\ config' = config
      BY <1>2, <1>7, <2>2, <3>1 DEF requestNewSTSOAuthToken, Goes
    <3>3. p \in Handlers => Credited(f, config)
      BY <1>3, <3>1, IdleIsCredited
    <3>4. p # Setup => provider = "ready"
      BY <1>7 DEF requestNewSTSOAuthToken, IInv, SoundNow, Sound
    <3>5. Accepted(config)
      BY <2>2, <3>4 DEF CredentialsInv
    <3> QED BY <3>2, <3>3, <3>5, OneIsCredited
  <2> QED BY <2>1, <2>2
<1>8. CASE FetchFails(p) \/ ExpiresInIsNoNumber(p)
  <2>1. CASE /\ Goes(p, [w EXCEPT !.failed = TRUE])
             /\ UNCHANGED <<now, provider, config, oauthToken, stsToken>>
    <3>1. PICK f : f = [w EXCEPT !.failed = TRUE]
      OBVIOUS
    <3>2. f.at = w.at /\ f.endpoint = w.endpoint /\ f.bare = w.bare
      BY <1>4, <3>1 DEF Call
    <3>3. p \in Handlers => Credited(f, config)
      BY <1>3, <1>4, <3>2 DEF Credited
    <3>4. call' = [call EXCEPT ![p] = f] /\ config' = config /\ provider' = provider
      BY <2>1, <3>1 DEF Goes
    <3> QED BY <3>3, <3>4, OneIsCredited DEF CredentialsInv
  <2> QED BY <1>2, <1>5, <1>8, <2>1 DEF FetchFails, ExpiresInIsNoNumber
<1> QED BY <1>6, <1>7, <1>8 DEF Answered

LEMMA NextIsCredited == IInv /\ CredentialsInv /\ [Next]_vars => CredentialsInv'
<1> SUFFICES ASSUME IInv, CredentialsInv, [Next]_vars PROVE CredentialsInv'
  OBVIOUS
<1>1. CASE UNCHANGED vars \/ Tick
  BY <1>1 DEF vars, Tick, CredentialsInv
<1> QED BY <1>1, ConfigurationIsCredited, AnswerIsCredited, HandleIsCredited DEF Next

---------------------------------------------------------------------------
(* Theorems.                                                               *)

\* The inductive invariant: a provider that is ready has an accepted block, and what a
\* call lacks was settled when its REST client was made or its keys were looked up.
THEOREM CallsAreCredited == Spec => []CredentialsInv
<1>1. Init => CredentialsInv
  <2> SUFFICES ASSUME Init PROVE CredentialsInv
    OBVIOUS
  <2>1. \A p \in Handlers : call[p] = Idle
    BY DEF Init, Actors
  <2> QED BY <2>1, IdleIsCredited DEF Init, CredentialsInv
<1> QED BY <1>1, NextIsCredited, TokensAreSound, PTL DEF Spec

\* For every provider block that providerConfigure accepts, a call goes out without
\* credentials only to a Cloud API, from a block without the Cloud key pair, and under
\* OAuth only through the one context that uses no token.
THEOREM CallsCarryCredentials == Spec => []CarriesCredentials
<1>1. CredentialsInv => CarriesCredentials
  BY DEF CredentialsInv, Credited, CarriesCredentials
<1> QED BY <1>1, CallsAreCredited, PTL

\* For every provider block, a REST call has no endpoint only in the Schema Registry
\* client of a block whose one endpoint is that of the catalog.
THEOREM CallsHaveAnEndpoint == Spec => []EndpointIsKnown
<1>1. CredentialsInv => EndpointIsKnown
  BY DEF CredentialsInv, Credited, EndpointIsKnown
<1> QED BY <1>1, CallsAreCredited, PTL
=============================================================================
