------------------------------ MODULE Gateway ------------------------------
(***************************************************************************)
(* A request on its way through the API server of zot: authentication      *)
(* (pkg/api/authn.go, bearer_auth.go, bearer.go, bearer_oidc.go, ldap.go), *)
(* the sessions of the web UI (cookiestore.go, session.go), the token      *)
(* exchange (token_exchange.go), the two authorization middlewares         *)
(* (authz.go) and the parts of the handlers of routes.go that decide on    *)
(* access again.  The configuration is reloaded while requests are on      *)
(* their way: each middleware reads it anew, whereas the middlewares       *)
(* themselves, the LDAP client, the cookie store and the bearer            *)
(* authorizers were built at start-up (boot).                              *)
(***************************************************************************)
EXTENDS AccessPolicy

CONSTANTS
  Slots,        \* requests that are in flight at the same time
  Mixes,        \* scenarios [requests, configs]: the requests clients may send
                \* and the configurations [methods, ac] an operator may load
  Users, Tags, Digest, BadTag, Holders,
  HtUsers,      \* users of the htpasswd file
  LdapUsers, LdapGroups, OidcGroups, TokenScope,
  Keys, KeyOwner, Sids, States, None,
  MaxFaults, MaxRequests

VARIABLES
  cfg,       \* the live configuration
  boot,      \* what SetupRoutes and AuthHandler fixed at start-up
  compiled,  \* compiled conditions of the live access control
  credsOn,   \* the htpasswd file is loaded
  reload,    \* where LoadNewConfig stands
  profile,   \* MetaDB: user -> groups, None without a record
  keys,      \* MetaDB: API key -> its user, None once revoked or expired
  sessions,  \* session files: sid -> user
  jar,       \* the session cookie the browser holds
  oauth,     \* the state cookie of the browser's last OpenID login
  expiring,  \* sids a CleanTask found too old
  tags,      \* repository -> its tags
  holders,   \* repositories that hold the blob to be mounted
  q,         \* slot -> the request in it
  mix,       \* the scenario of this behaviour
  faults, sent

vars == <<cfg, boot, compiled, credsOn, reload, profile, keys, sessions, jar,
          oauth, expiring, tags, holders, q, mix, faults, sent>>
store == <<profile, keys, sessions, jar, oauth, expiring, tags, holders>>
conf == <<cfg, boot, compiled, credsOn, reload, mix>>

BasicMethods == {"htpasswd", "ldap", "apikey"}
Reloadable == {"htpasswd", "ldap", "apikey", "openid", "mtls"}

(***************************************************************************)
(* A request: the credential in the Authorization header (kind, the user   *)
(* it names, whether the secret is right, the API key), whether it comes   *)
(* from the UI (session), the user of a verified client certificate, and   *)
(* what it asks for.                                                       *)
(***************************************************************************)
Kinds == {"none", "multi", "basic", "empty", "key", "wrapped", "oidc", "token", "other"}
DistRoutes == {"read", "write", "delete", "mount"}
Routes == DistRoutes \cup {"catalog", "base", "metrics", "token", "callback"}
Request(kind, user, good, session, cert, route, repo, ref, query) ==
  [kind |-> kind, user |-> user, good |-> good, session |-> session,
   cert |-> cert, route |-> route, repo |-> repo, ref |-> ref, query |-> query]

\* What a client may send: a key with the credentials of a key, a list of credentials to the
\* token exchange.
Credentials == {"wrapped", "keyRight", "keyWrong", "oidcRight", "oidcWrong", "openid", "foreign"}
IsRequest(r) ==
  /\ r.user \in Users /\ r.cert \in Users \cup {None} /\ r.repo \in Repos
  /\ r.kind \in Kinds /\ r.route \in Routes
  /\ r.kind \in {"key", "wrapped"} => r.good \in Keys
  /\ r.route = "token" => r.query \subseteq Credentials

ASSUME GatewayAssumption ==
  /\ None \notin Users \cup Sids \cup States \cup {"Basic", "BearerOIDC", "Bearer"}
  /\ Anonymous \notin Users
  /\ HtUsers \cup LdapUsers \subseteq Users
  /\ KeyOwner \in [Keys -> Users \cup {None}] /\ Holders \subseteq Repos
  /\ IsFiniteSet(Patterns) /\ PatternLen \in [Patterns -> Nat]
  /\ \A m \in Mixes : /\ \A r \in m.requests : IsRequest(r)
                     /\ \A c \in m.configs : DOMAIN c.ac.repos \subseteq Patterns

Fresh == [pc |-> "idle", req |-> None, user |-> Anonymous, groups |-> {},
          kind |-> None, sid |-> None, uac |-> None, checks |-> {}, result |-> {},
          saw |-> {}]

Snapshot == [ac |-> cfg.ac, compiled |-> compiled]

Enabled(m) == m \in cfg.methods
CanAuthenticateWithBasicCredentials == cfg.methods \cap BasicMethods # {}
IsBasicAuthnEnabled == cfg.methods \cap (BasicMethods \cup {"openid"}) # {}
IsBearerAuthEnabled == cfg.methods \cap {"bearer", "oidc"} # {}
AdvertisesBearer == Enabled("challenge") /\ (IsBearerAuthEnabled \/ Enabled("apikey"))

\* What start-up builds from a configuration.  ShouldInitializeBearerAuth asks
\* for a bearer method, or for API keys that a complete challenge announces.
Built(c) ==
  [authz |-> c.ac.on,
   ldap |-> "ldap" \in c.methods,
   cookies |-> c.methods \cap (BasicMethods \cup {"openid"}) # {},
   bearer |-> \/ c.methods \cap {"bearer", "oidc"} # {}
              \/ {"apikey", "challenge"} \subseteq c.methods,
   methods |-> c.methods]

Init ==
  /\ mix \in Mixes
  /\ cfg \in mix.configs
  /\ boot = Built(cfg)
  /\ compiled = CompileAccessControl(cfg.ac)
  /\ credsOn = ("htpasswd" \in cfg.methods)
  /\ reload = "no"
  /\ profile = [u \in Users |-> None]
  /\ keys = KeyOwner
  /\ sessions = [s \in Sids |-> None]
  /\ jar = None /\ oauth = None
  /\ expiring = {}
  /\ tags = [r \in Repos |-> {}]
  /\ holders = Holders
  /\ q = [s \in Slots |-> Fresh]
  /\ faults = 0 /\ sent = 0

(***************************************************************************)
(* LoadNewConfig: the configuration is replaced under its lock; then the   *)
(* new conditions are compiled, then the htpasswd file is changed.  Until  *)
(* then requests meet the new policies with the conditions and the         *)
(* passwords of the old configuration.  Bearer settings, and a whole auth  *)
(* section that was not there before, are not taken over.                  *)
(***************************************************************************)
Reloaded(c) ==
  [methods |-> IF cfg.methods = {} \/ c.methods = {} THEN cfg.methods
               ELSE (cfg.methods \ Reloadable) \cup (c.methods \cap Reloadable),
   ac |-> c.ac]

\* Every request in flight notes the access control it lives through.
See(f) == [s \in Slots |-> IF q[s].pc \in {"idle", "done"} THEN q[s]
                           ELSE [q[s] EXCEPT !.saw = @ \cup {f}]]

UpdateReloadableConfig(c) ==
  /\ reload = "no"
  /\ Reloaded(c) # cfg
  /\ cfg' = Reloaded(c)
  /\ LET kept == IF c.ac.on /\ cfg.ac.on THEN compiled ELSE {}
     IN  compiled' = kept /\ q' = See([ac |-> c.ac, compiled |-> kept])
  /\ reload' = "compile"
  /\ UNCHANGED <<boot, credsOn, mix, store, faults, sent>>

StoreCompiledConditions ==
  /\ reload = "compile"
  /\ compiled' = CompileAccessControl(cfg.ac)
  /\ reload' = "htpasswd"
  /\ q' = See([ac |-> cfg.ac, compiled |-> CompileAccessControl(cfg.ac)])
  /\ UNCHANGED <<cfg, boot, credsOn, mix, store, faults, sent>>

ChangeHTPasswd ==
  /\ reload = "htpasswd"
  /\ credsOn' = Enabled("htpasswd")
  /\ reload' = "end"
  /\ UNCHANGED <<cfg, boot, compiled, mix, store, q, faults, sent>>

(***************************************************************************)
(* Authentication.  Each method answers with the set of outcomes it may    *)
(* have: Pass(user, groups, ...), Fail, or Error (a 500).                  *)
(***************************************************************************)
Pass(user, groups, type, stored) ==
  [ok |-> TRUE, err |-> FALSE, user |-> user, groups |-> groups, type |-> type,
   stored |-> stored]
Fail == [ok |-> FALSE, err |-> FALSE, user |-> Anonymous, groups |-> {}, type |-> None,
         stored |-> FALSE]
Error == [Fail EXCEPT !.err = TRUE]

\* authenticateAPIKeyCredential (MetaClients has its single database calls):
\* the key must be the named user's, and the groups are those of that user's
\* last login.
authenticateAPIKeyCredential(r) ==
  IF keys[r.good] # r.user THEN {Fail}
  ELSE IF profile[r.user] = None THEN {Error}
  ELSE {Pass(r.user, profile[r.user], "Basic", FALSE)}

\* LDAPClient.Authenticate: the server may be out of reach for all retries.
LDAPAuthenticate(r) == r.user \in LdapUsers /\ r.good = "right"

basicAuthn(r) ==
  IF credsOn /\ r.user \in HtUsers /\ r.good = "right"
  THEN {Pass(r.user, getUserGroups(cfg.ac, r.user), "Basic", TRUE)}
  ELSE LET key == IF ~Enabled("apikey") \/ r.kind # "key" THEN {Fail}
                  ELSE authenticateAPIKeyCredential(r)
       IN  IF Enabled("ldap") /\ boot.ldap /\ LDAPAuthenticate(r)
           THEN key \cup {Pass(r.user, getUserGroups(cfg.ac, r.user) \cup LdapGroups[r.user],
                               "Basic", TRUE)}
           ELSE key

\* A session whose user has no profile does not count, but its user name has
\* been noted in the request.
sessionAuthn ==
  LET user == IF jar = None THEN None ELSE sessions[jar]
  IN  IF user = None THEN {Fail}
      ELSE IF profile[user] = None THEN {[Fail EXCEPT !.user = user]}
      ELSE {Pass(user, profile[user], "Basic", FALSE)}

mTLSAuthn(r) == {Pass(r.cert, getUserGroups(cfg.ac, r.cert), "Basic", TRUE)}

\* requestedBearerResourceAction and BearerAuthorizer.Authenticate.
BearerAction(route) ==
  CASE route \in {"read", "catalog", "base"} -> "pull"
    [] route \in {"write", "mount"} -> "push"
    [] OTHER -> "delete"
InScope(r) == r.route = "base" \/ <<r.repo, BearerAction(r.route)>> \in TokenScope[r.user]

BearerAuthenticate(r) ==
  CASE r.kind = "wrapped" -> IF Enabled("apikey") THEN authenticateAPIKeyCredential(r) ELSE {Fail}
    [] r.kind = "oidc" /\ "oidc" \in boot.methods ->
         IF r.good = "right" THEN {Pass(r.user, OidcGroups[r.user], "BearerOIDC", TRUE)} ELSE {Fail}
    [] r.kind = "token" /\ "bearer" \in boot.methods ->
         IF r.good = "right" /\ InScope(r) THEN {Pass(r.user, {}, "Bearer", FALSE)} ELSE {Fail}
    [] OTHER -> {Fail}

IsMixedBase(r) == r.route = "base" /\ HasMixedAnonymousAndAuthenticatedPolicies(cfg.ac)
AllowsUnauthenticated(r) ==
  \/ AnonymousPolicyExists(cfg.ac)
  \/ r.route = "metrics" /\ "read" \in cfg.ac.metrics.anonymous
Unauthenticated(ok) == IF ok THEN Pass(Anonymous, {}, None, FALSE) ELSE Fail
OrAnonymous(r, os) ==
  {IF ~o.ok /\ ~o.err /\ AllowsUnauthenticated(r) THEN [o EXCEPT !.ok = TRUE] ELSE o : o \in os}

(***************************************************************************)
(* tryAuthnHandlers picks one method by what the client sent; the order of *)
(* the cases is the order of the switch.                                   *)
(***************************************************************************)
tryAuthnHandlers(r) ==
  IF r.kind = "multi" THEN {Fail}
  ELSE IF r.kind \in {"wrapped", "oidc", "token"} /\ boot.bearer THEN BearerAuthenticate(r)
  ELSE IF r.kind \in {"basic", "empty", "key"} /\ CanAuthenticateWithBasicCredentials
    THEN IF r.kind = "empty" THEN OrAnonymous(r, {Fail}) ELSE basicAuthn(r)
  ELSE IF r.session /\ boot.cookies THEN OrAnonymous(r, sessionAuthn)
  ELSE IF r.cert # None /\ Enabled("mtls") THEN mTLSAuthn(r)
  ELSE IF r.kind = "none" /\ boot.bearer /\ AdvertisesBearer
          /\ (~AllowsUnauthenticated(r) \/ IsMixedBase(r)) THEN {Fail}
  ELSE IF ~IsBearerAuthEnabled /\ ~IsBasicAuthnEnabled /\ ~Enabled("mtls")
    THEN {Unauthenticated(TRUE)}
  ELSE IF r.kind # "none" THEN {Fail}
  ELSE IF IsMixedBase(r) /\ CanAuthenticateWithBasicCredentials
    THEN {Unauthenticated(AllowsUnauthenticated(r)), Fail}
  ELSE {Unauthenticated(AllowsUnauthenticated(r))}

End(s, result) == [q[s] EXCEPT !.pc = "done", !.result = result]
Begin(r, pc) == [Fresh EXCEPT !.pc = pc, !.req = r, !.saw = {Snapshot}]
SessionOfCookie(new) == IF jar # None /\ sessions[jar] # None THEN jar ELSE new

\* A request arrives and is authenticated.  A login from the UI works on the
\* session of its cookie, or on a new one.
Authn(s, r) ==
  /\ q[s].pc \in {"idle", "done"} /\ sent < MaxRequests /\ sent' = sent + 1
  /\ r.route \notin {"token", "callback"}
  /\ \E o \in tryAuthnHandlers(r), new \in Sids :
       /\ sessions[new] = None
       /\ q' = [q EXCEPT ![s] =
            IF ~o.ok THEN [Fresh EXCEPT !.pc = "done", !.req = r]
            ELSE [Begin(r, IF ~o.stored THEN "base" ELSE IF r.session THEN "session" ELSE "groups")
                    EXCEPT !.user = o.user, !.groups = o.groups, !.kind = o.type,
                           !.sid = IF o.stored /\ r.session THEN SessionOfCookie(new) ELSE None]]
  /\ UNCHANGED <<conf, store, faults>>

\* saveUserLoggedSession.  A cookie store is only built at start-up: without
\* one a login from the UI ends here.
saveUserLoggedSession(s) ==
  /\ q[s].pc = "session"
  /\ \/ /\ boot.cookies
        /\ sessions' = [sessions EXCEPT ![q[s].sid] = q[s].user]
        /\ jar' = q[s].sid
        /\ q' = [q EXCEPT ![s].pc = "groups"]
        /\ UNCHANGED faults
     \/ /\ ~boot.cookies \/ faults < MaxFaults
        /\ faults' = IF boot.cookies THEN faults + 1 ELSE faults
        /\ q' = [q EXCEPT ![s] = End(s, {})]
        /\ UNCHANGED <<sessions, jar>>
  /\ UNCHANGED <<conf, profile, keys, oauth, expiring, tags, holders, sent>>

\* MetaDB.SetUserGroups: the groups of this login replace those of any other.
SetUserGroups(s) ==
  /\ q[s].pc = "groups"
  /\ \/ /\ profile' = [profile EXCEPT ![q[s].user] = q[s].groups]
        /\ q' = [q EXCEPT ![s].pc = IF q[s].req.route = "callback" THEN "done" ELSE "base"]
        /\ UNCHANGED faults
     \/ /\ faults < MaxFaults
        /\ faults' = faults + 1
        /\ q' = [q EXCEPT ![s] = End(s, {})]
        /\ UNCHANGED profile
  /\ UNCHANGED <<conf, keys, sessions, jar, oauth, expiring, tags, holders, sent>>

(***************************************************************************)
(* BaseAuthzHandler notes the patterns and the access control in force now *)
(* for the handlers; DistSpecAuthzHandler reads the configuration again    *)
(* and decides on the request itself.  Both are installed only if there    *)
(* was an access control at start-up, and both let a bearer token through, *)
(* whose scope was checked when it was authenticated.                      *)
(***************************************************************************)
BaseAuthzHandler(s) ==
  /\ q[s].pc = "base"
  /\ LET r == q[s].req
         bypass == ~boot.authz \/ q[s].kind = "Bearer" \/ r.route \in {"base", "metrics"}
     IN  q' = [q EXCEPT ![s].uac = IF bypass THEN None ELSE Snapshot,
                        ![s].pc = IF r.route \in DistRoutes THEN "dist" ELSE "serve"]
  /\ UNCHANGED <<conf, store, faults, sent>>

Need(route) == CASE route = "read" -> "read" [] route = "delete" -> "delete" [] OTHER -> "create"

\* The checks the request has to pass; those of a manifest write depend on the
\* tags the repository has now.
Checks(r) ==
  IF r.route = "write"
  THEN manifestWriteAuthzChecks(tags[r.repo], r.ref, r.ref \in Tags, r.query, Tags)
  ELSE {<<Need(r.route), r.ref>>}

DistSpecAuthzHandler(s) ==
  /\ q[s].pc = "dist"
  /\ LET r == q[s].req
         answer(c) == can(cfg.ac, compiled, q[s].user, q[s].groups, c[1], r.repo, c[2])
     IN  \/ /\ ~boot.authz \/ q[s].kind = "Bearer" \/ \A c \in Checks(r) : TRUE \in answer(c)
            /\ q' = [q EXCEPT ![s].pc = "serve", ![s].checks = Checks(r)]
         \/ /\ boot.authz /\ q[s].kind # "Bearer"
            /\ \E c \in Checks(r) : FALSE \in answer(c)
            /\ q' = [q EXCEPT ![s] = End(s, {})]
  /\ UNCHANGED <<conf, store, faults, sent>>

(***************************************************************************)
(* The handlers.  The catalog lists what the patterns noted by the         *)
(* middleware admit.  A manifest is written under the tag of the path, or  *)
(* under every ?tag= of a digest path, unless one of them is invalid.  A   *)
(* mount needs create on the destination and read on a repository that     *)
(* holds the blob, judged by the access control the middleware noted.      *)
(***************************************************************************)
Filter(s) ==
  LET u == q[s].uac
  IN  IF u = None THEN {Repos}
      ELSE {L \in SUBSET Repos :
              \A r \in Repos : (r \in L) \in Can(u.ac, q[s].user, q[s].groups, "read", r)}

canMount(s, repo) ==
  LET u == q[s].uac
      ok(action, at) == TRUE \in can(u.ac, u.compiled, q[s].user, q[s].groups, action, at, Digest)
  IN  ok("create", repo) /\ \E h \in holders : ok("read", h)

\* Without the middlewares a caller counts as admin; a live configuration
\* without access control still asks when the noted one has policies.
userMayMountBlob(s, repo) ==
  IF q[s].kind = "Bearer"
  THEN \E h \in holders : <<h, "pull">> \in TokenScope[q[s].req.user]
  ELSE \/ q[s].uac = None
       \/ ~cfg.ac.on /\ DOMAIN q[s].uac.ac.repos = {}
       \/ canMount(s, repo)

\* normalizeManifestExtraTags refuses an invalid ?tag=; the tag path takes none.
NewTags(r) == IF r.ref \in Tags THEN {r.ref} ELSE r.query
WriteOK(r) == IF r.ref \in Tags THEN r.query = {} ELSE r.query \subseteq Tags

Serve(s) ==
  /\ q[s].pc = "serve"
  /\ LET r == q[s].req
     IN  \/ /\ r.route = "catalog"
            /\ \E L \in Filter(s) : q' = [q EXCEPT ![s] = End(s, L)]
            /\ UNCHANGED <<tags, holders>>
         \/ /\ r.route = "write" /\ WriteOK(r)
            /\ tags' = [tags EXCEPT ![r.repo] = @ \cup NewTags(r)]
            /\ q' = [q EXCEPT ![s] = End(s, NewTags(r) \cup {r.ref})]
            /\ UNCHANGED holders
         \/ /\ r.route = "write" /\ ~WriteOK(r)
            /\ q' = [q EXCEPT ![s] = End(s, {})]
            /\ UNCHANGED <<tags, holders>>
         \/ /\ r.route = "delete"
            /\ tags' = [tags EXCEPT ![r.repo] = @ \ {r.ref}]
            /\ q' = [q EXCEPT ![s] = End(s, {r.ref})]
            /\ UNCHANGED holders
         \/ /\ r.route = "mount"
            /\ LET may == userMayMountBlob(s, r.repo)
               IN  /\ holders' = IF may THEN holders \cup {r.repo} ELSE holders
                   /\ q' = [q EXCEPT ![s] = End(s, IF may THEN {r.ref} ELSE {})]
            /\ UNCHANGED tags
         \/ /\ r.route \in {"read", "base", "metrics"}
            /\ r.route = "metrics" => MetricsAllowed(cfg.ac, q[s].user)
            /\ q' = [q EXCEPT ![s] = End(s, {r.ref})]
            /\ UNCHANGED <<tags, holders>>
         \/ /\ r.route = "metrics" /\ ~MetricsAllowed(cfg.ac, q[s].user)
            /\ q' = [q EXCEPT ![s] = End(s, {})]
            /\ UNCHANGED <<tags, holders>>
  /\ UNCHANGED <<conf, profile, keys, sessions, jar, oauth, expiring, faults, sent>>

(***************************************************************************)
(* TokenExchangeHandler: the first credential that authenticates here      *)
(* yields a token.  A credential that belongs here (a wrapped one, an API  *)
(* key, a token of a configured issuer) but does not authenticate must not *)
(* leave for the upstream token server.                                    *)
(***************************************************************************)
localOwner(c) ==
  \/ c \in {"wrapped", "keyRight", "keyWrong"}
  \/ c \in {"oidcRight", "oidcWrong"} /\ Enabled("oidc")
  \/ c = "openid" /\ Enabled("openid")

\* keyRight is a live key of a user who has a profile.
Exchanges(c) ==
  \/ c = "keyRight" /\ Enabled("apikey")
  \/ c = "oidcRight" /\ Enabled("oidc") /\ "oidc" \in boot.methods

TokenResult(creds) ==
  IF \E c \in creds : Exchanges(c) THEN "token"
  ELSE IF \E c \in creds : localOwner(c) THEN "unauthorized"
  ELSE IF Enabled("upstream") THEN "proxied" ELSE "unauthorized"

TokenExchangeHandler(s, r) ==
  /\ q[s].pc \in {"idle", "done"} /\ sent < MaxRequests /\ sent' = sent + 1
  /\ r.route = "token"
  /\ LET served == boot.bearer /\ boot.methods \cap {"oidc", "apikey"} # {}
     IN  q' = [q EXCEPT ![s] = [Begin(r, "done") EXCEPT !.result =
                                  IF served THEN {TokenResult(r.query)} ELSE {}]]
  /\ UNCHANGED <<conf, store, faults>>

\* AuthURLHandler begins an OpenID login: the state of an earlier one is lost.
AuthURLHandler(state) ==
  /\ boot.cookies /\ "openid" \in boot.methods
  /\ oauth # state
  /\ oauth' = state
  /\ UNCHANGED <<conf, profile, keys, sessions, jar, expiring, tags, holders, q, faults, sent>>

\* The provider sends the browser back with a state and the user it knows.
OAuth2Callback(s, r) ==
  /\ q[s].pc \in {"idle", "done"} /\ sent < MaxRequests /\ sent' = sent + 1
  /\ r.route = "callback"
  /\ \E new \in Sids :
       /\ sessions[new] = None
       /\ q' = [q EXCEPT ![s] =
            IF ~(boot.cookies /\ "openid" \in boot.methods /\ oauth = r.ref) THEN [Fresh EXCEPT !.pc = "done", !.req = r]
            ELSE [Begin(r, "session") EXCEPT !.user = r.user, !.groups = OidcGroups[r.user],
                    !.kind = "OpenID", !.sid = SessionOfCookie(new)]]
  /\ UNCHANGED <<conf, store, faults>>

\* Logout removes the session of the cookie and the cookie; a reply that is
\* lost leaves the cookie in the browser.
Logout(lost) ==
  /\ boot.cookies /\ jar # None
  /\ sessions' = [sessions EXCEPT ![jar] = None]
  /\ jar' = IF lost THEN jar ELSE None
  /\ UNCHANGED <<conf, profile, keys, oauth, expiring, tags, holders, q, faults, sent>>

\* RevokeAPIKey, or the expiry of the key.
RevokeAPIKey(k) ==
  /\ keys[k] # None
  /\ keys' = [keys EXCEPT ![k] = None]
  /\ UNCHANGED <<conf, profile, sessions, jar, oauth, expiring, tags, holders, q, faults, sent>>

\* The session cleaner lists session files past their age and removes them
\* later, whatever happened to them in between.
getExpiredSessions ==
  /\ \E S \in SUBSET {x \in Sids : sessions[x] # None} : S # {} /\ expiring = {} /\ expiring' = S
  /\ UNCHANGED <<conf, profile, keys, sessions, jar, oauth, tags, holders, q, faults, sent>>

CleanTask ==
  /\ \E x \in expiring : /\ expiring' = expiring \ {x}
                         /\ sessions' = [sessions EXCEPT ![x] = None]
  /\ UNCHANGED <<conf, profile, keys, jar, oauth, tags, holders, q, faults, sent>>

Next ==
  \/ \E c \in mix.configs : UpdateReloadableConfig(c)
  \/ StoreCompiledConditions \/ ChangeHTPasswd
  \/ \E s \in Slots :
       \/ \E r \in mix.requests : Authn(s, r) \/ TokenExchangeHandler(s, r) \/ OAuth2Callback(s, r)
       \/ saveUserLoggedSession(s) \/ SetUserGroups(s)
       \/ BaseAuthzHandler(s) \/ DistSpecAuthzHandler(s) \/ Serve(s)
  \/ \E r \in mix.requests : r.route = "callback" /\ r.ref \in States /\ AuthURLHandler(r.ref)
  \/ \E lost \in BOOLEAN : Logout(lost)
  \/ \E r \in mix.requests : r.good \in Keys /\ RevokeAPIKey(r.good)
  \/ getExpiredSessions \/ CleanTask

Spec == Init /\ [][Next]_vars

-----------------------------------------------------------------------------
Configs == UNION {m.configs : m \in Mixes}

\* Every variable holds a value of the kind the code gives it.
TypeOK ==
  /\ cfg.methods \in SUBSET UNION {c.methods : c \in Configs}
  /\ credsOn \in BOOLEAN /\ reload \in {"no", "compile", "htpasswd", "end"}
  /\ profile \in [Users -> {None} \cup SUBSET UNION {LdapGroups[u] \cup OidcGroups[u]
                     \cup UNION {getUserGroups(c.ac, u) : c \in Configs} : u \in Users}]
  /\ keys \in [Keys -> Users \cup {None}]
  /\ sessions \in [Sids -> Users \cup {None}]
  /\ jar \in Sids \cup {None} /\ oauth \in States \cup {None}
  /\ expiring \subseteq Sids
  /\ tags \in [Repos -> SUBSET Tags] /\ holders \subseteq Repos
  /\ \A s \in Slots :
       q[s].pc \in {"idle", "session", "groups", "base", "dist", "serve", "done"}

\* The groups some login of user u could have given: those of one of the
\* configurations together with those of the directory or the provider.
GroupsOf(u) ==
  {OidcGroups[u]} \cup UNION {{getUserGroups(c.ac, u), getUserGroups(c.ac, u) \cup LdapGroups[u]} :
                                c \in Configs}

(***************************************************************************)
(* Whatever is reloaded while it is on its way, a request that reached a   *)
(* dist-spec handler was entitled, under one access control in force since *)
(* it arrived, to every single thing it did: the policy of a longest       *)
(* pattern, or the admin policy, grants each of its checks.                *)
(***************************************************************************)
ServedEntitled ==
  \A s \in Slots :
    LET r == q[s]
    IN  r.pc = "done" /\ r.result # {} /\ r.req.route \in DistRoutes /\ boot.authz /\ r.kind # "Bearer"
        => \E x \in r.saw : \A c \in r.checks :
             \/ \E p \in DOMAIN x.ac.repos :
                  /\ r.req.repo \in PatternMatches[p]
                  /\ \A p2 \in DOMAIN x.ac.repos :
                       r.req.repo \in PatternMatches[p2] => PatternLen[p2] <= PatternLen[p]
                  /\ isPermitted(x.ac.repos[p], x.compiled, r.user, r.groups, c[1], r.req.repo, c[2])
             \/ /\ isAdmin(x.ac, r.user, r.groups) /\ c[1] \in x.ac.admin.actions
                /\ policyConditionsMet(x.ac.admin, x.compiled, r.req.repo, c[2])

(***************************************************************************)
(* Every tag a manifest was put under was named in a check the request had *)
(* to pass, although the middleware and the handler parse the ?tag=        *)
(* parameters separately.                                                  *)
(***************************************************************************)
WritesAuthorized ==
  \A s \in Slots :
    q[s].pc = "done" /\ q[s].req.route = "write"
    => \A t \in q[s].result : \E c \in q[s].checks : c[2] = t

(***************************************************************************)
(* The catalog never hides a repository the user may read (authz.go calls  *)
(* under-listing the worse failure mode), provided no two patterns of the  *)
(* same length match it, for then either one may decide each time.         *)
(***************************************************************************)
NoUnderListing ==
  \A s \in Slots :
    LET r == q[s]
    IN  r.pc = "done" /\ r.req.route = "catalog" /\ r.uac # None
        => \A repo \in Repos :
             /\ Cardinality(LongestMatches(DOMAIN r.uac.ac.repos, repo)) <= 1
             /\ \E ref \in Tags \cup {Digest} :
                  TRUE \in can(r.uac.ac, r.uac.compiled, r.user, r.groups, "read", repo, ref)
             => repo \in r.result

(***************************************************************************)
(* A session speaks for a user with the groups of a login of that same     *)
(* user, and a profile never holds another user's groups, however logins   *)
(* of several users and several methods overlap.                           *)
(***************************************************************************)
GroupsOwn ==
  /\ \A u \in Users : profile[u] # None => profile[u] \in GroupsOf(u)
  /\ \A s \in Slots : q[s].user # Anonymous /\ q[s].kind \in {"Basic", "BearerOIDC"}
                      => q[s].groups \in GroupsOf(q[s].user)

(***************************************************************************)
(* A credential that belongs to this server is never handed to the         *)
(* upstream token server, not even one that fails to authenticate.         *)
(***************************************************************************)
OwnedNeverProxied ==
  \A s \in Slots :
    q[s].pc = "done" /\ q[s].req.route = "token" /\ "proxied" \in q[s].result
    => q[s].req.query \subseteq {"foreign", "oidcRight", "oidcWrong", "openid"}

(***************************************************************************)
(* Nobody acts, and no session speaks, for a user whose password, token,   *)
(* certificate or key was never presented: not through a session that      *)
(* changed hands, a key of somebody else, or a login that failed halfway.  *)
(***************************************************************************)
Proves(r, u) ==
  \/ r.user = u /\ (r.good = "right" \/ r.good \in Keys \/ r.route = "callback")
  \/ r.cert = u
IdentityProven ==
  \A u \in Users :
    (\A r \in mix.requests : ~Proves(r, u))
    => /\ \A x \in Sids : sessions[x] # u
       /\ \A s \in Slots : q[s].user # u
       /\ profile[u] = None

\* Whatever is reloaded, whoever logs in meanwhile and by whichever method: a request does and
\* shows only what its user is entitled to, the user is who proved it, and its secrets stay here.
AccessSound == /\ TypeOK /\ ServedEntitled /\ WritesAuthorized /\ NoUnderListing
               /\ GroupsOwn /\ OwnedNeverProxied /\ IdentityProven

==================================================
