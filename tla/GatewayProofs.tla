--------------------------- MODULE GatewayProofs ----------------------------
(* Proof that a request gets what its user is entitled to (AccessSound of    *)
(* Gateway), for any users, policies, configurations and requests.           *)
(*                                                                           *)
(* The invariant speaks of each request by the place it has come to: the     *)
(* user is one who proved it and has groups of his own (Knows); the access   *)
(* control in force now is among those the request has seen (Lives), so that *)
(* a decision taken now is one under an access control it has seen; and what *)
(* was decided covers what the handler will do (Decided).                    *)
EXTENDS Gateway, TLAPS, FiniteSetTheorems

-----------------------------------------------------------------------------
(* The decisions.                                                            *)

\* Access control x grants check c of request r: by a longest pattern, or to an admin.
Grants(x, r, c) ==
    \/ \E p \in DOMAIN x.ac.repos :
         /\ r.req.repo \in PatternMatches[p]
         /\ \A p2 \in DOMAIN x.ac.repos :
              r.req.repo \in PatternMatches[p2] => PatternLen[p2] <= PatternLen[p]
         /\ isPermitted(x.ac.repos[p], x.compiled, r.user, r.groups, c[1], r.req.repo, c[2])
    \/ /\ isAdmin(x.ac, r.user, r.groups) /\ c[1] \in x.ac.admin.actions
       /\ policyConditionsMet(x.ac.admin, x.compiled, r.req.repo, c[2])

\* The longest patterns that match are patterns that match, and no other is longer.
LEMMA LongestIs ==
    ASSUME NEW P \in SUBSET Patterns, NEW repo, NEW p \in LongestMatches(P, repo)
    PROVE  /\ p \in P /\ repo \in PatternMatches[p]
           /\ \A p2 \in P : repo \in PatternMatches[p2] => PatternLen[p2] <= PatternLen[p]
BY GatewayAssumption DEF LongestMatches

\* can says yes for a pattern that may be the longest, or to an admin.
LEMMA CanSays ==
    ASSUME NEW ac, NEW compl, NEW user, NEW groups, NEW action, NEW repo, NEW ref,
           TRUE \in can(ac, compl, user, groups, action, repo, ref)
    PROVE  \/ \E p \in LongestMatches(DOMAIN ac.repos, repo) :
                isPermitted(ac.repos[p], compl, user, groups, action, repo, ref)
           \/ /\ isAdmin(ac, user, groups) /\ action \in ac.admin.actions
              /\ policyConditionsMet(ac.admin, compl, repo, ref)
<1> DEFINE L == LongestMatches(DOMAIN ac.repos, repo)
           W(X) == canWith(ac, compl, user, groups, action, repo, ref, X)
<1>1. W({}) \/ \E p \in L : W({p})
  <2>1. CASE L = {}
    BY <2>1 DEF can
  <2>2. CASE L # {}
    BY <2>2 DEF can
  <2> QED BY <2>1, <2>2
<1> HIDE DEF L
<1>2. CASE W({})
  BY <1>2 DEF canWith
<1>3. ASSUME NEW p \in L, W({p})
      PROVE  isPermitted(ac.repos[p], compl, user, groups, action, repo, ref) \/ W({})
  BY <1>3 DEF canWith
<1>4. CASE \E p \in L : W({p}) /\ ~W({})
  <2>1. PICK p \in L : W({p}) /\ ~W({})
    BY <1>4
  <2>2. isPermitted(ac.repos[p], compl, user, groups, action, repo, ref)
    BY <1>3, <2>1
  <2> QED BY <2>2 DEF L
<1> QED BY <1>1, <1>2, <1>4

\* So a check that can answers with yes is granted.
LEMMA CanGrants ==
    ASSUME NEW x, DOMAIN x.ac.repos \subseteq Patterns, NEW r, NEW c,
           TRUE \in can(x.ac, x.compiled, r.user, r.groups, c[1], r.req.repo, c[2])
    PROVE  Grants(x, r, c)
<1>1. CASE \E p \in LongestMatches(DOMAIN x.ac.repos, r.req.repo) :
             isPermitted(x.ac.repos[p], x.compiled, r.user, r.groups, c[1], r.req.repo, c[2])
  BY <1>1, LongestIs DEF Grants
<1>2. CASE /\ isAdmin(x.ac, r.user, r.groups) /\ c[1] \in x.ac.admin.actions
           /\ policyConditionsMet(x.ac.admin, x.compiled, r.req.repo, c[2])
  BY <1>2 DEF Grants
<1> QED BY <1>1, <1>2, CanSays

\* A set with at most one member.
LEMMA AtMostOne ==
    ASSUME NEW S, IsFiniteSet(S), Cardinality(S) <= 1, NEW x \in S
    PROVE  S = {x}
<1>1. Cardinality(S) \in Nat /\ Cardinality(S) # 0
  BY FS_CardinalityType, FS_EmptySet
<1>2. Cardinality(S) = 1
  BY <1>1
<1>3. \E y : S = {y}
  BY <1>2, FS_Singleton
<1> QED BY <1>3

\* A repository that can lets the user read, whatever the reference, is listed by Can.
LEMMA Listed ==
    ASSUME NEW ac, DOMAIN ac.repos \subseteq Patterns, NEW compl, NEW user, NEW groups,
           NEW repo, NEW ref, TRUE \in can(ac, compl, user, groups, "read", repo, ref),
           Cardinality(LongestMatches(DOMAIN ac.repos, repo)) <= 1
    PROVE  Can(ac, user, groups, "read", repo) = {TRUE}
<1> DEFINE L == LongestMatches(DOMAIN ac.repos, repo)
           G == getGlobPatterns(ac, user, groups, "read")
<1>1. CASE isAdmin(ac, user, groups)
  BY <1>1 DEF Can
<1>2. CASE ~isAdmin(ac, user, groups)
  <2>1. PICK p \in L : isPermitted(ac.repos[p], compl, user, groups, "read", repo, ref)
    BY <1>2, CanSays
  <2>2. p \in DOMAIN ac.repos
    BY LongestIs
  <2>3. p \in G
    BY <2>1, <2>2 DEF isPermitted, getGlobPatterns
  <2>4. IsFiniteSet(L)
    BY GatewayAssumption, FS_Subset DEF LongestMatches
  <2>5. L = {p}
    <3> HIDE DEF L
    <3>1. Cardinality(L) <= 1
      BY DEF L
    <3> QED BY <2>4, <3>1, AtMostOne
  <2>6. Can(ac, user, groups, "read", repo) = {(x \in G) : x \in L}
    <3>1. L # {}
      BY <2>5
    <3> HIDE DEF G
    <3> QED BY <1>2, <3>1 DEF Can, matchesRepo, G
  <2> HIDE DEF G, L
  <2> QED BY <2>3, <2>5, <2>6
<1> QED BY <1>1, <1>2

\* The checks of a manifest write name the reference and every valid tag of the query.
Targets(r) == {r.ref} \cup (IF r.ref \in Tags THEN {} ELSE r.query \cap Tags)
WriteChecks(existing, r) == manifestWriteAuthzChecks(existing, r.ref, r.ref \in Tags, r.query, Tags)

\* So they do.
LEMMA ChecksName ==
    ASSUME NEW existing, NEW r, NEW t \in Targets(r)
    PROVE  \E c \in WriteChecks(existing, r) : c[2] = t
<1> DEFINE M == WriteChecks(existing, r)
           E == r.query \cap Tags \cap existing
           N == (r.query \cap Tags) \ existing
<1>0. SUFFICES \E a : <<a, t>> \in M
  <2>1. PICK a : <<a, t>> \in M
    BY <1>0
  <2>2. <<a, t>>[2] = t
    OBVIOUS
  <2> HIDE DEF M
  <2>3. \E c \in M : c[2] = t
    BY <2>1, <2>2
  <2> QED BY <2>3 DEF M
<1>1. CASE r.ref \in Tags
  <2>1. t = r.ref /\ M = {<<IF r.ref \in existing THEN "update" ELSE "create", r.ref>>}
    BY <1>1 DEF WriteChecks, manifestWriteAuthzChecks, Targets
  <2> HIDE DEF M
  <2> QED BY <2>1
<1>2. CASE r.ref \notin Tags
  <2>1. M = {<<"update", x>> : x \in E} \cup {<<"create", x>> : x \in N}
             \cup (IF N # {} \/ E = {} THEN {<<"create", r.ref>>} ELSE {})
             \cup (IF E # {} THEN {<<"update", r.ref>>} ELSE {})
    BY <1>2, Zenon DEF WriteChecks, manifestWriteAuthzChecks, classifyDigestQueryTags
  <2>2. t = r.ref \/ t \in E \/ t \in N
    BY <1>2 DEF Targets
  <2> HIDE DEF M, E, N
  <2>3. CASE t \in E \/ t \in N
    BY <2>1, <2>3
  <2>4. CASE t = r.ref
    BY <2>1, <2>4
  <2> QED BY <2>2, <2>3, <2>4
<1> QED BY <1>1, <1>2

-----------------------------------------------------------------------------
(* The invariant.                                                            *)

\* Somebody may present a secret of user u in the scenario m.
Known(u, m) == \E r \in m.requests : Proves(r, u)

\* A request on its way, with its fields.
Working == {"session", "groups", "base", "dist", "serve"}
Shape(x) == x = [pc |-> x.pc, req |-> x.req, user |-> x.user, groups |-> x.groups,
                 kind |-> x.kind, sid |-> x.sid, uac |-> x.uac, checks |-> x.checks,
                 result |-> x.result, saw |-> x.saw]

\* Who it is: a user who proved it, with groups of his own.
Knows(x, m) ==
    /\ x.user \in Users \cup {Anonymous}
    /\ x.user \in Users => Known(x.user, m)
    /\ x.user \in Users /\ (x.kind \in {"Basic", "BearerOIDC"} \/ x.pc \in {"session", "groups"})
         => x.groups \in GroupsOf(x.user)
    /\ x.pc \in {"session", "groups"} => x.user \in Users
    /\ x.pc = "session" => x.sid \in Sids

\* Where it is, and what it asks for.
Placed(x, m) ==
    /\ x.pc \in Working \cup {"idle", "done"}
    /\ x.pc # "idle" => x.req \in m.requests
    /\ x.pc \in Working => x.req.route # "token"
    /\ x.pc \in {"base", "dist", "serve"} => x.req.route # "callback"
    /\ x.pc = "dist" => x.req.route \in DistRoutes
    /\ x.pc \in {"session", "groups", "base"} => x.uac = None
    /\ x.uac # None => \E c \in Configs : x.uac.ac = c.ac

\* It has seen the access control that is in force.
Lives(x, w) == x.pc \in Working => w \in x.saw

\* Each of its checks was granted under one access control it has seen; the checks of a write
\* name all that it may write.
Entitled(x) == \E w \in x.saw : \A c \in x.checks : Grants(w, x, c)
Covered(x) == \A t \in Targets(x.req) : \E c \in x.checks : c[2] = t
Decided(x, b) ==
    x.pc = "serve" =>
      /\ x.req.route \in DistRoutes /\ b.authz /\ x.kind # "Bearer" => Entitled(x)
      /\ x.req.route = "write" => Covered(x)

\* What it has done.
Lists(x) ==
    \A repo \in Repos :
      /\ Cardinality(LongestMatches(DOMAIN x.uac.ac.repos, repo)) <= 1
      /\ \E ref \in Tags \cup {Digest} :
           TRUE \in can(x.uac.ac, x.uac.compiled, x.user, x.groups, "read", repo, ref)
      => repo \in x.result
Done(x, b) ==
    x.pc = "done" =>
      /\ x.result # {} /\ x.req.route \in DistRoutes /\ b.authz /\ x.kind # "Bearer" => Entitled(x)
      /\ x.req.route = "write" => \A t \in x.result : \E c \in x.checks : c[2] = t
      /\ x.req.route = "catalog" /\ x.uac # None => Lists(x)
      /\ x.req.route = "token" /\ "proxied" \in x.result
           => x.req.query \subseteq {"foreign", "oidcRight", "oidcWrong", "openid"}

RequestOK(x, m, b, w) ==
    /\ Shape(x) /\ Knows(x, m) /\ Placed(x, m) /\ Lives(x, w) /\ Decided(x, b) /\ Done(x, b)

\* The configuration is one of the scenario's.
ConfOK ==
    /\ mix \in Mixes
    /\ cfg.methods \subseteq UNION {c.methods : c \in Configs}
    /\ \E c \in Configs : cfg.ac = c.ac
    /\ credsOn \in BOOLEAN /\ reload \in {"no", "compile", "htpasswd", "end"}

\* What is stored: profiles and sessions are of users who proved who they are.
StoreOK ==
    /\ profile = [u \in Users |-> profile[u]]
    /\ \A u \in Users : profile[u] # None => profile[u] \in GroupsOf(u) /\ Known(u, mix)
    /\ keys \in [Keys -> Users \cup {None}]
    /\ sessions \in [Sids -> Users \cup {None}]
    /\ \A x \in Sids : sessions[x] # None => Known(sessions[x], mix)
    /\ jar \in Sids \cup {None} /\ oauth \in States \cup {None}
    /\ expiring \subseteq Sids
    /\ tags \in [Repos -> SUBSET Tags] /\ holders \subseteq Repos

RequestsOK ==
    /\ q = [s \in Slots |-> q[s]]
    /\ \A s \in Slots : RequestOK(q[s], mix, boot, Snapshot)

\* The inductive invariant.
GatewayInv == ConfOK /\ StoreOK /\ RequestsOK

\* At the start nobody is on his way.
LEMMA FreshOK ==
    ASSUME NEW m, NEW b, NEW w
    PROVE  RequestOK(Fresh, m, b, w)
<1>1. Shape(Fresh)
  BY DEF Shape, Fresh
<1>2. /\ Fresh.pc = "idle" /\ Fresh.user = Anonymous /\ Fresh.uac = None
  BY DEF Fresh
<1> HIDE DEF Fresh
<1> QED BY <1>1, <1>2, GatewayAssumption DEF RequestOK, Knows, Placed, Lives, Decided, Done, Working

\* So is the whole gateway.
LEMMA InitOK == Init => GatewayInv
<1> SUFFICES ASSUME Init PROVE GatewayInv
  OBVIOUS
<1>1. mix \in Mixes /\ cfg \in mix.configs
  BY DEF Init
<1>2. cfg \in Configs
  BY <1>1 DEF Configs
<1>3. ConfOK
  <2>1. credsOn \in BOOLEAN /\ reload = "no"
    BY DEF Init
  <2> QED BY <1>1, <1>2, <2>1 DEF ConfOK
<1>4. StoreOK
  <2>1. /\ profile = [u \in Users |-> None] /\ keys = KeyOwner /\ sessions = [x \in Sids |-> None]
        /\ jar = None /\ oauth = None /\ expiring = {} /\ tags = [r \in Repos |-> {}] /\ holders = Holders
    BY DEF Init
  <2> QED BY <2>1, GatewayAssumption DEF StoreOK
<1>5. RequestsOK
  <2>1. q = [s \in Slots |-> Fresh]
    BY DEF Init
  <2> QED BY <2>1, FreshOK DEF RequestsOK
<1> QED BY <1>3, <1>4, <1>5 DEF GatewayInv

-----------------------------------------------------------------------------
(* Authentication: whom the outcome names, and with which groups.            *)

\* An outcome names nobody, or a user who proved it with groups of his own.
OutcomeOK(o, m) ==
    /\ o.user \in Users \cup {Anonymous}
    /\ o.user \in Users => Known(o.user, m)
    /\ o.user \in Users /\ (o.type \in {"Basic", "BearerOIDC"} \/ o.stored) => o.groups \in GroupsOf(o.user)
    /\ o.stored => o.user \in Users

\* Refusals and errors name nobody.
LEMMA FailOK == ASSUME NEW m PROVE OutcomeOK(Fail, m) /\ OutcomeOK(Error, m)
<1>1. Fail.user = Anonymous /\ Fail.stored = FALSE /\ Error.user = Anonymous /\ Error.stored = FALSE
  BY DEF Fail, Error
<1> QED BY <1>1, GatewayAssumption DEF OutcomeOK

\* A method that lets a user in with his own groups.
LEMMA PassOK ==
    ASSUME NEW m, NEW user \in Users, Known(user, m), NEW groups, NEW type, NEW stored \in BOOLEAN,
           type \in {"Basic", "BearerOIDC"} \/ stored => groups \in GroupsOf(user)
    PROVE  OutcomeOK(Pass(user, groups, type, stored), m)
<1> DEFINE o == Pass(user, groups, type, stored)
<1>1. o.user = user /\ o.groups = groups /\ o.type = type /\ o.stored = stored
  BY DEF Pass
<1> HIDE DEF o
<1> QED BY <1>1 DEF OutcomeOK, o

\* A request without a user.
LEMMA NobodyOK ==
    ASSUME NEW m, NEW ok
    PROVE  OutcomeOK(Unauthenticated(ok), m)
<1>1. Pass(Anonymous, {}, None, FALSE).user = Anonymous /\ Pass(Anonymous, {}, None, FALSE).stored = FALSE
  BY DEF Pass
<1>2. OutcomeOK(Pass(Anonymous, {}, None, FALSE), m)
  BY <1>1, GatewayAssumption DEF OutcomeOK
<1> QED BY <1>2, FailOK DEF Unauthenticated

\* The groups a configuration or a directory gives a user are his own.
LEMMA OwnGroups ==
    ASSUME ConfOK, NEW u
    PROVE  /\ getUserGroups(cfg.ac, u) \in GroupsOf(u)
           /\ getUserGroups(cfg.ac, u) \cup LdapGroups[u] \in GroupsOf(u)
           /\ OidcGroups[u] \in GroupsOf(u)
BY DEF ConfOK, GroupsOf

\* What is assumed of the requests.
LEMMA RequestIs ==
    ASSUME ConfOK, NEW r \in mix.requests
    PROVE  IsRequest(r)
BY GatewayAssumption DEF ConfOK

\* A user whose secret is in the request is known.
LEMMA ProvesKnown ==
    ASSUME NEW m, NEW r \in m.requests, NEW u, Proves(r, u)
    PROVE  Known(u, m)
BY DEF Known

\* authenticateAPIKeyCredential: the groups are those of the profile of the owner of the key.
LEMMA KeyOutcome ==
    ASSUME GatewayInv, NEW r \in mix.requests, r.good \in Keys, NEW o \in authenticateAPIKeyCredential(r)
    PROVE  OutcomeOK(o, mix)
<1>1. r.user \in Users /\ Known(r.user, mix)
  BY RequestIs, ProvesKnown DEF GatewayInv, IsRequest, Proves
<1>2. CASE keys[r.good] # r.user \/ profile[r.user] = None
  BY <1>2, FailOK DEF authenticateAPIKeyCredential
<1>3. CASE ~(keys[r.good] # r.user \/ profile[r.user] = None)
  <2>1. o = Pass(r.user, profile[r.user], "Basic", FALSE)
    BY <1>3 DEF authenticateAPIKeyCredential
  <2>2. profile[r.user] \in GroupsOf(r.user)
    BY <1>1, <1>3 DEF GatewayInv, StoreOK
  <2> QED BY <1>1, <2>1, <2>2, PassOK
<1> QED BY <1>2, <1>3

\* basicAuthn: htpasswd, API key or LDAP.
LEMMA BasicOutcome ==
    ASSUME GatewayInv, NEW r \in mix.requests, NEW o \in basicAuthn(r)
    PROVE  OutcomeOK(o, mix)
<1>0. ConfOK /\ IsRequest(r)
  BY RequestIs DEF GatewayInv
<1>1. r.user \in Users /\ (r.good = "right" => Known(r.user, mix))
  BY <1>0, ProvesKnown DEF IsRequest, Proves
<1> DEFINE G == getUserGroups(cfg.ac, r.user)
           H == Pass(r.user, G, "Basic", TRUE)
           L == Pass(r.user, G \cup LdapGroups[r.user], "Basic", TRUE)
           key == IF ~Enabled("apikey") \/ r.kind # "key" THEN {Fail}
                  ELSE authenticateAPIKeyCredential(r)
<1>2. (r.good = "right" /\ (o = H \/ o = L)) \/ o \in key
  BY DEF basicAuthn, LDAPAuthenticate
<1>3. r.good = "right" => OutcomeOK(H, mix) /\ OutcomeOK(L, mix)
  <2> HIDE DEF G
  <2>1. G \in GroupsOf(r.user) /\ G \cup LdapGroups[r.user] \in GroupsOf(r.user)
    BY <1>0, OwnGroups DEF G
  <2> QED BY <1>1, <2>1, PassOK
<1> HIDE DEF H, L
<1>4. CASE o \in key
  <2>1. o = Fail \/ (r.kind = "key" /\ o \in authenticateAPIKeyCredential(r))
    BY <1>4
  <2> QED BY <1>0, <2>1, FailOK, KeyOutcome DEF IsRequest
<1> QED BY <1>2, <1>3, <1>4

\* sessionAuthn: the user of the session, who logged in once.
LEMMA SessionOutcome ==
    ASSUME GatewayInv, NEW o \in sessionAuthn
    PROVE  OutcomeOK(o, mix)
<1> DEFINE user == IF jar = None THEN None ELSE sessions[jar]
<1>1. CASE user = None
  BY <1>1, FailOK DEF sessionAuthn
<1>2. CASE user # None
  <2>1. user \in Users /\ Known(user, mix)
    BY <1>2 DEF GatewayInv, StoreOK
  <2>2. o = [Fail EXCEPT !.user = user] \/ (profile[user] # None /\ o = Pass(user, profile[user], "Basic", FALSE))
    BY <1>2 DEF sessionAuthn
  <2> HIDE DEF user
  <2>3. CASE o = [Fail EXCEPT !.user = user]
    <3>1. o.user = user /\ o.type = None /\ o.stored = FALSE
      BY <2>3 DEF Fail
    <3> QED BY <2>1, <3>1, GatewayAssumption DEF OutcomeOK
  <2>4. CASE profile[user] # None /\ o = Pass(user, profile[user], "Basic", FALSE)
    <3>1. profile[user] \in GroupsOf(user)
      BY <2>1, <2>4 DEF GatewayInv, StoreOK
    <3> QED BY <2>1, <2>4, <3>1, PassOK
  <2> QED BY <2>2, <2>3, <2>4
<1> QED BY <1>1, <1>2

\* BearerAuthenticate: a wrapped key, an OIDC token or a bearer token.
LEMMA BearerOutcome ==
    ASSUME GatewayInv, NEW r \in mix.requests, NEW o \in BearerAuthenticate(r)
    PROVE  OutcomeOK(o, mix)
<1>0. ConfOK /\ IsRequest(r)
  BY RequestIs DEF GatewayInv
<1>1. r.user \in Users /\ (r.good = "right" => Known(r.user, mix))
  BY <1>0, ProvesKnown DEF IsRequest, Proves
<1>2. \/ o = Fail
      \/ r.kind = "wrapped" /\ o \in authenticateAPIKeyCredential(r)
      \/ r.good = "right" /\ o = Pass(r.user, OidcGroups[r.user], "BearerOIDC", TRUE)
      \/ r.good = "right" /\ o = Pass(r.user, {}, "Bearer", FALSE)
  BY DEF BearerAuthenticate
<1>3. CASE r.kind = "wrapped" /\ o \in authenticateAPIKeyCredential(r)
  BY <1>0, <1>3, KeyOutcome DEF IsRequest
<1>4. CASE r.good = "right" /\ o = Pass(r.user, OidcGroups[r.user], "BearerOIDC", TRUE)
  BY <1>0, <1>1, <1>4, OwnGroups, PassOK
<1>5. CASE r.good = "right" /\ o = Pass(r.user, {}, "Bearer", FALSE)
  BY <1>1, <1>5, PassOK
<1> QED BY <1>2, <1>3, <1>4, <1>5, FailOK

\* mTLSAuthn: the user of the certificate.
LEMMA CertOutcome ==
    ASSUME GatewayInv, NEW r \in mix.requests, r.cert # None, NEW o \in mTLSAuthn(r)
    PROVE  OutcomeOK(o, mix)
<1>0. ConfOK /\ IsRequest(r)
  BY RequestIs DEF GatewayInv
<1>1. r.cert \in Users /\ Known(r.cert, mix)
  BY <1>0, ProvesKnown DEF IsRequest, Proves
<1> QED BY <1>0, <1>1, OwnGroups, PassOK DEF mTLSAuthn

\* Letting a request in without a user changes only whether it is let in.
LEMMA AnonymousOutcome ==
    ASSUME NEW m, NEW r, NEW os, \A o \in os : OutcomeOK(o, m) /\ DOMAIN o = {"ok", "err", "user", "groups", "type", "stored"},
           NEW o \in OrAnonymous(r, os)
    PROVE  OutcomeOK(o, m)
<1>1. PICK p \in os : o = p \/ o = [p EXCEPT !.ok = TRUE]
  BY DEF OrAnonymous
<1>2. o.user = p.user /\ o.groups = p.groups /\ o.type = p.type /\ o.stored = p.stored
  BY <1>1
<1> QED BY <1>1, <1>2 DEF OutcomeOK

\* Whatever method tryAuthnHandlers picks.
LEMMA AuthnOutcome ==
    ASSUME GatewayInv, NEW r \in mix.requests, NEW o \in tryAuthnHandlers(r)
    PROVE  OutcomeOK(o, mix)
<1>1. \/ o = Fail \/ o \in BearerAuthenticate(r) \/ o \in OrAnonymous(r, {Fail})
      \/ o \in basicAuthn(r) \/ o \in OrAnonymous(r, sessionAuthn)
      \/ (r.cert # None /\ o \in mTLSAuthn(r))
      \/ \E ok \in BOOLEAN : o = Unauthenticated(ok)
  BY DEF tryAuthnHandlers, AllowsUnauthenticated
<1>2. \A p \in {Fail} : OutcomeOK(p, mix) /\ DOMAIN p = {"ok", "err", "user", "groups", "type", "stored"}
  BY FailOK DEF Fail
<1>3. \A p \in sessionAuthn : OutcomeOK(p, mix) /\ DOMAIN p = {"ok", "err", "user", "groups", "type", "stored"}
  BY SessionOutcome DEF sessionAuthn, Fail, Pass
<1> QED BY <1>1, <1>2, <1>3, FailOK, BearerOutcome, BasicOutcome, CertOutcome, NobodyOK, AnonymousOutcome

-----------------------------------------------------------------------------
(* A request goes on.                                                        *)

\* The other requests, and what a step leaves alone.
LEMMA OneRequest ==
    ASSUME RequestsOK, UNCHANGED conf, NEW s \in Slots, NEW y,
           RequestOK(y, mix, boot, Snapshot), q' = [q EXCEPT ![s] = y]
    PROVE  RequestsOK'
<1>1. mix' = mix /\ boot' = boot /\ Snapshot' = Snapshot
  BY DEF conf, Snapshot
<1>2. q' = [t \in Slots |-> q'[t]]
  BY DEF RequestsOK
<1>3. ASSUME NEW t \in Slots PROVE RequestOK(q'[t], mix, boot, Snapshot)
  <2>1. q'[t] = IF t = s THEN y ELSE q[t]
    BY DEF RequestsOK
  <2> QED BY <2>1 DEF RequestsOK
<1> QED BY <1>1, <1>2, <1>3 DEF RequestsOK

\* The configuration, when a step leaves it alone.
LEMMA ConfStays ==
    ASSUME ConfOK, UNCHANGED conf
    PROVE  ConfOK'
BY DEF ConfOK, conf, Configs

\* The store, when a step leaves it alone.
LEMMA StoreStays ==
    ASSUME StoreOK, UNCHANGED store, mix' = mix
    PROVE  StoreOK'
BY DEF StoreOK, store, GroupsOf, Known

\* The fields of a request after a change.
Over(x, R) == [x EXCEPT !.pc = "done", !.result = R]

\* The request, when it is over.
LEMMA Ends ==
    ASSUME NEW x, Shape(x), NEW R, NEW y, y = Over(x, R)
    PROVE  /\ Shape(y) /\ y.pc = "done" /\ y.result = R /\ y.req = x.req /\ y.user = x.user
           /\ y.groups = x.groups /\ y.kind = x.kind /\ y.uac = x.uac /\ y.checks = x.checks /\ y.saw = x.saw
BY DEF Shape, Over

At(x, p) == [x EXCEPT !.pc = p]

\* The request, at the next place.
LEMMA Goes ==
    ASSUME NEW x, Shape(x), NEW p, NEW y, y = At(x, p)
    PROVE  /\ Shape(y) /\ y.pc = p /\ y.result = x.result /\ y.req = x.req /\ y.user = x.user /\ y.sid = x.sid
           /\ y.groups = x.groups /\ y.kind = x.kind /\ y.uac = x.uac /\ y.checks = x.checks /\ y.saw = x.saw
BY DEF Shape, At

\* What was granted to x is granted to a request of the same user for the same thing.
LEMMA SameGrants ==
    ASSUME NEW x, NEW y, y.req = x.req, y.user = x.user, y.groups = x.groups, NEW w, NEW c, Grants(w, x, c)
    PROVE  Grants(w, y, c)
BY DEF Grants

\* So a request stays entitled while it sees more.
LEMMA SameEntitled ==
    ASSUME NEW x, NEW y, y.req = x.req, y.user = x.user, y.groups = x.groups, y.checks = x.checks,
           x.saw \subseteq y.saw, Entitled(x)
    PROVE  Entitled(y)
BY SameGrants DEF Entitled

\* A request that is over: whoever it was, it only has to have done what it may.
LEMMA EndOK ==
    ASSUME NEW m, NEW b, NEW w, NEW x, RequestOK(x, m, b, w), x.pc \in Working, NEW R,
           NEW y, y = Over(x, R),
           R # {} /\ x.req.route \in DistRoutes => x.pc = "serve",
           x.req.route = "write" => \A t \in R : \E c \in x.checks : c[2] = t,
           x.req.route = "catalog" /\ x.uac # None => Lists(y)
    PROVE  RequestOK(y, m, b, w)
<1>1. Shape(x) /\ Knows(x, m) /\ Placed(x, m) /\ Decided(x, b)
  BY DEF RequestOK
<1>2. /\ Shape(y) /\ y.pc = "done" /\ y.result = R /\ y.req = x.req /\ y.user = x.user
      /\ y.groups = x.groups /\ y.kind = x.kind /\ y.uac = x.uac /\ y.checks = x.checks /\ y.saw = x.saw
  BY <1>1, Ends
<1>3. Knows(y, m)
  BY <1>1, <1>2 DEF Knows
<1>4. Placed(y, m)
  BY <1>1, <1>2 DEF Placed, Working
<1>5. Lives(y, w) /\ Decided(y, b)
  BY <1>2 DEF Lives, Decided, Working
<1>6. Done(y, b)
  <2>1. R # {} /\ x.req.route \in DistRoutes /\ b.authz /\ x.kind # "Bearer" => Entitled(y)
    <3>1. SUFFICES ASSUME R # {} /\ x.req.route \in DistRoutes /\ b.authz /\ x.kind # "Bearer" PROVE Entitled(y)
      OBVIOUS
    <3>2. Entitled(x)
      BY <1>1, <3>1 DEF Decided
    <3> QED BY <1>2, <3>2, SameEntitled
  <2>2. x.req.route # "token"
    BY <1>1 DEF Placed
  <2> QED BY <1>2, <2>1, <2>2 DEF Done
<1> QED BY <1>2, <1>3, <1>4, <1>5, <1>6 DEF RequestOK

\* It failed.
LEMMA FailsOK ==
    ASSUME NEW m, NEW b, NEW w, NEW x, RequestOK(x, m, b, w), x.pc \in {"session", "groups", "dist"},
           NEW y, y = Over(x, {})
    PROVE  RequestOK(y, m, b, w)
<1>1. x.pc \in Working /\ ~(x.req.route = "catalog" /\ x.uac # None)
  BY DEF Working, RequestOK, Placed, DistRoutes
<1> QED BY <1>1, EndOK

\* A request begins.
LEMMA FreshIs ==
    /\ Shape(Fresh) /\ Fresh.user = Anonymous /\ Fresh.uac = None /\ Fresh.result = {}
BY DEF Shape, Fresh

Asks(x, p, r) == [x EXCEPT !.pc = p, !.req = r]

\* The request, with what it asks for.
LEMMA AsksIs ==
    ASSUME NEW x, Shape(x), NEW p, NEW r, NEW y, y = Asks(x, p, r)
    PROVE  /\ Shape(y) /\ y.pc = p /\ y.req = r /\ y.user = x.user
           /\ y.uac = x.uac /\ y.result = x.result
BY DEF Asks, Shape

Starts(x, p, r, S) == [x EXCEPT !.pc = p, !.req = r, !.saw = S]

\* The request, with what it has seen.
LEMMA StartsIs ==
    ASSUME NEW x, Shape(x), NEW p, NEW r, NEW S, NEW y, y = Starts(x, p, r, S)
    PROVE  /\ Shape(y) /\ y.pc = p /\ y.req = r /\ y.saw = S
           /\ y.uac = x.uac /\ y.result = x.result /\ y.user = x.user
BY DEF Starts, Shape

Names(x, u, g, k, i) == [x EXCEPT !.user = u, !.groups = g, !.kind = k, !.sid = i]

\* The request, with the user it names.
LEMMA NamesIs ==
    ASSUME NEW x, Shape(x), NEW u, NEW g, NEW k, NEW i, NEW y, y = Names(x, u, g, k, i)
    PROVE  /\ Shape(y) /\ y.pc = x.pc /\ y.req = x.req /\ y.user = u /\ y.groups = g /\ y.kind = k
           /\ y.sid = i /\ y.uac = x.uac /\ y.saw = x.saw
BY DEF Names, Shape

\* The fields of a request that was let in.
LEMMA BeginIs ==
    ASSUME NEW r, NEW p
    PROVE  /\ Shape(Begin(r, p)) /\ Begin(r, p).pc = p /\ Begin(r, p).req = r
           /\ Begin(r, p).uac = None /\ Begin(r, p).saw = {Snapshot} /\ Begin(r, p).result = {}
           /\ Begin(r, p).user = Anonymous
<1>1. Begin(r, p) = Starts(Fresh, p, r, {Snapshot})
  BY DEF Begin, Starts
<1> QED BY <1>1, FreshIs, StartsIs

\* It is refused.
LEMMA RefusedOK ==
    ASSUME NEW m, NEW b, NEW w, NEW r \in m.requests
    PROVE  RequestOK([Fresh EXCEPT !.pc = "done", !.req = r], m, b, w)
<1> DEFINE y == [Fresh EXCEPT !.pc = "done", !.req = r]
<1>1. /\ Shape(y) /\ y.pc = "done" /\ y.req = r /\ y.result = {} /\ y.uac = None /\ y.user = Anonymous
  <2>1. y = Asks(Fresh, "done", r)
    BY DEF Asks
  <2> HIDE DEF y
  <2> QED BY <2>1, FreshIs, AsksIs
<1> HIDE DEF y
<1>2. RequestOK(y, m, b, w)
  BY <1>1, GatewayAssumption DEF RequestOK, Knows, Placed, Lives, Decided, Done, Working
<1> QED BY <1>2 DEF y

\* It is let in.
LEMMA BeginOK ==
    ASSUME NEW m, NEW b, NEW r \in m.requests, r.route # "token", NEW p \in {"session", "groups", "base"},
           p = "base" => r.route # "callback",
           NEW user \in Users \cup {Anonymous}, user \in Users => Known(user, m),
           NEW groups, NEW kind, NEW sid,
           user \in Users /\ (kind \in {"Basic", "BearerOIDC"} \/ p # "base") => groups \in GroupsOf(user),
           p # "base" => user \in Users, p = "session" => sid \in Sids,
           NEW y, y = Names(Begin(r, p), user, groups, kind, sid)
    PROVE  RequestOK(y, m, b, Snapshot)
<1>1. /\ Shape(y) /\ y.pc = p /\ y.req = r /\ y.user = user /\ y.groups = groups /\ y.kind = kind
      /\ y.sid = sid /\ y.uac = None /\ y.saw = {Snapshot}
  BY BeginIs, NamesIs
<1> QED BY <1>1 DEF RequestOK, Knows, Placed, Lives, Decided, Done, Working

-----------------------------------------------------------------------------
(* The steps.                                                                *)

\* The session that a login works on.
LEMMA SessionIs ==
    ASSUME StoreOK, NEW new \in Sids
    PROVE  SessionOfCookie(new) \in Sids
BY DEF StoreOK, SessionOfCookie

\* A request arrives.
LEMMA AuthnKeeps ==
    ASSUME GatewayInv, NEW s \in Slots, NEW r \in mix.requests, Authn(s, r)
    PROVE  GatewayInv'
<1>0. ConfOK /\ StoreOK /\ RequestsOK /\ UNCHANGED conf /\ UNCHANGED store /\ mix' = mix
  BY DEF GatewayInv, Authn, conf
<1>1. PICK o \in tryAuthnHandlers(r), new \in Sids :
        q' = [q EXCEPT ![s] =
            IF ~o.ok THEN [Fresh EXCEPT !.pc = "done", !.req = r]
            ELSE [Begin(r, IF ~o.stored THEN "base" ELSE IF r.session THEN "session" ELSE "groups")
                    EXCEPT !.user = o.user, !.groups = o.groups, !.kind = o.type,
                           !.sid = IF o.stored /\ r.session THEN SessionOfCookie(new) ELSE None]]
  BY DEF Authn
<1>2. OutcomeOK(o, mix) /\ r.route \notin {"token", "callback"}
  BY AuthnOutcome DEF Authn
<1> DEFINE p == IF ~o.stored THEN "base" ELSE IF r.session THEN "session" ELSE "groups"
           sid == IF o.stored /\ r.session THEN SessionOfCookie(new) ELSE None
           y == [Begin(r, p) EXCEPT !.user = o.user, !.groups = o.groups, !.kind = o.type, !.sid = sid]
<1>3. RequestOK(y, mix, boot, Snapshot)
  <2>1. p \in {"session", "groups", "base"} /\ (p # "base" => o.stored) /\ (p = "session" => sid \in Sids)
    BY <1>0, SessionIs
  <2> HIDE DEF p, sid
  <2>2. /\ o.user \in Users \cup {Anonymous} /\ (o.user \in Users => Known(o.user, mix))
        /\ o.user \in Users /\ (o.type \in {"Basic", "BearerOIDC"} \/ p # "base") => o.groups \in GroupsOf(o.user)
        /\ p # "base" => o.user \in Users
    BY <1>2, <2>1 DEF OutcomeOK
  <2>3. y = Names(Begin(r, p), o.user, o.groups, o.type, sid)
    BY DEF Names
  <2> HIDE DEF y
  <2> QED BY <1>2, <2>1, <2>2, <2>3, BeginOK
<1>4. RequestOK([Fresh EXCEPT !.pc = "done", !.req = r], mix, boot, Snapshot)
  BY RefusedOK
<1> DEFINE z == IF ~o.ok THEN [Fresh EXCEPT !.pc = "done", !.req = r] ELSE y
<1>5. q' = [q EXCEPT ![s] = z] /\ RequestOK(z, mix, boot, Snapshot)
  BY <1>1, <1>3, <1>4, Zenon
<1> HIDE DEF z
<1>6. RequestsOK'
  BY <1>0, <1>5, OneRequest
<1> QED BY <1>0, <1>6, ConfStays, StoreStays DEF GatewayInv

\* A browser comes back from the provider.
LEMMA CallbackKeeps ==
    ASSUME GatewayInv, NEW s \in Slots, NEW r \in mix.requests, OAuth2Callback(s, r)
    PROVE  GatewayInv'
<1>0. ConfOK /\ StoreOK /\ RequestsOK /\ UNCHANGED conf /\ UNCHANGED store /\ mix' = mix
  BY DEF GatewayInv, OAuth2Callback, conf
<1> DEFINE ok == boot.cookies /\ "openid" \in boot.methods /\ oauth = r.ref
<1>1. PICK new \in Sids :
        q' = [q EXCEPT ![s] =
            IF ~ok THEN [Fresh EXCEPT !.pc = "done", !.req = r]
            ELSE [Begin(r, "session") EXCEPT !.user = r.user, !.groups = OidcGroups[r.user],
                    !.kind = "OpenID", !.sid = SessionOfCookie(new)]]
  BY DEF OAuth2Callback
<1>2. IsRequest(r) /\ r.route = "callback"
  BY <1>0, RequestIs DEF OAuth2Callback
<1> DEFINE sid == SessionOfCookie(new)
           g == OidcGroups[r.user]
           y == [Begin(r, "session") EXCEPT !.user = r.user, !.groups = g, !.kind = "OpenID", !.sid = sid]
<1>3. RequestOK(y, mix, boot, Snapshot)
  <2>1. sid \in Sids /\ g \in GroupsOf(r.user)
    BY <1>0, SessionIs, OwnGroups
  <2>2. r.user \in Users /\ Known(r.user, mix)
    BY <1>2, ProvesKnown DEF IsRequest, Proves
  <2> HIDE DEF sid, g
  <2>3. y = Names(Begin(r, "session"), r.user, g, "OpenID", sid)
    BY DEF Names
  <2> HIDE DEF y
  <2> QED BY <1>2, <2>1, <2>2, <2>3, BeginOK
<1>4. RequestOK([Fresh EXCEPT !.pc = "done", !.req = r], mix, boot, Snapshot)
  BY RefusedOK
<1> DEFINE z == IF ~ok THEN [Fresh EXCEPT !.pc = "done", !.req = r] ELSE y
<1>5. q' = [q EXCEPT ![s] = z] /\ RequestOK(z, mix, boot, Snapshot)
  BY <1>1, <1>3, <1>4, Zenon
<1> HIDE DEF z
<1>6. RequestsOK'
  BY <1>0, <1>5, OneRequest
<1> QED BY <1>0, <1>6, ConfStays, StoreStays DEF GatewayInv

\* A login is saved.
LEMMA SaveKeeps ==
    ASSUME GatewayInv, NEW s \in Slots, saveUserLoggedSession(s)
    PROVE  GatewayInv'
<1> DEFINE x == q[s]
<1>0. /\ ConfOK /\ StoreOK /\ RequestsOK /\ UNCHANGED conf /\ mix' = mix
      /\ UNCHANGED <<profile, keys, oauth, expiring, tags, holders>>
  BY DEF GatewayInv, saveUserLoggedSession, conf
<1>1. RequestOK(x, mix, boot, Snapshot) /\ x.pc = "session"
  BY <1>0 DEF RequestsOK, saveUserLoggedSession
<1>2. x.user \in Users /\ Known(x.user, mix) /\ x.sid \in Sids
  BY <1>1 DEF RequestOK, Knows
<1>3. \/ /\ sessions' = [sessions EXCEPT ![x.sid] = x.user] /\ jar' = x.sid
         /\ q' = [q EXCEPT ![s] = At(x, "groups")]
      \/ /\ UNCHANGED <<sessions, jar>> /\ q' = [q EXCEPT ![s] = Over(x, {})]
  BY DEF saveUserLoggedSession, At, Over, End
<1> HIDE DEF x
<1>4. StoreOK'
  <2>1. CASE UNCHANGED <<sessions, jar>>
    BY <1>0, <2>1, StoreStays DEF store
  <2>2. CASE sessions' = [sessions EXCEPT ![x.sid] = x.user] /\ jar' = x.sid
    <3>1. /\ sessions' \in [Sids -> Users \cup {None}]
          /\ \A i \in Sids : sessions'[i] # None => Known(sessions'[i], mix)
      BY <1>0, <1>2, <2>2 DEF StoreOK
    <3> QED BY <1>0, <1>2, <2>2, <3>1 DEF StoreOK, GroupsOf, Known
  <2> QED BY <1>3, <2>1, <2>2
<1>5. RequestOK(At(x, "groups"), mix, boot, Snapshot)
  <2> DEFINE y == At(x, "groups")
  <2>1. /\ Shape(y) /\ y.pc = "groups" /\ y.req = x.req /\ y.user = x.user /\ y.groups = x.groups
        /\ y.uac = x.uac /\ y.saw = x.saw
    BY <1>1, Goes DEF RequestOK
  <2> HIDE DEF y
  <2>2. RequestOK(y, mix, boot, Snapshot)
    BY <1>1, <2>1 DEF RequestOK, Knows, Placed, Lives, Decided, Done, Working
  <2> QED BY <2>2 DEF y
<1>6. RequestOK(Over(x, {}), mix, boot, Snapshot)
  BY <1>1, FailsOK
<1>7. RequestsOK'
  BY <1>0, <1>3, <1>5, <1>6, OneRequest
<1> QED BY <1>0, <1>4, <1>7, ConfStays DEF GatewayInv

\* The groups are recorded.
LEMMA GroupsKeeps ==
    ASSUME GatewayInv, NEW s \in Slots, SetUserGroups(s)
    PROVE  GatewayInv'
<1> DEFINE x == q[s]
           p == IF x.req.route = "callback" THEN "done" ELSE "base"
<1>0. /\ ConfOK /\ StoreOK /\ RequestsOK /\ UNCHANGED conf /\ mix' = mix
      /\ UNCHANGED <<keys, sessions, jar, oauth, expiring, tags, holders>>
  BY DEF GatewayInv, SetUserGroups, conf
<1>1. RequestOK(x, mix, boot, Snapshot) /\ x.pc = "groups"
  BY <1>0 DEF RequestsOK, SetUserGroups
<1>2. x.user \in Users /\ Known(x.user, mix) /\ x.groups \in GroupsOf(x.user)
  BY <1>1 DEF RequestOK, Knows
<1>3. \/ /\ profile' = [profile EXCEPT ![x.user] = x.groups]
         /\ q' = [q EXCEPT ![s] = At(x, p)]
      \/ /\ UNCHANGED profile /\ q' = [q EXCEPT ![s] = Over(x, {})]
  BY DEF SetUserGroups, At, Over, End
<1> HIDE DEF x
<1>4. StoreOK'
  <2>1. CASE UNCHANGED profile
    BY <1>0, <2>1, StoreStays DEF store
  <2>2. CASE profile' = [profile EXCEPT ![x.user] = x.groups]
    <3>1. /\ profile' = [u \in Users |-> profile'[u]]
          /\ \A u \in Users : profile'[u] # None => profile'[u] \in GroupsOf(u) /\ Known(u, mix)
      BY <1>0, <1>2, <2>2 DEF StoreOK
    <3> QED BY <1>0, <1>2, <2>2, <3>1 DEF StoreOK, GroupsOf, Known
  <2> QED BY <1>3, <2>1, <2>2
<1>5. RequestOK(At(x, p), mix, boot, Snapshot)
  <2> DEFINE y == At(x, p)
  <2>1. /\ Shape(y) /\ y.pc = p /\ y.req = x.req /\ y.user = x.user /\ y.groups = x.groups
        /\ y.uac = x.uac /\ y.saw = x.saw
    BY <1>1, Goes DEF RequestOK
  <2> HIDE DEF y
  <2>2. RequestOK(y, mix, boot, Snapshot)
    BY <1>1, <2>1 DEF RequestOK, Knows, Placed, Lives, Decided, Done, Working, DistRoutes
  <2> QED BY <2>2 DEF y
<1>6. RequestOK(Over(x, {}), mix, boot, Snapshot)
  BY <1>1, FailsOK
<1>7. RequestsOK'
  BY <1>0, <1>3, <1>5, <1>6, OneRequest
<1> QED BY <1>0, <1>4, <1>7, ConfStays DEF GatewayInv

\* BaseAuthzHandler notes the access control in force.
Noted(x, p, u) == [x EXCEPT !.uac = u, !.pc = p]

\* The request, with the access control noted.
LEMMA NotedIs ==
    ASSUME NEW x, Shape(x), NEW p, NEW u, NEW y, y = Noted(x, p, u)
    PROVE  /\ Shape(y) /\ y.pc = p /\ y.req = x.req /\ y.user = x.user /\ y.groups = x.groups
           /\ y.kind = x.kind /\ y.uac = u /\ y.saw = x.saw
BY DEF Noted, Shape

\* The request goes on to the next middleware, or to its handler.
LEMMA BaseKeeps ==
    ASSUME GatewayInv, NEW s \in Slots, BaseAuthzHandler(s)
    PROVE  GatewayInv'
<1> DEFINE x == q[s]
           u == IF ~boot.authz \/ x.kind = "Bearer" \/ x.req.route \in {"base", "metrics"}
                THEN None ELSE Snapshot
           p == IF x.req.route \in DistRoutes THEN "dist" ELSE "serve"
           y == Noted(x, p, u)
<1>0. ConfOK /\ StoreOK /\ RequestsOK /\ UNCHANGED conf /\ UNCHANGED store /\ mix' = mix
  BY DEF GatewayInv, BaseAuthzHandler, conf
<1>1. RequestOK(x, mix, boot, Snapshot) /\ x.pc = "base"
  BY <1>0 DEF RequestsOK, BaseAuthzHandler
<1>2. q' = [q EXCEPT ![s] = y]
  BY DEF BaseAuthzHandler, Noted
<1>3. u # None => \E c \in Configs : u.ac = c.ac
  BY <1>0 DEF ConfOK, Snapshot
<1> HIDE DEF x, u
<1>4. /\ Shape(y) /\ y.pc = p /\ y.req = x.req /\ y.user = x.user /\ y.groups = x.groups
      /\ y.kind = x.kind /\ y.uac = u /\ y.saw = x.saw
  BY <1>1, NotedIs DEF RequestOK
<1> HIDE DEF y
<1>5. RequestOK(y, mix, boot, Snapshot)
  BY <1>1, <1>3, <1>4 DEF RequestOK, Knows, Placed, Lives, Decided, Done, Working, DistRoutes
<1>6. RequestsOK'
  BY <1>0, <1>2, <1>5, OneRequest
<1> QED BY <1>0, <1>6, ConfStays, StoreStays DEF GatewayInv

\* DistSpecAuthzHandler decides under the access control in force, which the request has seen.
Passed(x, C) == [x EXCEPT !.pc = "serve", !.checks = C]

\* The request, with its checks passed.
LEMMA PassedIs ==
    ASSUME NEW x, Shape(x), NEW C, NEW y, y = Passed(x, C)
    PROVE  /\ Shape(y) /\ y.pc = "serve" /\ y.req = x.req /\ y.user = x.user /\ y.groups = x.groups
           /\ y.kind = x.kind /\ y.uac = x.uac /\ y.checks = C /\ y.saw = x.saw
BY DEF Passed, Shape

\* A request that passes is entitled to its checks.
LEMMA DistKeeps ==
    ASSUME GatewayInv, NEW s \in Slots, DistSpecAuthzHandler(s)
    PROVE  GatewayInv'
<1> DEFINE x == q[s]
           C == Checks(x.req)
           y == Passed(x, C)
           w == Snapshot
           granted == ~boot.authz \/ x.kind = "Bearer"
                      \/ \A c \in C : TRUE \in can(w.ac, w.compiled, x.user, x.groups, c[1], x.req.repo, c[2])
<1>0. ConfOK /\ StoreOK /\ RequestsOK /\ UNCHANGED conf /\ UNCHANGED store /\ mix' = mix
  BY DEF GatewayInv, DistSpecAuthzHandler, conf
<1>1. RequestOK(x, mix, boot, w) /\ x.pc = "dist"
  BY <1>0 DEF RequestsOK, DistSpecAuthzHandler
<1>2. (granted /\ q' = [q EXCEPT ![s] = y]) \/ q' = [q EXCEPT ![s] = Over(x, {})]
  <2>1. w.ac = cfg.ac /\ w.compiled = compiled
    BY DEF Snapshot
  <2> QED BY <2>1 DEF DistSpecAuthzHandler, Passed, Over, End
<1>3. DOMAIN w.ac.repos \subseteq Patterns
  BY <1>0, GatewayAssumption DEF ConfOK, Configs, Snapshot
<1>4. x.req.route = "write" => \A t \in Targets(x.req) : \E c \in C : c[2] = t
  <2>1. x.req.route = "write" => C = WriteChecks(tags[x.req.repo], x.req)
    BY DEF Checks, WriteChecks
  <2> HIDE DEF C, x
  <2> QED BY <2>1, ChecksName
<1> HIDE DEF x, C, w
<1>5. ASSUME granted PROVE RequestOK(y, mix, boot, w)
  <2>1. /\ Shape(y) /\ y.pc = "serve" /\ y.req = x.req /\ y.user = x.user /\ y.groups = x.groups
        /\ y.kind = x.kind /\ y.uac = x.uac /\ y.checks = C /\ y.saw = x.saw
    BY <1>1, PassedIs DEF RequestOK
  <2> HIDE DEF y
  <2>2. w \in y.saw
    BY <1>1, <2>1 DEF RequestOK, Lives, Working
  <2>3. boot.authz /\ x.kind # "Bearer" => Entitled(y)
    <3>1. SUFFICES ASSUME boot.authz, x.kind # "Bearer" PROVE \A c \in C : Grants(w, y, c)
      BY <2>1, <2>2 DEF Entitled
    <3>2. \A c \in C : TRUE \in can(w.ac, w.compiled, y.user, y.groups, c[1], y.req.repo, c[2])
      BY <1>5, <2>1, <3>1
    <3> QED BY <1>3, <3>2, CanGrants
  <2>4. x.req.route = "write" => Covered(y)
    BY <1>4, <2>1 DEF Covered
  <2>5. Decided(y, boot)
    BY <2>1, <2>3, <2>4 DEF Decided
  <2> QED BY <1>1, <2>1, <2>2, <2>5 DEF RequestOK, Knows, Placed, Lives, Done, Working, DistRoutes
<1>6. RequestOK(Over(x, {}), mix, boot, w)
  BY <1>1, FailsOK
<1>7. RequestsOK'
  <2>1. \E z : q' = [q EXCEPT ![s] = z] /\ RequestOK(z, mix, boot, w)
    BY <1>2, <1>5, <1>6
  <2> QED BY <1>0, <2>1, OneRequest DEF w
<1> QED BY <1>0, <1>7, ConfStays, StoreStays DEF GatewayInv

\* The catalog lists what the user may read.
LEMMA CatalogLists ==
    ASSUME NEW x, Shape(x), x.uac # None, \E c \in Configs : x.uac.ac = c.ac, NEW L \in SUBSET Repos,
           \A r \in Repos : (r \in L) \in Can(x.uac.ac, x.user, x.groups, "read", r),
           NEW y, y = Over(x, L)
    PROVE  Lists(y)
<1>1. y.uac = x.uac /\ y.user = x.user /\ y.groups = x.groups /\ y.result = L
  BY Ends
<1>2. DOMAIN x.uac.ac.repos \subseteq Patterns
  BY GatewayAssumption DEF Configs
<1>3. ASSUME NEW repo \in Repos, NEW ref,
             Cardinality(LongestMatches(DOMAIN x.uac.ac.repos, repo)) <= 1,
             TRUE \in can(x.uac.ac, x.uac.compiled, x.user, x.groups, "read", repo, ref)
      PROVE  repo \in L
  <2>1. Can(x.uac.ac, x.user, x.groups, "read", repo) = {TRUE}
    BY <1>2, <1>3, Listed
  <2> QED BY <2>1
<1> QED BY <1>1, <1>3 DEF Lists

\* The handlers do what was checked.
LEMMA ServeKeeps ==
    ASSUME GatewayInv, NEW s \in Slots, Serve(s)
    PROVE  GatewayInv'
<1> DEFINE x == q[s]
           r == x.req
<1>0. /\ ConfOK /\ StoreOK /\ RequestsOK /\ UNCHANGED conf /\ mix' = mix
      /\ UNCHANGED <<profile, keys, sessions, jar, oauth, expiring>>
  BY DEF GatewayInv, Serve, conf
<1>1. RequestOK(x, mix, boot, Snapshot) /\ x.pc = "serve"
  BY <1>0 DEF RequestsOK, Serve
<1>2. x.pc \in Working /\ r \in mix.requests
  BY <1>1 DEF RequestOK, Placed, Working
<1>3. r.repo \in Repos
  BY <1>0, <1>2, RequestIs DEF IsRequest
<1>4. ASSUME NEW R, q' = [q EXCEPT ![s] = Over(x, R)],
             r.route = "write" => R = {} \/ (WriteOK(r) /\ R = NewTags(r) \cup {r.ref}),
             r.route = "catalog" => R \in Filter(s)
      PROVE  RequestsOK'
  <2>1. r.route = "write" => \A t \in R : \E c \in x.checks : c[2] = t
    <3>1. r.route = "write" => Covered(x)
      BY <1>1 DEF RequestOK, Decided
    <3>2. r.route = "write" => R \subseteq Targets(r)
      BY <1>4 DEF WriteOK, NewTags, Targets
    <3> QED BY <3>1, <3>2 DEF Covered
  <2>2. r.route = "catalog" /\ x.uac # None => Lists(Over(x, R))
    <3>1. SUFFICES ASSUME r.route = "catalog", x.uac # None PROVE Lists(Over(x, R))
      OBVIOUS
    <3>2. /\ R \in SUBSET Repos
          /\ \A repo \in Repos : (repo \in R) \in Can(x.uac.ac, x.user, x.groups, "read", repo)
      BY <1>4, <3>1 DEF Filter
    <3>3. Shape(x) /\ \E c \in Configs : x.uac.ac = c.ac
      BY <1>1, <3>1 DEF RequestOK, Placed
    <3> HIDE DEF x
    <3> QED BY <3>1, <3>2, <3>3, CatalogLists
  <2> HIDE DEF x
  <2>3. RequestOK(Over(x, R), mix, boot, Snapshot)
    BY <1>1, <1>2, <2>1, <2>2, EndOK
  <2> QED BY <1>0, <1>4, <2>3, OneRequest
<1>5. CASE r.route = "catalog" /\ (\E L \in Filter(s) : q' = [q EXCEPT ![s] = End(s, L)]) /\ UNCHANGED <<tags, holders>>
  <2>1. RequestsOK'
    BY <1>4, <1>5 DEF End, Over
  <2> QED BY <1>0, <1>5, <2>1, ConfStays, StoreStays DEF GatewayInv, store
<1>6. CASE /\ r.route = "write" /\ WriteOK(r) /\ UNCHANGED holders
           /\ tags' = [tags EXCEPT ![r.repo] = @ \cup NewTags(r)]
           /\ q' = [q EXCEPT ![s] = End(s, NewTags(r) \cup {r.ref})]
  <2>1. RequestsOK'
    BY <1>4, <1>6 DEF End, Over
  <2>2. NewTags(r) \subseteq Tags
    BY <1>6 DEF NewTags, WriteOK
  <2>3. tags' \in [Repos -> SUBSET Tags]
    BY <1>0, <1>3, <1>6, <2>2 DEF StoreOK
  <2>4. StoreOK'
    BY <1>0, <1>6, <2>3 DEF StoreOK, GroupsOf, Known
  <2> QED BY <1>0, <2>1, <2>4, ConfStays DEF GatewayInv
<1>7. CASE /\ r.route = "delete" /\ UNCHANGED holders
           /\ tags' = [tags EXCEPT ![r.repo] = @ \ {r.ref}]
           /\ q' = [q EXCEPT ![s] = End(s, {r.ref})]
  <2>1. RequestsOK'
    BY <1>4, <1>7 DEF End, Over
  <2>3. tags' \in [Repos -> SUBSET Tags]
    BY <1>0, <1>3, <1>7 DEF StoreOK
  <2>4. StoreOK'
    BY <1>0, <1>7, <2>3 DEF StoreOK, GroupsOf, Known
  <2> QED BY <1>0, <2>1, <2>4, ConfStays DEF GatewayInv
<1>8. CASE /\ r.route = "mount" /\ UNCHANGED tags /\ holders' \subseteq holders \cup {r.repo}
           /\ \E R : q' = [q EXCEPT ![s] = End(s, R)]
  <2>1. RequestsOK'
    BY <1>4, <1>8 DEF End, Over
  <2>2. holders' \subseteq Repos
    BY <1>0, <1>3, <1>8 DEF StoreOK
  <2>3. StoreOK'
    BY <1>0, <1>8, <2>2 DEF StoreOK, GroupsOf, Known
  <2> QED BY <1>0, <2>1, <2>3, ConfStays DEF GatewayInv
<1>9. CASE /\ UNCHANGED <<tags, holders>>
           /\ \/ r.route = "write" /\ q' = [q EXCEPT ![s] = End(s, {})]
              \/ /\ r.route \in {"read", "base", "metrics"}
                 /\ \E R : q' = [q EXCEPT ![s] = End(s, R)]
  <2>1. RequestsOK'
    BY <1>4, <1>9 DEF End, Over
  <2> QED BY <1>0, <1>9, <2>1, ConfStays, StoreStays DEF GatewayInv, store
<1> QED BY <1>5, <1>6, <1>7, <1>8, <1>9 DEF Serve

\* A credential of this server is not proxied.
LEMMA TokenKeeps ==
    ASSUME GatewayInv, NEW s \in Slots, NEW r \in mix.requests, TokenExchangeHandler(s, r)
    PROVE  GatewayInv'
<1> DEFINE R == IF boot.bearer /\ boot.methods \cap {"oidc", "apikey"} # {} THEN {TokenResult(r.query)} ELSE {}
           z == Begin(r, "done")
           y == [z EXCEPT !.result = R]
<1>0. ConfOK /\ StoreOK /\ RequestsOK /\ UNCHANGED conf /\ UNCHANGED store /\ mix' = mix
  BY DEF GatewayInv, TokenExchangeHandler, conf
<1>1. q' = [q EXCEPT ![s] = y] /\ r.route = "token"
  BY DEF TokenExchangeHandler
<1>2. "proxied" \in R => r.query \subseteq {"foreign", "oidcRight", "oidcWrong", "openid"}
  <2>1. r.query \subseteq Credentials
    BY <1>0, <1>1, RequestIs DEF IsRequest
  <2>2. "proxied" \in R => \A c \in r.query : ~localOwner(c)
    BY DEF TokenResult
  <2> QED BY <2>1, <2>2 DEF localOwner, Credentials
<1> HIDE DEF R
<1>3. Shape(z) /\ z.pc = "done" /\ z.req = r /\ z.uac = None /\ z.user = Anonymous
  BY BeginIs
<1> HIDE DEF z
<1>4. Shape(y) /\ y.pc = "done" /\ y.req = r /\ y.uac = None /\ y.user = Anonymous /\ y.result = R
  BY <1>3 DEF Shape
<1> HIDE DEF y
<1>5. RequestOK(y, mix, boot, Snapshot)
  BY <1>1, <1>2, <1>4, GatewayAssumption
     DEF RequestOK, Knows, Placed, Lives, Decided, Done, Working, DistRoutes
<1>6. RequestsOK'
  BY <1>0, <1>1, <1>5, OneRequest
<1> QED BY <1>0, <1>6, ConfStays, StoreStays DEF GatewayInv

\* Sessions, keys and cookies come and go; the requests stay as they are.
LEMMA StoreKeeps ==
    ASSUME GatewayInv,
           \/ \E lost \in BOOLEAN : Logout(lost)
           \/ \E k \in Keys : RevokeAPIKey(k)
           \/ \E st \in States : AuthURLHandler(st)
           \/ getExpiredSessions \/ CleanTask
    PROVE  GatewayInv'
<1>0. /\ ConfOK /\ StoreOK /\ RequestsOK /\ UNCHANGED conf /\ mix' = mix /\ q' = q
      /\ UNCHANGED <<profile, tags, holders>>
  BY DEF GatewayInv, conf, Logout, RevokeAPIKey, AuthURLHandler, getExpiredSessions, CleanTask
<1>1. /\ sessions' \in [Sids -> Users \cup {None}] /\ \A x \in Sids : sessions'[x] \in {sessions[x], None}
      /\ keys' \in [Keys -> Users \cup {None}] /\ jar' \in Sids \cup {None}
      /\ oauth' \in States \cup {None} /\ expiring' \subseteq Sids
  <2>1. CASE \E lost \in BOOLEAN : Logout(lost)
    BY <1>0, <2>1 DEF Logout, StoreOK
  <2>2. CASE \E k \in Keys : RevokeAPIKey(k)
    BY <1>0, <2>2 DEF RevokeAPIKey, StoreOK
  <2>3. CASE \E st \in States : AuthURLHandler(st)
    BY <1>0, <2>3 DEF AuthURLHandler, StoreOK
  <2>4. CASE getExpiredSessions
    BY <1>0, <2>4 DEF getExpiredSessions, StoreOK
  <2>5. CASE CleanTask
    BY <1>0, <2>5 DEF CleanTask, StoreOK
  <2> QED BY <2>1, <2>2, <2>3, <2>4, <2>5
<1>2. StoreOK'
  <2>1. \A x \in Sids : sessions'[x] # None => Known(sessions'[x], mix)
    BY <1>0, <1>1 DEF StoreOK
  <2> QED BY <1>0, <1>1, <2>1 DEF StoreOK, GroupsOf, Known
<1>3. RequestsOK'
  <2>1. Snapshot' = Snapshot /\ boot' = boot
    BY <1>0 DEF Snapshot, conf
  <2> QED BY <1>0, <2>1 DEF RequestsOK
<1> QED BY <1>0, <1>2, <1>3, ConfStays DEF GatewayInv

\* Every request on its way sees the new access control.
Seen(x, f) == [x EXCEPT !.saw = @ \cup {f}]

\* It stays entitled to what it was.
LEMMA SeenOK ==
    ASSUME NEW m, NEW b, NEW w, NEW f, NEW x, RequestOK(x, m, b, w), x.pc \in Working
    PROVE  RequestOK(Seen(x, f), m, b, f)
<1> DEFINE y == Seen(x, f)
<1>1. /\ Shape(y) /\ y.pc = x.pc /\ y.req = x.req /\ y.user = x.user /\ y.groups = x.groups /\ y.kind = x.kind
      /\ y.sid = x.sid /\ y.uac = x.uac /\ y.checks = x.checks /\ y.result = x.result /\ y.saw = x.saw \cup {f}
  BY DEF RequestOK, Shape, Seen
<1> HIDE DEF y
<1>2. Knows(y, m) /\ Placed(y, m) /\ Lives(y, f)
  BY <1>1 DEF RequestOK, Knows, Placed, Lives
<1>3. Entitled(x) => Entitled(y)
  BY <1>1, SameEntitled
<1>4. Covered(x) => Covered(y)
  BY <1>1 DEF Covered
<1>5. Decided(y, b) /\ Done(y, b)
  BY <1>1, <1>3, <1>4 DEF RequestOK, Decided, Done, Working
<1>6. RequestOK(y, m, b, f)
  BY <1>1, <1>2, <1>5 DEF RequestOK
<1> QED BY <1>6 DEF y

\* A request that is not on its way sees nothing.
LEMMA IdleOK ==
    ASSUME NEW m, NEW b, NEW w, NEW f, NEW x, RequestOK(x, m, b, w), x.pc \in {"idle", "done"}
    PROVE  RequestOK(x, m, b, f)
BY DEF RequestOK, Lives, Working

\* All requests.
LEMMA SeeKeeps ==
    ASSUME RequestsOK, mix' = mix, boot' = boot, q' = See(Snapshot')
    PROVE  RequestsOK'
<1> DEFINE f == Snapshot'
<1>1. \A s \in Slots : q'[s] = IF q[s].pc \in {"idle", "done"} THEN q[s] ELSE Seen(q[s], f)
  BY DEF See, Seen
<1>2. q' = [s \in Slots |-> q'[s]]
  BY DEF See
<1> HIDE DEF f
<1>3. ASSUME NEW s \in Slots PROVE RequestOK(q'[s], mix, boot, f)
  <2>1. RequestOK(q[s], mix, boot, Snapshot)
    BY DEF RequestsOK
  <2>2. CASE q[s].pc \in {"idle", "done"}
    BY <1>1, <2>1, <2>2, IdleOK
  <2>3. CASE q[s].pc \notin {"idle", "done"}
    <3>1. q[s].pc \in Working
      BY <2>1, <2>3 DEF RequestOK, Placed
    <3> QED BY <1>1, <2>1, <2>3, <3>1, SeenOK
  <2> QED BY <2>2, <2>3
<1> QED BY <1>2, <1>3 DEF RequestsOK, f

\* The configuration is reloaded.
LEMMA ReloadKeeps ==
    ASSUME GatewayInv, (\E c \in mix.configs : UpdateReloadableConfig(c)) \/ StoreCompiledConditions \/ ChangeHTPasswd
    PROVE  GatewayInv'
<1>0. ConfOK /\ StoreOK /\ RequestsOK /\ UNCHANGED store /\ mix' = mix /\ boot' = boot
  BY DEF GatewayInv, UpdateReloadableConfig, StoreCompiledConditions, ChangeHTPasswd
<1>1. CASE \E c \in mix.configs : UpdateReloadableConfig(c)
  <2>1. PICK c \in mix.configs : UpdateReloadableConfig(c)
    BY <1>1
  <2>2. c \in Configs
    BY <1>0 DEF ConfOK, Configs
  <2>3. cfg'.ac = c.ac /\ cfg'.methods \subseteq cfg.methods \cup c.methods /\ credsOn' = credsOn /\ reload' = "compile"
    BY <2>1 DEF UpdateReloadableConfig, Reloaded
  <2>4. ConfOK'
    BY <1>0, <2>2, <2>3 DEF ConfOK, Configs
  <2>5. q' = See(Snapshot')
    BY <2>1, <2>3 DEF UpdateReloadableConfig, Snapshot
  <2> QED BY <1>0, <2>4, <2>5, SeeKeeps, StoreStays DEF GatewayInv
<1>2. CASE StoreCompiledConditions
  <2>1. ConfOK'
    BY <1>0, <1>2 DEF ConfOK, StoreCompiledConditions, Configs
  <2>2. q' = See(Snapshot')
    BY <1>2 DEF StoreCompiledConditions, Snapshot
  <2> QED BY <1>0, <2>1, <2>2, SeeKeeps, StoreStays DEF GatewayInv
<1>3. CASE ChangeHTPasswd
  <2>1. ConfOK'
    BY <1>0, <1>3 DEF ConfOK, ChangeHTPasswd, Configs, Enabled
  <2>2. q' = q /\ Snapshot' = Snapshot
    BY <1>3 DEF ChangeHTPasswd, Snapshot
  <2>3. RequestsOK'
    BY <1>0, <2>2 DEF RequestsOK
  <2> QED BY <1>0, <2>1, <2>3, StoreStays DEF GatewayInv
<1> QED BY <1>1, <1>2, <1>3

-----------------------------------------------------------------------------
(* What a request gets.                                                      *)

\* Every step keeps the invariant.
LEMMA NextKeeps == GatewayInv /\ [Next]_vars => GatewayInv'
<1> SUFFICES ASSUME GatewayInv, [Next]_vars PROVE GatewayInv'
  OBVIOUS
<1>1. CASE Next
  <2>1. CASE \E s \in Slots, r \in mix.requests : Authn(s, r) \/ TokenExchangeHandler(s, r) \/ OAuth2Callback(s, r)
    BY <2>1, AuthnKeeps, TokenKeeps, CallbackKeeps
  <2>2. CASE \E s \in Slots : \/ saveUserLoggedSession(s) \/ SetUserGroups(s)
                              \/ BaseAuthzHandler(s) \/ DistSpecAuthzHandler(s) \/ Serve(s)
    BY <2>2, SaveKeeps, GroupsKeeps, BaseKeeps, DistKeeps, ServeKeeps
  <2>3. CASE (\E c \in mix.configs : UpdateReloadableConfig(c)) \/ StoreCompiledConditions \/ ChangeHTPasswd
    BY <2>3, ReloadKeeps
  <2>4. CASE \/ \E lost \in BOOLEAN : Logout(lost)
             \/ \E k \in Keys : RevokeAPIKey(k)
             \/ \E st \in States : AuthURLHandler(st)
             \/ getExpiredSessions \/ CleanTask
    BY <2>4, StoreKeeps
  <2> QED BY <1>1, <2>1, <2>2, <2>3, <2>4 DEF Next
<1>2. CASE UNCHANGED vars
  <2>1. UNCHANGED conf /\ UNCHANGED store /\ q' = q /\ mix' = mix /\ boot' = boot /\ Snapshot' = Snapshot
    BY <1>2 DEF vars, conf, store, Snapshot
  <2>2. RequestsOK'
    BY <2>1 DEF GatewayInv, RequestsOK
  <2> QED BY <2>1, <2>2, ConfStays, StoreStays DEF GatewayInv
<1> QED BY <1>1, <1>2

\* Each part of AccessSound follows from the invariant.
LEMMA InvTypes ==
    ASSUME GatewayInv
    PROVE  TypeOK
<1> DEFINE V(u) == LdapGroups[u] \cup OidcGroups[u] \cup UNION {getUserGroups(c.ac, u) : c \in Configs}
<1>1. ASSUME NEW u \in Users, NEW g \in GroupsOf(u) PROVE g \subseteq V(u)
  BY <1>1 DEF GroupsOf
<1>2. ASSUME NEW u \in Users PROVE profile[u] = None \/ profile[u] \subseteq UNION {V(v) : v \in Users}
  <2>1. profile[u] = None \/ profile[u] \subseteq V(u)
    BY <1>1 DEF GatewayInv, StoreOK
  <2> HIDE DEF V
  <2> QED BY <2>1
<1>3. profile \in [Users -> {None} \cup SUBSET UNION {V(u) : u \in Users}]
  <2> HIDE DEF V
  <2> QED BY <1>2 DEF GatewayInv, StoreOK
<1>4. \A s \in Slots : q[s].pc \in {"idle", "session", "groups", "base", "dist", "serve", "done"}
  BY DEF GatewayInv, RequestsOK, RequestOK, Placed, Working
<1> QED BY <1>3, <1>4 DEF TypeOK, GatewayInv, ConfOK, StoreOK

\* ServedEntitled.
LEMMA InvServed ==
    ASSUME GatewayInv
    PROVE  ServedEntitled
<1> SUFFICES ASSUME NEW s \in Slots, q[s].pc = "done", q[s].result # {}, q[s].req.route \in DistRoutes,
                    boot.authz, q[s].kind # "Bearer"
             PROVE  Entitled(q[s])
  BY DEF ServedEntitled, Entitled, Grants
<1> QED BY DEF GatewayInv, RequestsOK, RequestOK, Done

\* WritesAuthorized and OwnedNeverProxied.
LEMMA InvWrites ==
    ASSUME GatewayInv
    PROVE  WritesAuthorized /\ OwnedNeverProxied
BY DEF WritesAuthorized, OwnedNeverProxied, GatewayInv, RequestsOK, RequestOK, Done

\* NoUnderListing.
LEMMA InvLists ==
    ASSUME GatewayInv
    PROVE  NoUnderListing
<1> SUFFICES ASSUME NEW s \in Slots, q[s].pc = "done", q[s].req.route = "catalog", q[s].uac # None
             PROVE  Lists(q[s])
  BY DEF NoUnderListing, Lists
<1> QED BY DEF GatewayInv, RequestsOK, RequestOK, Done

\* GroupsOwn and IdentityProven.
LEMMA InvIdentity ==
    ASSUME GatewayInv
    PROVE  GroupsOwn /\ IdentityProven
<1>1. GroupsOwn
  BY DEF GatewayInv, StoreOK, RequestsOK, RequestOK, Knows, GroupsOwn
<1>2. IdentityProven
  <2> SUFFICES ASSUME NEW u \in Users, ~Known(u, mix)
               PROVE  /\ \A x \in Sids : sessions[x] # u
                      /\ \A s \in Slots : q[s].user # u
                      /\ profile[u] = None
    BY DEF IdentityProven, Known
  <2>1. \A x \in Sids : sessions[x] # u
    BY GatewayAssumption DEF GatewayInv, StoreOK
  <2>2. \A s \in Slots : q[s].user # u
    BY DEF GatewayInv, RequestsOK, RequestOK, Knows
  <2>3. profile[u] = None
    BY DEF GatewayInv, StoreOK
  <2> QED BY <2>1, <2>2, <2>3
<1> QED BY <1>1, <1>2

\* For any policies, users and credentials, whatever is reloaded while requests are on their way and
\* whoever logs in or out meanwhile: a request did only what a longest pattern or the admin policy
\* of one access control it has seen grants, wrote only tags it was checked for, was not refused a
\* repository in the catalog that it may read, spoke for a user who proved it with groups of his
\* own, and no credential of this server was handed to the upstream token server.
THEOREM AccessStaysSound == Spec => []AccessSound
<1>1. GatewayInv => AccessSound
  BY InvTypes, InvServed, InvWrites, InvLists, InvIdentity DEF AccessSound
<1> QED BY <1>1, InitOK, NextKeeps, PTL DEF Spec
=============================================================================
