----------------------------- MODULE ServerConfig -----------------------------
(***************************************************************************)
(* A configuration from the file to the running server: the defaults and   *)
(* the validation of pkg/cli/server/root.go, what the controller builds    *)
(* from an accepted configuration (storage.New, meta.New, the cookie       *)
(* store), and the fields a reload replaces                                *)
(* (Config.UpdateReloadableConfig).  A value is kept as far as some check  *)
(* or some construction tells it apart: a key that is required is "ok" or  *)
(* "bad", a key with a default can be "unset", a directory is the sequence *)
(* of its components, and the parameters of a cache driver are the set of  *)
(* what they are refused for.  Files are read successfully and services    *)
(* answer: what is asked is whether the accepted configuration makes sense.*)
(***************************************************************************)
EXTENDS Naturals, Sequences, FiniteSets

CONSTANTS FileConfigs,   \* configurations the server may be started with
          ReloadConfigs, \* configurations written while it runs
          Routes,        \* subpaths
          MaxReloads     \* bound on the reloads

VARIABLES phase,    \* file, accepted, refused, running, failed
          conf,     \* the configuration in force
          built,    \* what start-up built from it
          reloads

vars == <<phase, conf, built, reloads>>

Nothing == [stores |-> <<>>, meta |-> "none", cookies |-> FALSE]

Default == "default"
Stores(c) == {Default} \cup DOMAIN c.subs
Store(c, r) == IF r = Default THEN c.storage ELSE c.subs[r]

\* the root directory that is not set; made absolute, it is the working directory
NoRoot == <<"">>
StorageDrivers == {"local", "s3", "gcs", "azure"}

----------------------------------------------------------------------------
(* Feature tests (config.go, extensions/config/config.go).                 *)

IsSearchEnabled(c) == c.ext.search = "on"
IsCveScanningEnabled(c) == IsSearchEnabled(c) /\ c.ext.cve
IsUIEnabled(c) == c.ext.ui = "on"
IsSyncEnabled(c) == c.ext.sync \in {"dir", "nodir"}
IsOpenIDAuthEnabled(c) == c.auth.openid = "ok"
IsBasicAuthnEnabled(c) ==
    c.auth.htpasswd \/ c.auth.ldap # "off" \/ IsOpenIDAuthEnabled(c) \/ c.auth.apikey
IsMTLSAuthEnabled(c) == c.tls = "ca"      \* a key, a certificate and client CAs
IsRetentionEnabled(c) == \E r \in Stores(c) : Store(c, r).retention = "ok"
NeedsMetaDB(c) == IsSearchEnabled(c) \/ IsBasicAuthnEnabled(c) \/ c.ext.trust = "on"
                  \/ IsRetentionEnabled(c) \/ c.quota

----------------------------------------------------------------------------
(* applyDefaultValues: a section that is there without "enable" is enabled *)

DefaultExtensions(e) == [e EXCEPT !.search = IF @ = "unset" THEN "on" ELSE @,
                                  !.ui = IF @ = "unset" THEN "on" ELSE @,
                                  !.trust = IF @ = "unset" THEN "on" ELSE @]

\* remoteCache: on for a deduplicated remote store, off when a local database
\* is found beside a store that is not deduplicated
DefaultCache(s) ==
    [s EXCEPT !.remoteCache =
        CASE s.driver # "local" /\ ~s.dedupe /\ s.bolt -> "no"
          [] s.driver # "local" /\ s.dedupe /\ @ = "unset" -> "yes"
          [] OTHER -> IF @ = "unset" THEN "no" ELSE @]

\* the delays: none without garbage collection, the default with it
DefaultDelays(s) == [s EXCEPT !.gcDelay = IF @ # "unset" THEN @ ELSE IF s.gc THEN "pos" ELSE "zero"]

applyDefaultValues(c) ==
    [c EXCEPT !.ext = DefaultExtensions(@),
              !.storage = DefaultDelays(DefaultCache(@)),
              !.subs = [r \in DOMAIN @ |-> DefaultDelays(DefaultCache(@[r]))],
              !.auth.apikey = @ \/ c.auth.openid # "off"]

\* updateLDAPConfig, updateOpenIDConfig, loadSessionKeys read their files
SecretsRead(c) == c.auth.secrets = "ok"

----------------------------------------------------------------------------
(* The validation, one operator per function.                              *)

validateHTTP(c) == c.port = "ok"
validateLDAP(c) == c.auth.ldap # "incomplete"
validateMTLS(c) == c.auth.mtls # "off" => IsMTLSAuthEnabled(c) /\ c.auth.mtls # "bad"
validateOpenIDConfig(c) == c.auth.openid # "incomplete"
validateBearerConfig(c) == c.auth.bearer # "bad"
validateRemoteSessionStoreConfig(c) == c.auth.session \in {"none", "local", "redis"}
validateClusterConfig(c) == c.cluster # "bad"

validateGC(c) ==
    /\ c.storage.gcDelay # "neg"
    /\ \A r \in DOMAIN c.subs : c.subs[r].gc => c.subs[r].gcDelay = "pos"
    /\ \A r \in Stores(c) : Store(c, r).retention # "bad"     \* validateGCRules

validateSyncRegistry(c) == c.ext.registry = "ok"
validateSync(c) == c.ext.sync # "off" => validateSyncRegistry(c)

\* p lies strictly inside q
isPathInside(p, q) == Len(q) < Len(p) /\ SubSeq(p, 1, Len(q)) = q
pathsConflict(p, q) == p = q \/ isPathInside(p, q) \/ isPathInside(q, p)

validateStorageConfig(c) ==
    \A r, s \in Stores(c) : r # s /\ Store(c, r).driver = Store(c, s).driver =>
        ~pathsConflict(Store(c, r).root, Store(c, s).root)

DatabaseMissing(s) == /\ s.dedupe /\ s.driver # "local"
                      /\ s.remoteCache = "yes" /\ s.cache = "none"


\* the driver of the default store's cache may be redis, a subpath's may not
CacheDriverOK(s, allowed, local) ==
    s.cache # "none" /\ s.remoteCache = "yes" =>
        (s.driver = "local" => s.cache \in local) /\ s.cache \in allowed

validateCacheConfig(c) ==
    /\ ~DatabaseMissing(c.storage) /\ CacheDriverOK(c.storage, {"dynamodb", "redis"}, {"redis"})
    /\ \A r \in DOMAIN c.subs : /\ ~DatabaseMissing(c.subs[r])
                                /\ CacheDriverOK(c.subs[r], {"dynamodb"}, {})

validateExtensionsConfig(c) ==
    /\ c.ext.metrics = "ok" /\ c.ext.events = "ok" /\ c.ext.ignoreFile = "ok"
    /\ IsUIEnabled(c) => IsSearchEnabled(c)
    /\ IsCveScanningEnabled(c) => \A r \in Stores(c) : Store(c, r).driver = "local"

validateStorageConfigSection(c) ==
    \A r \in Stores(c) : LET s == Store(c, r) IN
        /\ s.redirect => s.driver # "local"
        /\ s.driver \in StorageDrivers
        /\ s.driver # "local" /\ IsSyncEnabled(c) => c.ext.sync = "dir"

validateAuthzPolicies(c) ==
    /\ \/ IsBasicAuthnEnabled(c) \/ IsMTLSAuthEnabled(c) \/ c.auth.bearer = "ok"
       \/ c.authz = "anonymous"
    /\ c.authz # "badcondition"

validateConfiguration(c) ==
    /\ validateHTTP(c) /\ validateGC(c) /\ validateLDAP(c) /\ validateMTLS(c)
    /\ validateOpenIDConfig(c) /\ validateBearerConfig(c) /\ validateSync(c)
    /\ validateStorageConfig(c) /\ validateCacheConfig(c)
    /\ validateRemoteSessionStoreConfig(c) /\ validateExtensionsConfig(c)
    /\ c.authz # "none" => validateAuthzPolicies(c)
    /\ validateStorageConfigSection(c)
    /\ c.authz # "badpattern"
    /\ validateClusterConfig(c)

LoadConfiguration(raw) ==
    LET c == applyDefaultValues(raw) IN
    [ok |-> raw.decodes /\ SecretsRead(raw) /\ validateConfiguration(c), conf |-> c]

----------------------------------------------------------------------------
(* What the controller builds.                                             *)

\* dedupe goes off where the file system has no hard links
Dedupes(s, links) == s.dedupe /\ (s.driver = "local" => links)

\* CreateCacheDatabaseDriver: the kind of the cache of a store, "error" when the
\* parameters of the driver do not do for a cache
CacheOf(s, links) ==
    CASE ~Dedupes(s, links) /\ s.driver = "local" -> "none"
      [] s.remoteCache # "yes" -> "boltdb"
      [] s.cache \notin {"dynamodb", "redis"} -> "none"
      [] "cache" \in s.refused -> "error"
      [] OTHER -> s.cache

\* storage.New and getSubStore
StoreOf(s, links) == [driver |-> s.driver, root |-> s.root, cache |-> CacheOf(s, links),
                      dedupe |-> Dedupes(s, links)]
StoresBuilt(c, links) ==
    /\ c.storage.root # NoRoot
    /\ \A r \in Stores(c) : /\ Store(c, r).driver \in StorageDrivers
                            /\ CacheOf(Store(c, r), links[r]) # "error"
    /\ \A r \in DOMAIN c.subs : c.subs[r].driver = "local" => c.subs[r].root # c.storage.root

\* meta.New: it panics or returns an error when the parameters do not do
MetaOf(s) == CASE s.remoteCache # "yes" -> "boltdb"
               [] s.cache \notin {"dynamodb", "redis"} \/ "meta" \in s.refused -> "error"
               [] OTHER -> s.cache

\* InitMetaDB
InitMetaDB(c) == IF NeedsMetaDB(c) THEN MetaOf(c.storage) ELSE "none"

\* initCookieStore, NewCookieStore
CookiesBuilt(c) == IsBasicAuthnEnabled(c)
CookiesFail(c) == IsBasicAuthnEnabled(c) /\ c.auth.session \notin {"none", "local", "redis"}

----------------------------------------------------------------------------
(* Config.UpdateReloadableConfig.                                          *)

ReloadStore(c, old, new) ==
    [old EXCEPT !.gc = new.gc, !.dedupe = new.dedupe, !.redirect = new.redirect,
                !.gcDelay = new.gcDelay,
                !.retention = IF IsRetentionEnabled(c) THEN new.retention ELSE @]

\* the extensions: a file without the section takes all of them away
NoExtensions(e) == [e EXCEPT !.present = FALSE, !.search = "off", !.cve = FALSE, !.ui = "off",
                             !.trust = "off", !.sync = "off"]
ReloadExtensions(e, n) ==
    IF ~n.present THEN NoExtensions(e)
    ELSE [e EXCEPT !.present = TRUE, !.sync = n.sync, !.registry = n.registry,
                   !.events = n.events,
                   !.cve = IF n.cve /\ e.search # "on" THEN @ ELSE n.cve]

\* c1: the default store is replaced first, and whether retention is enabled
\* is asked again for each subpath
UpdateReloadableConfig(c, n) ==
    LET c1 == [c EXCEPT !.storage = ReloadStore(c, @, n.storage)] IN
    [c1 EXCEPT !.subs = [r \in DOMAIN @ |-> IF r \in DOMAIN n.subs
                                            THEN ReloadStore(c1, @[r], n.subs[r]) ELSE @[r]],
               !.auth = IF @.present /\ n.auth.present
                        THEN [n.auth EXCEPT !.bearer = c.auth.bearer, !.session = c.auth.session]
                        ELSE @,
               !.authz = n.authz,
               !.ext = ReloadExtensions(@, n.ext)]

----------------------------------------------------------------------------
Init == phase = "file" /\ conf \in FileConfigs /\ built = Nothing /\ reloads = 0

Load == /\ phase = "file"
        /\ LET l == LoadConfiguration(conf) IN
           phase' = (IF l.ok THEN "accepted" ELSE "refused") /\ conf' = l.conf
        /\ UNCHANGED <<built, reloads>>

\* Controller.Init and Run
Boot == /\ phase = "accepted"
        /\ \E links \in [Stores(conf) -> BOOLEAN] :
              IF StoresBuilt(conf, links) /\ InitMetaDB(conf) # "error" /\ ~CookiesFail(conf)
              THEN /\ phase' = "running"
                   /\ built' = [stores |-> [r \in Stores(conf) |->
                                              StoreOf(Store(conf, r), links[r])],
                                meta |-> InitMetaDB(conf), cookies |-> CookiesBuilt(conf)]
              ELSE phase' = "failed" /\ UNCHANGED built
        /\ UNCHANGED <<conf, reloads>>

\* reloadConfig: a configuration that is refused changes nothing
Reload == /\ phase = "running" /\ reloads < MaxReloads
          /\ \E raw \in ReloadConfigs :
                LET l == LoadConfiguration(raw) IN
                l.ok /\ conf' = UpdateReloadableConfig(conf, l.conf)
          /\ reloads' = reloads + 1 /\ UNCHANGED <<phase, built>>

Next == Load \/ Boot \/ Reload
Spec == Init /\ [][Next]_vars

----------------------------------------------------------------------------
\* Every variable holds a value of the kind the code gives it.
TypeOK == /\ phase \in {"file", "accepted", "refused", "running", "failed"}
          /\ DOMAIN conf.subs \subseteq Routes /\ reloads \in 0..MaxReloads
          /\ built.meta \in {"none", "boltdb", "dynamodb", "redis"} /\ built.cookies \in BOOLEAN

\* What the validation accepts and cannot be built.  The checks of root.go cover
\* what storage.New, meta.New and NewCookieStore refuse but for three things the
\* validation never looks at: a root directory of the default store, the name of
\* a remote cache that is asked for, and the other parameters of a cache driver.
RemoteCacheAsked(s) == s.remoteCache = "yes" /\ s.cache \in {"dynamodb", "redis"}
AcceptedBoots ==
    phase = "failed" =>
        \/ conf.storage.root = NoRoot
        \/ conf.storage.remoteCache = "yes" /\ conf.storage.cache = "none"
        \/ \E r \in Stores(conf) : RemoteCacheAsked(Store(conf, r)) /\ Store(conf, r).refused # {}

\* No two local stores share files: the garbage collector and the deduplication
\* of one never see the blobs of the other.
StoresDisjoint ==
    \A r, s \in DOMAIN built.stores :
        LET p == built.stores[r]  q == built.stores[s] IN
        r # s /\ p.driver = "local" /\ q.driver = "local" =>
            \A n \in 0..Len(p.root) : SubSeq(p.root, 1, n) # q.root

\* A deduplicated remote store has a cache, and one that outlives the node
\* unless the operator turned the remote cache off.
DedupeHasCache ==
    \A r \in DOMAIN built.stores : built.stores[r].dedupe /\ built.stores[r].driver # "local" =>
        \/ built.stores[r].cache \in {"dynamodb", "redis"}
        \/ Store(conf, r).remoteCache = "no"

\* Whatever a reload switches on finds what start-up built: retention, search
\* and the UI never run without the MetaDB, whatever sections the new file has.
FeaturesFounded ==
    phase = "running" /\ (IsRetentionEnabled(conf) \/ IsSearchEnabled(conf) \/ IsUIEnabled(conf))
        => built.meta # "none"
===============================================================================
