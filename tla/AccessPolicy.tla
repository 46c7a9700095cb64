---------------------------- MODULE AccessPolicy ----------------------------
(***************************************************************************)
(* The decisions of the authorization layer (pkg/api/authz.go, the access  *)
(* control part of pkg/api/config/config.go and                            *)
(* pkg/requestcontext/user_access_control.go) as operators on a            *)
(* configuration.  They are used by Gateway, which takes requests through  *)
(* the middlewares.                                                        *)
(*                                                                         *)
(* An access control configuration is a record                             *)
(*   on       accessControl is present in the configuration                *)
(*   repos    pattern -> [policies, default, anonymous]                    *)
(*   admin    the admin policy                                             *)
(*   groups   group -> the users the configuration puts in it              *)
(*   metrics  [users, anonymous]                                           *)
(* and a policy is [users, groups, actions, conds].  A pattern is a model  *)
(* value; its length and the repositories it matches are constants, since  *)
(* only these two enter a decision.  A condition (a CEL expression) is a   *)
(* model value too; CondTrue and CondFails say for which <<repository,     *)
(* reference>> it is true and for which its evaluation fails.              *)
(***************************************************************************)
EXTENDS FiniteSets, Naturals

CONSTANTS Repos, Patterns, PatternLen, PatternMatches,
          CondTrue, CondFails, Anonymous

\* A policy that grants nothing to anybody, and no access control at all:
\* NewAccessController works on an empty configuration then.
NoPolicy == [users |-> {}, groups |-> {}, actions |-> {}, conds |-> {}]
EmptyAccess == [on |-> FALSE, repos |-> <<>>, admin |-> NoPolicy,
                groups |-> <<>>, metrics |-> [users |-> {}, anonymous |-> {}]]

\* MUTANT: any pattern that matches is taken, not the longest.
AnyMatch(patterns, repo) == {p \in patterns : repo \in PatternMatches[p]}

(***************************************************************************)
(* The configured patterns that match repo and are longest.  The code      *)
(* walks a Go map and keeps the first pattern of the greatest length: with *)
(* two of the same length either may be the one.                           *)
(***************************************************************************)
LongestMatches(patterns, repo) ==
  LET matching == {p \in patterns : repo \in PatternMatches[p]}
  IN  {p \in matching : \A q \in matching : PatternLen[p] >= PatternLen[q]}

(***************************************************************************)
(* Conditions.  ac.compiled holds the conditions StoreCompiledConditions   *)
(* has registered: one that is missing, or whose evaluation fails, does    *)
(* not grant.                                                              *)
(***************************************************************************)
policyConditionsMet(policy, compiled, repo, ref) ==
  \A c \in policy.conds : /\ c \in compiled
                          /\ <<repo, ref>> \notin CondFails[c]
                          /\ <<repo, ref>> \in CondTrue[c]

\* CompileAccessControl: every condition of every policy and of the admin's.
CompileAccessControl(ac) ==
  UNION {pol.conds : pol \in UNION {ac.repos[p].policies : p \in DOMAIN ac.repos}}
    \cup ac.admin.conds

isPermitted(pg, compiled, user, groups, action, repo, ref) ==
  \/ \E policy \in pg.policies :
       /\ action \in policy.actions
       /\ user \in policy.users \/ groups \cap policy.groups # {}
       /\ policyConditionsMet(policy, compiled, repo, ref)
  \/ user # Anonymous /\ action \in pg.default
  \/ user = Anonymous /\ action \in pg.anonymous

isAdmin(ac, user, groups) ==
  user \in ac.admin.users \/ groups \cap ac.admin.groups # {}

\* can, for one of the patterns that may turn out to be the longest one.
canWith(ac, compiled, user, groups, action, repo, ref, longest) ==
  \/ \E p \in longest :
       isPermitted(ac.repos[p], compiled, user, groups, action, repo, ref)
  \/ /\ isAdmin(ac, user, groups)
     /\ action \in ac.admin.actions
     /\ policyConditionsMet(ac.admin, compiled, repo, ref)

\* The answers can may give: more than one only for patterns of equal length.
can(ac, compiled, user, groups, action, repo, ref) ==
  LET longest == LongestMatches(DOMAIN ac.repos, repo)
  IN  IF longest = {}
      THEN {canWith(ac, compiled, user, groups, action, repo, ref, {})}
      ELSE {canWith(ac, compiled, user, groups, action, repo, ref, {p}) : p \in longest}

getUserGroups(ac, user) == {g \in DOMAIN ac.groups : user \in ac.groups[g]}

(***************************************************************************)
(* The patterns on which a user has an action, as the catalog and the      *)
(* search use them.  Conditions are not evaluated: no repository is known  *)
(* yet.                                                                    *)
(***************************************************************************)
getGlobPatterns(ac, user, groups, action) ==
  {p \in DOMAIN ac.repos :
     LET pg == ac.repos[p]
     IN  \/ user = Anonymous /\ action \in pg.anonymous
         \/ user # Anonymous /\ action \in pg.default
         \/ \E policy \in pg.policies :
              /\ action \in policy.actions
              /\ user \in policy.users \/ groups \cap policy.groups # {}}

\* UserAccessControl.matchesRepo: the answers it may give for one repository.
matchesRepo(patterns, granted, repo) ==
  LET longest == LongestMatches(patterns, repo)
  IN  IF longest = {} THEN {FALSE} ELSE {(p \in granted) : p \in longest}

(***************************************************************************)
(* UserAccessControl.Can on a method action, for a caller whose context    *)
(* was filled by updateUserAccessControl under ac.                         *)
(***************************************************************************)
Can(ac, user, groups, action, repo) ==
  IF isAdmin(ac, user, groups) THEN {TRUE}
  ELSE matchesRepo(DOMAIN ac.repos, getGlobPatterns(ac, user, groups, action), repo)

AnonymousPolicyExists(ac) == \E p \in DOMAIN ac.repos : ac.repos[p].anonymous # {}

ContainsOnlyAnonymousPolicy(ac) ==
  /\ ac.admin.actions = {} /\ ac.admin.users = {}
  /\ \A p \in DOMAIN ac.repos :
       /\ ac.repos[p].default = {}
       /\ \A policy \in ac.repos[p].policies : policy.actions = {} /\ policy.users = {}
  /\ AnonymousPolicyExists(ac)

HasMixedAnonymousAndAuthenticatedPolicies(ac) ==
  AnonymousPolicyExists(ac) /\ ~ContainsOnlyAnonymousPolicy(ac)

(***************************************************************************)
(* The permissions a manifest write needs, as <<action, reference>> pairs. *)
(* A tag path needs create or update on the tag; a digest path needs them  *)
(* on every valid ?tag= and on the digest itself.                          *)
(***************************************************************************)
classifyDigestQueryTags(existing, query, valid) ==
  [existing |-> query \cap valid \cap existing, new |-> (query \cap valid) \ existing]

manifestWriteAuthzChecks(existing, ref, byTag, query, valid) ==
  LET q == classifyDigestQueryTags(existing, query, valid)
  IN  IF byTag THEN {<<IF ref \in existing THEN "update" ELSE "create", ref>>}
      ELSE {<<"update", t>> : t \in q.existing} \cup {<<"create", t>> : t \in q.new}
           \cup (IF q.new # {} \/ q.existing = {} THEN {<<"create", ref>>} ELSE {})
           \cup (IF q.existing # {} THEN {<<"update", ref>>} ELSE {})

\* MetricsAuthzHandler.
MetricsAllowed(ac, user) ==
  \/ ~ac.on
  \/ user = Anonymous /\ "read" \in ac.metrics.anonymous
  \/ user # Anonymous /\ user \in ac.metrics.users

=============================================================================
