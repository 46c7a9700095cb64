------------------------------ MODULE Retention -----------------------------
(* Retention in one pass of the garbage collector over one repository: which *)
(* tags and untagged manifests the policies keep, by the statistics of the   *)
(* metadata database, and the removal of the others from index.json.  The    *)
(* pass holds the store lock; pulls still reach the database meanwhile, and  *)
(* a shutdown may cancel the pass anywhere.  Referrers are in RepoStore.     *)
EXTENDS Integers, FiniteSets, Sequences

CONSTANTS Tags, Digests,
          Repo, Configs,   \* configurations: lists of policies, each with its repositories,
                           \* keepTags, keepUntagged and deleteUntagged; dryRun; a database or not
          Now,
          Young,           \* digests whose blob is within the delay
          None

Times == 0..Now

RetentionAssumption ==
    /\ Now \in Nat /\ Young \subseteq Digests /\ None \notin Digests
    /\ \A c \in Configs : c.dryRun \in BOOLEAN /\ c.metaDB \in BOOLEAN

VARIABLES
    conf,    \* the configuration
    disk,    \* index.json: rows of a digest and a tag, None for a row without one
    index,   \* the index in memory
    tags,    \* metadata: tags[t], the digest, None if the tag is not known
    stats,   \* metadata: stats[d], the last push and pull, None if there are none
    pc, todo, gced, keep,
    done,    \* the context of the pass is cancelled, or a call of the pass has failed
    due      \* what the rules keep, on the statistics that the pass has read (history)

vars == <<conf, disk, index, tags, stats, pc, todo, gced, keep, done, due>>

-----------------------------------------------------------------------------
(* The policies.                                                             *)

\* The first policy with a pattern that matches the repository.
getRepoPolicy ==
    LET hits == {n \in DOMAIN conf.policies : Repo \in conf.policies[n].repos}
    IN  IF hits = {} THEN None ELSE conf.policies[CHOOSE n \in hits : \A m \in hits : n <= m]

HasPolicy == \E n \in DOMAIN conf.policies : Repo \in conf.policies[n].repos

HasDeleteUntagged == HasPolicy => getRepoPolicy.deleteUntagged
HasTagRetention   == HasPolicy /\ getRepoPolicy.keepTags # <<>>

\* getRules: a count of zero and a duration that is not set are no rule.
HasRules(r) == r.pulled # 0 \/ r.pushed # 0 \/ r.pulledWithin # None \/ r.pushedWithin # None

HasUntaggedRetention ==
    HasPolicy /\ getRepoPolicy.keepUntagged # None /\ HasRules(getRepoPolicy.keepUntagged)

\* MatchesListOfRegex: an empty list matches everything.
MatchesListOfRegex(t, patterns) == patterns = {} \/ \E p \in patterns : t \in p

\* The first tag policy that matches; tags without one are not kept.
getTagPolicy(t, policies) ==
    LET hits == {n \in DOMAIN policies : MatchesListOfRegex(t, policies[n].patterns)}
    IN  IF hits = {} THEN 0 ELSE CHOOSE n \in hits : \A m \in hits : n <= m

Smaller(a, b) == IF a < b THEN a ELSE b

\* latestPull and latestPush: the top of a sort that does not order equals.
Latest(C, count, stamp) ==
    {S \in SUBSET C : /\ Cardinality(S) = Smaller(count, Cardinality(C))
                      /\ \A a \in S, b \in C \ S : a[stamp] >= b[stamp]}

\* MUTANT: pulledWithin drops what was just pushed.
DaysPullOnly(C, within) == {x \in C : x.pull > Now - within}

\* An image that was pushed a moment ago passes pulledWithin too.
DaysPull(C, within) == {x \in C : x.pull > Now - within \/ x.push > Now - within}
DaysPush(C, within) == {x \in C : x.push > Now - within}

\* What some rule keeps: one set for each way the sorts may come out.
PerformRules(C, r) ==
    LET a == IF r.pulled = 0 THEN {{}} ELSE Latest(C, r.pulled, "pull")
        b == IF r.pushed = 0 THEN {{}} ELSE Latest(C, r.pushed, "push")
        d == IF r.pulledWithin = None THEN {} ELSE DaysPull(C, r.pulledWithin)
        e == IF r.pushedWithin = None THEN {} ELSE DaysPush(C, r.pushedWithin)
    IN  {x \cup y \cup d \cup e : x \in a, y \in b}

\* GetCandidates: a tag whose digest has statistics.
GetCandidates ==
    {[tag |-> t, d |-> tags[t], push |-> stats[tags[t]].push, pull |-> stats[tags[t]].pull] :
        t \in {t \in Tags : tags[t] # None /\ stats[tags[t]] # None}}

\* GetUntaggedCandidates: a row without a tag whose digest has statistics.
GetUntaggedCandidates ==
    {[tag |-> None, d |-> x.d, push |-> stats[x.d].push, pull |-> stats[x.d].pull] :
        x \in {x \in index : x.tag = None /\ stats[x.d] # None}}

UnknownTags == {x.tag : x \in {x \in index : x.tag # None}} \ {c.tag : c \in GetCandidates}

\* GetRetainedTagsFromMetaDB: tags without statistics, and by tag policy what its rules keep,
\* or all that its patterns match if it has no rules.
RECURSIVE KeptBy(_, _)
KeptBy(n, C) ==
    IF n = 0 THEN {{}}
    ELSE LET p     == getRepoPolicy.keepTags[n]
             group == {c \in C : getTagPolicy(c.tag, getRepoPolicy.keepTags) = n}
             here  == IF HasRules(p.rules) THEN PerformRules(group, p.rules) ELSE {group}
         IN  {x \cup y : x \in here, y \in KeptBy(n - 1, C)}

GetRetainedTagsFromMetaDB ==
    {UnknownTags \cup {c.tag : c \in S} : S \in KeptBy(Len(getRepoPolicy.keepTags), GetCandidates)}

\* Without a database: what matches some tag policy.
GetRetainedTagsFromIndex ==
    {{x.tag : x \in {x \in index : x.tag # None /\ getTagPolicy(x.tag, getRepoPolicy.keepTags) # 0}}}

\* GetRetainedUntaggedFromMetaDB: manifests without statistics, and what the rules keep.
GetRetainedUntaggedFromMetaDB ==
    LET unknown == {x.d : x \in {x \in index : x.tag = None}} \ {c.d : c \in GetUntaggedCandidates}
    IN  {unknown \cup {c.d : c \in S} :
            S \in PerformRules(GetUntaggedCandidates, getRepoPolicy.keepUntagged)}

-----------------------------------------------------------------------------
(* The pass.                                                                 *)

Init ==
    /\ conf \in Configs
    /\ pc = "idle" /\ todo = {} /\ gced = FALSE /\ keep = {} /\ done = FALSE
    /\ tags \in [Tags -> Digests \cup {None}]
    /\ stats \in [Digests -> [push : Times, pull : Times] \cup {None}]
    /\ \A d \in Digests : stats[d] # None => IF stats[d].pull = 0 THEN stats[d].push # 0
                                               ELSE stats[d].push <= stats[d].pull
    /\ disk = {[d |-> tags[t], tag |-> t] : t \in {t \in Tags : tags[t] # None}}
              \cup {[d |-> d, tag |-> None] : d \in {d \in Digests : \A t \in Tags : tags[t] # d}}
    /\ index = disk
    /\ due = [tags |-> {}, digests |-> {}, known |-> {d \in Digests : stats[d] # None}]

\* removeTagsPerRetentionPolicy begins: the tags that are kept.
BeginPass ==
    /\ pc = "idle" /\ index' = disk
    /\ IF HasTagRetention
       THEN /\ keep' \in IF conf.metaDB THEN GetRetainedTagsFromMetaDB ELSE GetRetainedTagsFromIndex
            /\ todo' = {x \in disk : x.tag # None} /\ pc' = "tags"
            /\ due' = [due EXCEPT !.tags = keep']
       ELSE pc' = "loop" /\ UNCHANGED <<todo, keep, due>>
    /\ UNCHANGED <<conf, disk, tags, stats, gced, done>>

Abort == pc' = "end" /\ UNCHANGED <<index, tags, stats, todo, gced, keep, due>>

\* RemoveManifestDescByReference: the last tag of a digest leaves a row without a tag; a digest
\* with several rows is not removed by the digest.
RemoveRow(x) ==
    LET left == index \ {x}
    IN  IF x.tag # None /\ ~(\E y \in left : y.d = x.d) THEN left \cup {[d |-> x.d, tag |-> None]}
        ELSE left

Conflict(x) == x.tag = None /\ Cardinality({y \in index : y.d = x.d}) > 1

\* RemoveRepoReference: a digest without tags loses its statistics.
RemoveReference(x) ==
    LET left == [t \in Tags |-> IF t = x.tag \/ (x.tag = None /\ tags[t] = x.d) THEN None ELSE tags[t]]
    IN  /\ tags' = left
        /\ stats' = IF \E t \in Tags : left[t] = x.d THEN stats ELSE [stats EXCEPT ![x.d] = None]

removeManifest(x) ==
    /\ index' = RemoveRow(x)
    /\ IF conf.dryRun \/ ~conf.metaDB THEN UNCHANGED <<tags, stats>> ELSE RemoveReference(x)

RemoveTag(x) ==
    /\ pc = "tags" /\ x \in todo
    /\ IF done THEN Abort
       ELSE /\ todo' = todo \ {x} /\ UNCHANGED <<pc, gced, keep, due>>
            /\ IF x.tag \in keep THEN UNCHANGED <<index, tags, stats>> ELSE removeManifest(x)
    /\ UNCHANGED <<conf, disk, done>>

\* RemoveRepoReference of a row that goes fails: the pass returns the error and index.json stays
\* as it was, whatever the database has been told before.
ReferenceFails(x) ==
    /\ x \in todo /\ ~done /\ conf.metaDB /\ ~conf.dryRun
    /\ \/ pc = "tags" /\ x.tag \notin keep
       \/ pc = "untagged" /\ x.d \notin keep \cup Young /\ ~Conflict(x)
    /\ done' = TRUE /\ Abort
    /\ UNCHANGED <<conf, disk>>

TagsDone ==
    /\ pc = "tags" /\ todo = {} /\ pc' = "loop"
    /\ UNCHANGED <<conf, disk, index, tags, stats, todo, gced, keep, done, due>>

\* removeManifestsPerRepoPolicy: the top of its loop, then the untagged manifests to keep.
BeginUntagged ==
    /\ pc = "loop"
    /\ IF done THEN Abort
       ELSE IF ~HasDeleteUntagged
       THEN pc' = "write" /\ UNCHANGED <<index, tags, stats, todo, gced, keep, due>>
       ELSE /\ pc' = "untagged" /\ gced' = FALSE
            /\ todo' = {x \in index : x.tag = None}
            /\ keep' \in IF HasUntaggedRetention /\ conf.metaDB THEN GetRetainedUntaggedFromMetaDB ELSE {{}}
            /\ due' = [due EXCEPT !.digests = keep']
            /\ UNCHANGED <<index, tags, stats>>
    /\ UNCHANGED <<conf, disk, done>>

\* The context is cancelled while the rules are evaluated: nothing is kept.  The loop over the
\* tags looks at the context first, the removal of the untagged manifests does not.
CancelRules ==
    /\ done /\ keep # {} /\ keep' = {}
    /\ \/ pc = "tags" /\ todo = {x \in index : x.tag # None}
       \/ /\ pc = "untagged" /\ HasUntaggedRetention /\ conf.metaDB
          /\ todo = {x \in index : x.tag = None}
    /\ UNCHANGED <<conf, disk, index, tags, stats, pc, todo, gced, done, due>>

\* gced says what became of the last manifest.
RemoveUntagged(x) ==
    /\ pc = "untagged" /\ x \in todo
    /\ todo' = todo \ {x}
    /\ IF x.d \in keep \cup Young \/ Conflict(x)
       THEN /\ gced' = IF x.d \in keep THEN gced ELSE FALSE
            /\ UNCHANGED <<index, tags, stats>>
       ELSE gced' = TRUE /\ removeManifest(x)
    /\ UNCHANGED <<conf, disk, pc, keep, done, due>>

UntaggedDone ==
    /\ pc = "untagged" /\ todo = {} /\ pc' = IF gced THEN "loop" ELSE "write"
    /\ UNCHANGED <<conf, disk, index, tags, stats, todo, gced, keep, done, due>>

PutIndexContent ==
    /\ pc = "write" /\ pc' = "end" /\ disk' = IF conf.dryRun THEN disk ELSE index
    /\ UNCHANGED <<conf, index, tags, stats, todo, gced, keep, done, due>>

\* A pull is counted while the pass runs.
Pull(d) ==
    /\ pc \in {"tags", "untagged"} /\ stats[d] # None /\ stats[d].pull < Now
    /\ stats' = [stats EXCEPT ![d].pull = Now]
    /\ UNCHANGED <<conf, disk, index, tags, pc, todo, gced, keep, done, due>>

Cancel ==
    /\ pc # "end" /\ ~done /\ done' = TRUE
    /\ UNCHANGED <<conf, disk, index, tags, stats, pc, todo, gced, keep, due>>

Next ==
    \/ BeginPass \/ TagsDone \/ BeginUntagged \/ CancelRules \/ UntaggedDone \/ PutIndexContent
    \/ \E x \in todo : RemoveTag(x) \/ RemoveUntagged(x) \/ ReferenceFails(x)
    \/ \E d \in Digests : Pull(d)
    \/ Cancel

Spec == Init /\ [][Next]_vars

-----------------------------------------------------------------------------
\* Every variable holds a value of the kind the code gives it.
TypeOK ==
    /\ disk \cup index \cup todo \subseteq [d : Digests, tag : Tags \cup {None}]
    /\ tags \in [Tags -> Digests \cup {None}]
    /\ stats \in [Digests -> [push : Times, pull : Times] \cup {None}]

OnDisk(t)   == \E x \in disk : x.tag = t
DigestOn(d) == \E x \in disk : x.d = d

\* An untagged manifest that the rules keep is in index.json after the pass.
RetainedUntaggedKept == pc = "end" => \A d \in due.digests : DigestOn(d)

\* A tag that the rules keep, or that the database has no statistics for, is in index.json after
\* the pass, also when the pass is cancelled or fails anywhere; so is an untagged manifest that the
\* rules keep, if the pass came to its end.
RetainedKept ==
    /\ pc = "end" => \A t \in due.tags : OnDisk(t)
    /\ ~done => RetainedUntaggedKept

\* What the policy keeps is what the README of the examples says: if some rule of the first tag
\* policy that matches holds for a tag, it is kept; counts order by the last pull and push.
Promised(c) ==
    LET n == getTagPolicy(c.tag, getRepoPolicy.keepTags)
        r == getRepoPolicy.keepTags[n].rules
        rivals(Stamp(_)) == {o \in GetCandidates : /\ getTagPolicy(o.tag, getRepoPolicy.keepTags) = n
                                                   /\ o # c /\ Stamp(o) >= Stamp(c)}
        Pull2(x) == x.pull
        Push2(x) == x.push
    IN  n # 0 /\ \/ ~HasRules(r)
                 \/ r.pulledWithin # None /\ (c.pull > Now - r.pulledWithin \/ c.push > Now - r.pulledWithin)
                 \/ r.pushedWithin # None /\ c.push > Now - r.pushedWithin
                 \/ Cardinality(rivals(Pull2)) < r.pulled
                 \/ Cardinality(rivals(Push2)) < r.pushed

\* A pass keeps every tag that the policy promises to keep on the statistics of that moment, and
\* every tag that the database does not know.
KeepsPromise ==
    pc = "idle" /\ pc' = "tags" /\ conf.metaDB =>
        /\ \A c \in GetCandidates : Promised(c) => c.tag \in keep'
        /\ \A x \in disk : x.tag # None /\ ~(\E c \in GetCandidates : c.tag = x.tag) => x.tag \in keep'

\* A dry run leaves index.json and the database as they are, except for pulls.
RunsDry == conf.dryRun => /\ disk' = disk /\ tags' = tags
                          /\ \A d \in Digests : stats[d] # None => stats'[d] # None

\* A manifest within the delay is not dropped from index.json.
YoungKept == pc = "end" => \A d \in Young : DigestOn(d)

\* After a pass that was neither cancelled nor failed, the database knows every tag of index.json:
\* a tag it was told to forget is gone from index.json too.  A pass that stops half way has told
\* the database of removals that it does not write.
MetaNotAhead ==
    pc = "end" /\ ~done => \A x \in disk : x.tag # None => tags[x.tag] = x.d \/ ~conf.metaDB

=============================================================================
