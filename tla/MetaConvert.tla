---------------------------- MODULE MetaConvert ----------------------------
(***************************************************************************)
(* pkg/meta/convert: what the metadata database writes of an image or of a *)
(* repository (the GetProto... functions) and what it reads back of it     *)
(* (the Get... functions).  Both directions are written by hand, field by  *)
(* field, several of them twice.  The model keeps every field that some    *)
(* converter drops, fills or changes and every absent/present distinction  *)
(* of times and pointers; the fields copied together unchanged are one     *)
(* (Text: author, user, env, entry point, command, labels, history lines;  *)
(* Rest: URLs and data).  An empty and an absent list or map are the same  *)
(* here: protobuf does not tell them apart.                                *)
(***************************************************************************)
EXTENDS Integers, Sequences, SequencesExt, FiniteSets, FiniteSetsExt

CONSTANTS Digests, Tags, Platforms \* records [os, arch, ver]

(* Times: a nil pointer, time.Time{}, the Unix epoch, and later ones.      *)
Nil == -1
Zero == 0
Epoch == 1
Times == {Zero, 2, 3}

(* timestamppb.New keeps every time, AsTime of a nil message is the epoch. *)
AsTime(p) == IF p = Nil THEN Epoch ELSE p
GetTime(p) == p
GetProtoTime(t) == t

IsImageManifestMediaType(mt) == mt \in {"manifest", "docker-manifest"}
IsImageIndexMediaType(mt) == mt \in {"index", "docker-list"}

NoPlatform == [os |-> "", arch |-> "", ver |-> ""]
Bare(d) == [mt |-> d.mt, dg |-> d.dg, size |-> d.size,
            rest |-> "", ann |-> "", plat |-> NoPlatform, at |-> ""]
NoDesc == [none |-> TRUE]

(***************************************************************************)
(* Images.                                                                 *)
(***************************************************************************)
(* Without a platform a pointer is nil; the zero platform stands for both, *)
(* the only readers ask for the names.                                     *)
GetProtoPlatform(p) == p
GetPlatform(p) == p

getProtoDesc(d) ==
    IF d = NoDesc THEN NoDesc ELSE [d EXCEPT !.plat = GetProtoPlatform(@)]
getProtoManifestLayers(layers) == [i \in DOMAIN layers |-> getProtoDesc(layers[i])]
getProtoManifestList(ms) == [i \in DOMAIN ms |-> [ms[i] EXCEPT !.plat = GetProtoPlatform(@)]]
getProtoHistory(h) ==
    [i \in DOMAIN h |-> [created |-> GetProtoTime(h[i].created), text |-> h[i].text]]

(* The media type of the document, or of its descriptor when it has none.  *)
NestedMediaType(own, mt) == IF own = "" THEN mt ELSE own

GetProtoManifestMeta(m, c, size, dg, mt) ==
    [dg |-> dg, size |-> size,
     manifest |-> [m EXCEPT !.mt = NestedMediaType(@, mt),
                            !.config = Bare(@),
                            !.layers = getProtoManifestLayers(@),
                            !.subject = getProtoDesc(@)],
     config |-> [c EXCEPT !.created = GetProtoTime(@),
                          !.plat = GetProtoPlatform(@),
                          !.hist = getProtoHistory(@)]]
NoIndex == [none |-> TRUE]
GetProtoImageManifestData(m, c, size, dg, mt) ==
    [mt |-> mt, index |-> NoIndex,
     manifests |-> <<GetProtoManifestMeta(m, c, size, dg, mt)>>]
GetIndexArtifactType(i) == i.at
GetProtoImageIndexMeta(i, size, dg, mt) ==
    [mt |-> mt, manifests |-> <<>>,
     index |-> [size |-> size, dg |-> dg,
                doc |-> [i EXCEPT !.mt = NestedMediaType(@, mt),
                                  !.at = GetIndexArtifactType(i),
                                  !.manifests = getProtoManifestList(@),
                                  !.subject = getProtoDesc(@)]]]
NoMeta == [none |-> TRUE]
GetProtoImageMeta(im) ==
    CASE IsImageManifestMediaType(im.mt) /\ im.manifests # <<>> ->
            LET md == im.manifests[1]
            IN  GetProtoImageManifestData(md.manifest, md.config, md.size, md.dg, im.mt)
      [] IsImageIndexMediaType(im.mt) /\ im.index # NoIndex ->
            GetProtoImageIndexMeta(im.index, im.size, im.dg, im.mt)
      [] OTHER -> NoMeta

GetHistory(h) ==
    [i \in DOMAIN h |-> [created |-> AsTime(h[i].created), text |-> h[i].text]]
GetLayers(ds) == [i \in DOMAIN ds |-> Bare(ds[i])]
GetSubject(d) == IF d = NoDesc THEN NoDesc ELSE Bare(d)
GetDescriptorRef(d) ==
    IF d = NoDesc THEN NoDesc ELSE [d EXCEPT !.plat = GetPlatform(@)]

(* The descriptor of an image is its only manifest's, or its index's.      *)
ByKind(p, ofManifest, ofIndex, none) ==
    CASE IsImageManifestMediaType(p.mt) -> ofManifest
      [] IsImageIndexMediaType(p.mt) -> ofIndex
      [] OTHER -> none
GetImageManifestSize(p) == ByKind(p, p.manifests[1].size, p.index.size, 0)
GetImageDigest(p) == ByKind(p, p.manifests[1].dg, p.index.dg, "")
GetImageAnnotations(p) == ByKind(p, p.manifests[1].manifest.ann, p.index.doc.ann, "")
GetImageSubject(p) ==
    ByKind(p, GetDescriptorRef(p.manifests[1].manifest.subject),
              GetDescriptorRef(p.index.doc.subject), NoDesc)
GetImageArtifactType(p) ==
    ByKind(p, LET m == p.manifests[1].manifest IN IF m.at # "" THEN m.at ELSE m.config.mt,
              p.index.doc.at, "")

ReadManifest(md) ==
    [dg |-> md.dg, size |-> md.size,
     manifest |-> [md.manifest EXCEPT !.config = Bare(@),
                                      !.layers = GetLayers(@),
                                      !.subject = GetSubject(@)],
     config |-> [md.config EXCEPT !.created = GetTime(@),
                                  !.plat = GetPlatform(@),
                                  !.hist = GetHistory(@)]]

\* MUTANT: the platform and annotations of a member are dropped.
ReadMemberBare(d) == Bare(d)

(* Members keep their platform and annotations, not URLs, data and type.   *)
ReadMember(d) == [d EXCEPT !.rest = "", !.at = "", !.plat = GetPlatform(@)]
ReadIndex(p) ==
    [p.index.doc EXCEPT !.mt = NestedMediaType(@, p.mt),
                        !.manifests = [i \in DOMAIN @ |-> ReadMember(@[i])],
                        !.subject = GetImageSubject(p),
                        !.at = GetImageArtifactType(p),
                        !.ann = GetImageAnnotations(p)]
GetImageMeta(p) ==
    IF p = NoMeta THEN NoMeta
    ELSE [mt |-> p.mt, size |-> GetImageManifestSize(p), dg |-> GetImageDigest(p),
          index |-> IF IsImageIndexMediaType(p.mt) THEN ReadIndex(p) ELSE NoIndex,
          manifests |-> [i \in DOMAIN p.manifests |-> ReadManifest(p.manifests[i])]]

(* The constructors that parse.go calls on what it has read from storage.  *)
GetImageManifestMeta(m, c, size, dg, mt) ==
    [mt |-> IF mt = "" THEN "manifest" ELSE mt, dg |-> dg, size |-> size,
     index |-> NoIndex,
     manifests |-> <<[dg |-> dg, size |-> size, config |-> c, manifest |-> m]>>]
GetManifests(ds) ==
    LET kept == SelectSeq(ds, LAMBDA d : IsImageManifestMediaType(d.mt)
                                         \/ IsImageIndexMediaType(d.mt))
    IN  [i \in DOMAIN kept |-> [dg |-> kept[i].dg, size |-> kept[i].size]]
GetImageIndexMeta(i, size, dg, mt) ==
    [mt |-> IF mt = "" THEN "index" ELSE mt, dg |-> dg, size |-> size,
     index |-> i, manifests |-> GetManifests(i.manifests)]

(* GetImageLastUpdated of pkg/common/oci.go: the creation time, else the   *)
(* time of the last history entry, else the zero time.                     *)
GetImageLastUpdated(c) ==
    CASE c.created \notin {Nil, Zero} -> c.created
      [] c.hist # <<>> /\ Last(c.hist).created # Nil -> Last(c.hist).created
      [] OTHER -> Zero

(***************************************************************************)
(* Repositories.                                                           *)
(***************************************************************************)
GetProtoTags(ts) ==
    [t \in DOMAIN ts |-> [ts[t] EXCEPT !.time = IF @ = Zero THEN Nil ELSE @]]
GetTags(ts) == [t \in DOMAIN ts |-> [ts[t] EXCEPT !.time = IF @ = Nil THEN Zero ELSE @]]
GetProtoStatistics(st) == st
ReadStatistic(s) == [s EXCEPT !.lastPull = AsTime(@), !.push = AsTime(@)]
GetStatisticsMap(st) == [d \in DOMAIN st |-> ReadStatistic(st[d])]
NoStatistics == [count |-> 0, lastPull |-> Zero, push |-> Zero, by |-> ""]
GetImageStatistics(st, d) == IF d \in DOMAIN st THEN ReadStatistic(st[d]) ELSE NoStatistics
(* Signatures: per type a list of manifests with their layers.             *)
GetProtoLayersInfo(ls) == ls
GetProtoSignaturesInfo(list) ==
    [i \in DOMAIN list |-> [list[i] EXCEPT !.layers = GetProtoLayersInfo(@)]]
GetProtoSignatures(sg) ==
    [d \in DOMAIN sg |-> [k \in DOMAIN sg[d] |-> GetProtoSignaturesInfo(sg[d][k])]]
GetLayersInfo(ls) ==
    [i \in DOMAIN ls |-> [ls[i] EXCEPT !.date = IF @ = Nil THEN Zero ELSE @]]
GetSignaturesInfo(list) ==
    [i \in DOMAIN list |-> [list[i] EXCEPT !.layers = GetLayersInfo(@)]]
GetSignatures(sg) ==
    [d \in DOMAIN sg |-> [k \in DOMAIN sg[d] |-> GetSignaturesInfo(sg[d][k])]]
GetImageSignatures(sg, d) ==
    IF d \in DOMAIN sg THEN [k \in DOMAIN sg[d] |-> GetSignaturesInfo(sg[d][k])] ELSE <<>>
GetProtoReferrerInfo(r) == [dg |-> r.dg, at |-> r.at, ann |-> r.ann, size |-> r.size]
GetProtoReferrers(rs) ==
    [d \in DOMAIN rs |-> [i \in DOMAIN rs[d] |-> GetProtoReferrerInfo(rs[d][i])]]
ReadReferrer(r) == [dg |-> r.dg, at |-> r.at, ann |-> r.ann, size |-> r.size]
GetReferrers(rs) == [d \in DOMAIN rs |-> [i \in DOMAIN rs[d] |-> ReadReferrer(rs[d][i])]]
GetImageReferrers(rs, d) ==
    IF d \in DOMAIN rs THEN [i \in DOMAIN rs[d] |-> ReadReferrer(rs[d][i])] ELSE <<>>
(* A repository keeps the operating system and architecture only.          *)
GetProtoPlatforms(ps) == [i \in DOMAIN ps |-> [ps[i] EXCEPT !.ver = ""]]
GetPlatforms(ps) == [i \in DOMAIN ps |-> GetPlatform(ps[i])]
NoImage == [none |-> TRUE]
GetProtoLastUpdatedImage(l) ==
    IF l = NoImage THEN NoImage ELSE [l EXCEPT !.time = GetProtoTime(@)]
GetLastUpdatedImage(l) == IF l = NoImage THEN NoImage ELSE [l EXCEPT !.time = GetTime(@)]

(* The reader's marks (starred, bookmarked, rank) are not stored.          *)
GetProtoRepoMeta(r) ==
    [tags |-> GetProtoTags(r.tags), stats |-> GetProtoStatistics(r.stats),
     sigs |-> GetProtoSignatures(r.sigs), refs |-> GetProtoReferrers(r.refs),
     plats |-> GetProtoPlatforms(r.plats), last |-> GetProtoLastUpdatedImage(r.last),
     stars |-> r.stars, downloads |-> r.downloads]
(* The downloads of a repository are summed over its tags.                 *)
RepoDownloads(p) ==
    FoldSet(LAMBDA t, n : n + IF p.tags[t].dg \in DOMAIN p.stats
                              THEN p.stats[p.tags[t].dg].count ELSE 0,
            0, DOMAIN p.tags)
GetRepoMeta(p) ==
    [tags |-> GetTags(p.tags), stats |-> GetStatisticsMap(p.stats),
     sigs |-> GetSignatures(p.sigs), refs |-> GetReferrers(p.refs),
     plats |-> GetPlatforms(p.plats), last |-> GetLastUpdatedImage(p.last),
     stars |-> p.stars, downloads |-> RepoDownloads(p)]

(* GetFullManifestData and GetFullImageMetaFromProto: what the repository  *)
(* knows of one digest, as search shows it.                                *)
GetFullManifestData(p, d) ==
    [refs |-> GetImageReferrers(p.refs, d), stats |-> GetImageStatistics(p.stats, d),
     sigs |-> GetImageSignatures(p.sigs, d)]
GetFullImageMetaFromProto(t, p, d) ==
    [data |-> GetFullManifestData(p, d),
     time |-> IF t \in DOMAIN p.tags /\ p.tags[t].time # Nil THEN p.tags[t].time ELSE Zero]

(***************************************************************************)
(* Aggregates.                                                             *)
(***************************************************************************)
(* Despite its name, the later of two.                                     *)
GetProtoEarlierUpdatedImage(repoLast, last) ==
    CASE repoLast = NoImage -> last
      [] repoLast # NoImage /\ (last = NoImage \/ last.time = Nil) -> repoLast
      [] repoLast # NoImage /\ last # NoImage /\ last.time # Nil /\ repoLast.time = Nil -> last
      [] OTHER -> IF repoLast.time < last.time THEN last ELSE repoLast
ContainsProtoPlatform(ps, p) ==
    \E i \in DOMAIN ps : ps[i].os = p.os /\ ps[i].arch = p.arch
AddProtoPlatforms(ps, new) ==
    FoldLeft(LAMBDA acc, p : IF ContainsProtoPlatform(acc, p) THEN acc ELSE Append(acc, p),
             ps, new)

(***************************************************************************)
(* One record through the database: written, read, written back.           *)
(***************************************************************************)
VARIABLES in,     \* what is converted: [kind, v]
          db,     \* the protobuf record
          out,    \* what was read last
          first,  \* what was read the first time
          step    \* 0..4
vars == <<in, db, out, first, step>>
Nothing == [none |-> TRUE]

ToProto(k, v) == IF k = "image" THEN GetProtoImageMeta(v) ELSE GetProtoRepoMeta(v)
FromProto(k, p) == IF k = "image" THEN GetImageMeta(p) ELSE GetRepoMeta(p)

Write == /\ step \in {0, 2} /\ in.kind \in {"image", "repo"}
         /\ db' = ToProto(in.kind, IF step = 0 THEN in.v ELSE out)
         /\ step' = step + 1
         /\ UNCHANGED <<in, out, first>>
Read == /\ step \in {1, 3}
        /\ out' = FromProto(in.kind, db)
        /\ first' = IF step = 1 THEN FromProto(in.kind, db) ELSE first
        /\ step' = step + 1
        /\ UNCHANGED <<in, db>>
(* The aggregates of a list, folded from the left.                         *)
Aggregate ==
    /\ step = 0 /\ in.kind \in {"times", "platforms"}
    /\ out' = IF in.kind = "times"
              THEN FoldLeft(GetProtoEarlierUpdatedImage, NoImage, in.v)
              ELSE AddProtoPlatforms(<<>>, in.v)
    /\ step' = 4
    /\ UNCHANGED <<in, db, first>>
Next == Write \/ Read \/ Aggregate

(***************************************************************************)
(* Properties.                                                             *)
(***************************************************************************)
\* Every variable holds a value of the kind the code gives it.
TypeOK == /\ step \in 0..4
          /\ in.kind \in {"image", "repo", "times", "platforms"}
          /\ step = 0 => out = Nothing /\ db = Nothing

Key(d) == IF d = NoDesc THEN NoDesc ELSE [mt |-> d.mt, dg |-> d.dg, size |-> d.size]
Keys(ds) == [i \in DOMAIN ds |-> Key(ds[i])]
Same(a, b, fields) == \A f \in fields : a[f] = b[f]
(* An image is read back as the image it was: its descriptor, what it      *)
(* points at (config, layers, members, subject), its type and its          *)
(* annotations, and of an index also what tells its members apart.         *)
ImageKept ==
    in.kind = "image" /\ step = 2 =>
        /\ Same(out, in.v, {"mt", "dg", "size"})
        /\ \A i \in DOMAIN out.manifests :
              LET a == out.manifests[i].manifest
                  b == in.v.manifests[i].manifest
              IN  /\ Same(a, b, {"at", "ann"})
                  /\ Key(a.config) = Key(b.config) /\ Keys(a.layers) = Keys(b.layers)
                  /\ Key(a.subject) = Key(b.subject)
                  /\ Same(out.manifests[i].config, in.v.manifests[i].config, {"text", "plat"})
        /\ IsImageManifestMediaType(in.v.mt) => Len(out.manifests) = 1
        /\ IsImageIndexMediaType(in.v.mt) =>
              /\ Same(out.index, in.v.index, {"at", "ann", "subject"})
              /\ Keys(out.index.manifests) = Keys(in.v.index.manifests)
              /\ \A i \in DOMAIN out.index.manifests :
                    Same(out.index.manifests[i], in.v.index.manifests[i], {"plat", "ann"})

(* The age of an image that has one is the same from the database as from  *)
(* storage: the newest image of a repository is chosen by the one (at the  *)
(* push) and shown with the other (in search).                             *)
AgeKept ==
    in.kind = "image" /\ step = 2 =>
        \A i \in DOMAIN out.manifests :
            LET age == GetImageLastUpdated(in.v.manifests[i].config)
            IN  age # Zero => GetImageLastUpdated(out.manifests[i].config) = age

(* Tags, statistics, signatures, referrers and stars are read back as they *)
(* were written, absent times included.                                    *)
RepoKept ==
    in.kind = "repo" /\ step = 2 =>
        Same(out, in.v, {"tags", "stats", "sigs", "refs", "last", "stars"})

(* Writing back what was read loses nothing more: a second reading is the  *)
(* first (records are rewritten on every push, pull and signature).        *)
RereadSame == step = 4 /\ in.kind \in {"image", "repo"} => out = first

(* The list of a repository and the view of one image are converted by two *)
(* copies of the same code; they say the same of every digest and tag.     *)
ViewsAgree ==
    in.kind = "repo" /\ step = 2 =>
        /\ \A d \in Digests :
              LET f == GetFullManifestData(db, d)
              IN  /\ d \in DOMAIN out.refs => f.refs = out.refs[d]
                  /\ d \notin DOMAIN out.refs => f.refs = <<>>
                  /\ d \in DOMAIN out.stats => f.stats = out.stats[d]
                  /\ d \in DOMAIN out.sigs => f.sigs = out.sigs[d]
        /\ \A t \in DOMAIN out.tags :
              GetFullImageMetaFromProto(t, db, out.tags[t].dg).time = out.tags[t].time

(* Whatever the order in which images are added, the repository's last     *)
(* updated image is one with the latest time; one without a time only if   *)
(* none has one.                                                           *)
LatestWins ==
    in.kind = "times" /\ step = 4 =>
        LET here == {in.v[i] : i \in DOMAIN in.v} \ {NoImage}
        IN  /\ here = {} <=> out = NoImage
            /\ out # NoImage => out \in here /\ \A l \in here : l.time <= out.time

(* A repository lists each operating system and architecture once, and     *)
(* none that it was given is missing.                                      *)
PlatformsOnce ==
    in.kind = "platforms" /\ step = 4 =>
        LET pair(p) == <<p.os, p.arch>>
        IN  /\ \A i, j \in DOMAIN out : pair(out[i]) = pair(out[j]) => i = j
            /\ {pair(out[i]) : i \in DOMAIN out} = {pair(in.v[i]) : i \in DOMAIN in.v}

-----------------------------------------------------------------------------
(* The inputs that are converted: one manifest, layer, member or subject of *)
(* each shape.                                                             *)

SomePlatform == [os |-> "l", arch |-> "x", ver |-> "1"]
Descs(mts) == [mt : mts, dg : {"d1"}, size : {5}, rest : {"", "u"}, ann : {"", "n"},
               plat : {NoPlatform, SomePlatform}, at : {"", "t"}]
Lists(S) == {<<>>} \union {<<x>> : x \in S}
Histories == Lists([created : {Nil, 2, 3}, text : {"h"}])
             \union {<<[created |-> 3, text |-> "h"], [created |-> c, text |-> "h"]>> : c \in {Nil, 2}}
Manifests == [mt : {"", "manifest"}, at : {"", "t"}, ann : {"n"},
              config : {Bare([mt |-> "config", dg |-> "d2", size |-> 1])},
              layers : Lists({d \in Descs({"layer"}) : d.at = ""}),
              subject : {NoDesc} \union {d \in Descs({"manifest"}) : d.plat = NoPlatform}]
Configs == [created : {Nil, Zero, 2}, text : {"c"}, plat : {NoPlatform, SomePlatform},
            hist : Histories]
AllIndexes == [mt : {"", "index"}, at : {"", "t"}, ann : {"n"},
            manifests : Lists(Descs({"manifest", "index", "layer"})),
            subject : {NoDesc} \union {d \in Descs({"manifest"}) : d.plat = NoPlatform}]
AllImages ==
    {GetImageManifestMeta(m, c, 7, "d1", mt) :
        m \in {n \in Manifests : n.subject = NoDesc \/ n.layers = <<>>},
        c \in Configs, mt \in {"", "docker-manifest"}}
    \union {GetImageIndexMeta(i, 7, "d1", mt) :
        i \in {n \in AllIndexes : n.subject = NoDesc \/ n.manifests = <<>>},
        mt \in {"", "docker-list"}}

Partial(D, R) == UNION {[E -> R] : E \in SUBSET D}
Statistics == [count : {0, 3}, lastPull : {Zero, 2}, push : {2}, by : {"u"}]
Layers == [dg : {"d2"}, key : {"k"}, date : {Zero, 2}]
Signed == Lists([dg : {"d2"}, layers : Lists(Layers)])
AllRefs == Lists([dg : {"d2"}, at : {"t"}, ann : {"n"}, size : {1}])
Lasts == [dg : {"d1"}, tag : {"v1"}, time : {Nil, 2}]
Repos ==
    [tags : Partial(Tags, [dg : Digests, time : {Zero, 2}]),
     stats : Partial({"d1"}, Statistics),
     sigs : Partial({"d1"}, [{"cosign"} -> Signed]),
     refs : Partial({"d1"}, AllRefs),
     plats : {<<>>, <<SomePlatform>>},
     last : {NoImage} \union Lasts, stars : {1}, downloads : {0}]

Times3 == {NoImage} \union [dg : {"d1", "d2"}, time : {Nil} \union Times]
Inputs ==
    [kind : {"image"}, v : AllImages]
    \union [kind : {"repo"}, v : {r \in Repos : r.last = NoImage \/ r.plats = <<>>}]
    \union [kind : {"times"}, v : UNION {[1..n -> Times3] : n \in 0..3}]
    \union [kind : {"platforms"}, v : UNION {[1..n -> Platforms] : n \in 0..3}]

Init == /\ in \in Inputs
        /\ db = Nothing /\ out = Nothing /\ first = Nothing
        /\ step = 0
Spec == Init /\ [][Next]_vars
=============================================================================
