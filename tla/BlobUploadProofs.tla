-------------------------- MODULE BlobUploadProofs --------------------------
(* Proofs about blob uploads, for any number of requests, sessions and       *)
(* bytes.  The inductive invariant UploadInv says what a request may still   *)
(* count on while others work on the same file: where its writer stands,     *)
(* that a content whose digest was taken is the one that was verified unless *)
(* a writer was about, and, for a session used by one request at a time, how *)
(* its file, the rest of the body and the acknowledged chunks add up.        *)
EXTENDS BlobUpload, SequenceTheorems, TLAPS

Pcs == {"idle", "open", "write", "cancel", "verify", "move"}

\* What a request slot holds.
Requests == [pc : Pcs, op : Ops \cup {"none"}, s : Sessions \cup {None}, body : Seq(Bytes),
             chunk : Contents, from : Nat, off : Nat, d : Contents, full : BOOLEAN]

\* The kinds of the variables, with the shape of the requests.
Typed ==
    /\ layout \in BOOLEAN /\ upload \in [Sessions -> BOOLEAN]
    /\ file \in [Sessions -> Contents] /\ blob \in [Contents -> Sessions \cup {None}]
    /\ used \subseteq Sessions /\ shared \subseteq Sessions /\ messy \subseteq Sessions
    /\ acked \in [Sessions -> Contents] /\ req \in [Reqs -> Requests]
    /\ requests \in 0..MaxRequests

\* A session that was not drawn has nothing, and nobody works on it.
Fresh ==
    \A s \in Sessions : s \notin used =>
        /\ ~upload[s] /\ file[s] = <<>> /\ acked[s] = <<>> /\ s \notin messy
        /\ \A d \in Contents : blob[d] # s

\* A request at work has a session that was drawn; a writer stands inside its file; an idle slot
\* is empty.
AtWork(q) ==
    /\ req[q].pc # "idle" => req[q].s \in used
    /\ req[q].pc = "idle" => req[q] = Rest
    /\ req[q].off <= MaxSize
    /\ req[q].pc = "open" => req[q].body = req[q].chunk
    /\ req[q].pc = "write" => req[q].off <= Len(file[req[q].s])

\* A content whose digest was taken is still the one that was verified, and nobody writes it.
Verified(q) ==
    req[q].pc = "move" /\ req[q].s \notin shared =>
        file[req[q].s] = req[q].d /\ Writers(req[q].s) = {}

\* A blob is the file of a session that is over, has the content of its name, and nobody
\* writes it.
Stored(d) ==
    blob[d] # None =>
        /\ blob[d] \in used /\ ~upload[blob[d]]
        /\ blob[d] \notin shared => file[blob[d]] = d /\ Writers(blob[d]) = {}

\* One request at a time is at work on a session that is not messy.
Single(s) ==
    s \notin messy => \A p, q \in Busy(s) : p = q

\* The file of a session that is not messy: with the rest of the body of the request that writes
\* it, it is what was acknowledged and that request's chunk.
Adds(s) ==
    s \notin messy =>
        /\ Writers(s) = {} => file[s] = acked[s]
        /\ \A q \in Writers(s) :
              /\ file[s] \o req[q].body = acked[s] \o req[q].chunk
              /\ req[q].off = Len(file[s])
              /\ req[q].op # "stream" => req[q].from = Len(acked[s])

UploadInv ==
    /\ Typed /\ Fresh /\ BlobsWalkable
    /\ \A q \in Reqs : AtWork(q) /\ Verified(q)
    /\ \A d \in Contents : Stored(d)
    /\ \A s \in Sessions : Single(s) /\ Adds(s)

-----------------------------------------------------------------------------
\* A content is a sequence of bytes that is not too long.
LEMMA ContentsAreShort == \A c : c \in Contents <=> c \in Seq(Bytes) /\ Len(c) <= MaxSize
<1> TAKE c
<1>1. ASSUME c \in Contents PROVE c \in Seq(Bytes) /\ Len(c) <= MaxSize
  <2>1. PICK n \in 0..MaxSize : c \in [1..n -> Bytes]
    BY <1>1 DEF Contents
  <2>2. c \in Seq(Bytes) /\ Len(c) = n
    BY <2>1, BlobUploadAssumption
  <2> QED BY <2>1, <2>2, BlobUploadAssumption
<1>2. ASSUME c \in Seq(Bytes), Len(c) <= MaxSize PROVE c \in Contents
  <2>1. Len(c) \in 0..MaxSize /\ c \in [1..Len(c) -> Bytes]
    BY <1>2, BlobUploadAssumption
  <2> QED BY <2>1 DEF Contents
<1> QED BY <1>1, <1>2

\* Bodies and the empty sequence are contents.
LEMMA SmallContents == <<>> \in Contents /\ Bodies \subseteq Contents
<1>1. <<>> \in Contents
  <2>1. <<>> \in Seq(Bytes) /\ Len(<<>>) = 0
    BY EmptySeq
  <2>2. Len(<<>>) <= MaxSize
    BY <2>1, BlobUploadAssumption
  <2> QED BY <2>1, <2>2, ContentsAreShort
<1>2. ASSUME NEW b \in Bodies PROVE b \in Contents
  <2>1. PICK n \in 1..MaxSize : b \in [1..n -> Bytes]
    BY BlobUploadAssumption
  <2>2. n \in 0..MaxSize
    BY BlobUploadAssumption
  <2> QED BY <2>1, <2>2 DEF Contents
<1> QED BY <1>1, <1>2

\* An empty slot.
LEMMA RestTyped == Rest \in Requests /\ Rest.pc = "idle" /\ Rest.off = 0
  BY SmallContents DEF Rest, Requests, Pcs

\* The sizes are natural numbers.
LEMMA Sizes == MaxSize \in Nat /\ MaxRequests \in Nat /\ None \notin Sessions /\ None \notin Reqs
  BY BlobUploadAssumption

\* What a write of one byte makes of a content: it is longer by one at the end, and of the same
\* length elsewhere.
LEMMA PutByteFacts ==
    ASSUME NEW c \in Seq(Bytes), NEW off \in 0..Len(c), NEW b \in Bytes
    PROVE  /\ PutByte(c, off, b) \in Seq(Bytes)
           /\ off < Len(c) => Len(PutByte(c, off, b)) = Len(c)
           /\ off = Len(c) => PutByte(c, off, b) = Append(c, b)
<1>1. CASE off < Len(c)
  <2>0. off + 1 \in 1..Len(c)
    BY <1>1
  <2>1. [c EXCEPT ![off + 1] = b] \in Seq(Bytes) /\ Len([c EXCEPT ![off + 1] = b]) = Len(c)
    BY <2>0, ExceptSeq
  <2>2. PutByte(c, off, b) = [c EXCEPT ![off + 1] = b]
    BY <1>1 DEF PutByte
  <2>3. off # Len(c)
    BY <1>1
  <2> QED BY <1>1, <2>1, <2>2, <2>3
<1>2. CASE off = Len(c)
  BY <1>2 DEF PutByte
<1> QED BY <1>1, <1>2

\* Moving the first byte of the rest to the end of what is written changes nothing of the whole.
LEMMA ByteMoves ==
    ASSUME NEW c \in Seq(Bytes), NEW r \in Seq(Bytes), r # <<>>
    PROVE  Append(c, Head(r)) \o Tail(r) = c \o r
<1>1. Head(r) \in Bytes /\ Tail(r) \in Seq(Bytes) /\ Len(r) > 0 /\ Len(Tail(r)) = Len(r) - 1
  OBVIOUS
<1>2. Append(c, Head(r)) \in Seq(Bytes) /\ Len(Append(c, Head(r))) = Len(c) + 1
  BY <1>1
<1>3. \A j \in 1..Len(r) - 1 : Tail(r)[j] = r[j + 1]
  BY <1>1
<1>4. /\ Append(c, Head(r)) \o Tail(r) \in Seq(Bytes) /\ c \o r \in Seq(Bytes)
      /\ Len(Append(c, Head(r)) \o Tail(r)) = Len(c) + Len(r) /\ Len(c \o r) = Len(c) + Len(r)
  BY <1>1, <1>2
<1>5. ASSUME NEW j \in 1..Len(c) + Len(r)
      PROVE  (Append(c, Head(r)) \o Tail(r))[j] = (c \o r)[j]
  <2>1. CASE j <= Len(c)
    BY <1>1, <1>2, <2>1
  <2>2. CASE j = Len(c) + 1
    BY <1>1, <1>2, <2>2
  <2>3. CASE j > Len(c) + 1
    <3>1. j - (Len(c) + 1) \in 1..Len(r) - 1
      BY <1>1, <2>3
    <3>2. (Append(c, Head(r)) \o Tail(r))[j] = Tail(r)[j - (Len(c) + 1)]
      BY <1>1, <1>2, <2>3
    <3>3. (c \o r)[j] = r[j - Len(c)]
      BY <2>3
    <3> QED BY <3>1, <3>2, <3>3, <1>3
  <2> QED BY <2>1, <2>2, <2>3
<1> QED BY <1>4, <1>5, SeqEqual

-----------------------------------------------------------------------------
(* One lemma for every kind of step.                                         *)

\* The first state.
LEMMA UploadInvInit == Init => UploadInv
<1> SUFFICES ASSUME Init PROVE UploadInv
  OBVIOUS
<1> USE DEF Init
<1>1. Typed
  <2>1. layout \in BOOLEAN /\ upload \in [Sessions -> BOOLEAN]
    OBVIOUS
  <2>5. requests \in 0..MaxRequests
    BY Sizes
  <2>2. file \in [Sessions -> Contents] /\ acked \in [Sessions -> Contents]
    BY SmallContents
  <2>3. blob \in [Contents -> Sessions \cup {None}]
    OBVIOUS
  <2>4. req \in [Reqs -> Requests]
    BY RestTyped
  <2> QED BY <2>1, <2>2, <2>3, <2>4, <2>5 DEF Typed
<1>2. Fresh
  BY Sizes DEF Fresh
<1>3. BlobsWalkable
  BY DEF BlobsWalkable
<1>4. ASSUME NEW q \in Reqs PROVE AtWork(q) /\ Verified(q)
  BY RestTyped, Sizes DEF AtWork, Verified
<1>5. \A d \in Contents : Stored(d)
  BY DEF Stored
<1>6. ASSUME NEW s \in Sessions PROVE Single(s) /\ Adds(s)
  <2>1. Busy(s) = {} /\ Writers(s) = {}
    BY RestTyped DEF Busy, Writers
  <2> QED BY <2>1 DEF Single, Adds
<1> QED BY <1>1, <1>2, <1>3, <1>4, <1>5, <1>6 DEF UploadInv

\* What every step may use of a request at work.
LEMMA AtWorkFacts ==
    ASSUME UploadInv, NEW q \in Reqs
    PROVE  /\ req[q] \in Requests /\ req[q].body \in Seq(Bytes) /\ req[q].d \in Contents
           /\ req[q].pc # "idle" => req[q].s \in used /\ req[q].s \in Sessions
           /\ req[q].pc = "write" => /\ file[req[q].s] \in Seq(Bytes)
                                     /\ Len(file[req[q].s]) <= MaxSize
                                     /\ req[q].off \in 0..Len(file[req[q].s])
<1>1. req[q] \in Requests /\ req[q].body \in Seq(Bytes) /\ req[q].d \in Contents /\ req[q].off \in Nat
  BY DEF UploadInv, Typed, Requests
<1>2. req[q].pc # "idle" => req[q].s \in used /\ req[q].s \in Sessions
  BY DEF UploadInv, Typed, AtWork
<1>3. ASSUME req[q].pc = "write"
      PROVE  /\ file[req[q].s] \in Seq(Bytes) /\ Len(file[req[q].s]) <= MaxSize
             /\ req[q].off \in 0..Len(file[req[q].s])
  <2>1. file[req[q].s] \in Contents
    BY <1>2, <1>3 DEF UploadInv, Typed
  <2>2. file[req[q].s] \in Seq(Bytes) /\ Len(file[req[q].s]) <= MaxSize
    BY <2>1, ContentsAreShort
  <2>3. req[q].off <= Len(file[req[q].s])
    BY <1>3 DEF UploadInv, AtWork
  <2> QED BY <1>1, <2>2, <2>3
<1> QED BY <1>1, <1>2, <1>3

\* A step that only moves request q, to a place where it does not write, and not to "move":
\* the request begins on a session that was drawn, or it ends or gives up, maybe with its upload.
LEMMA QuietStep ==
    ASSUME UploadInv, NEW q \in Reqs, NEW r \in Requests,
           req' = [req EXCEPT ![q] = r],
           r.pc \notin {"write", "move"}, r.off <= MaxSize,
           r.pc = "idle" => r = Rest,
           r.pc # "idle" => r.s \in used,
           r.pc = "open" => r.body = r.chunk,
           messy \subseteq messy', messy' \subseteq messy \cup used,
           requests' \in 0..MaxRequests,
           r.pc # "idle" /\ r.s \notin messy' => Busy(r.s) \subseteq {q},
           req[q].pc = "write" => req[q].s \in messy',
           layout' \in BOOLEAN, layout => layout',
           upload' \in [Sessions -> BOOLEAN], \A z \in Sessions : upload'[z] => upload[z],
           UNCHANGED <<file, blob, used, shared, acked>>
    PROVE  UploadInv'
<1>0. \A p \in Reqs : req'[p] = IF p = q THEN r ELSE req[p]
  BY DEF UploadInv, Typed
<1>1. Typed'
  BY DEF UploadInv, Typed
<1>2. Fresh'
  BY DEF UploadInv, Fresh
<1>3. BlobsWalkable'
  BY DEF UploadInv, BlobsWalkable
<1>4. \A s : Writers(s)' \subseteq Writers(s)
  BY <1>0 DEF Writers
<1>5. ASSUME NEW p \in Reqs PROVE AtWork(p)'
  <2>1. CASE p = q
    BY <2>1, <1>0 DEF AtWork
  <2>2. CASE p # q
    BY <2>2, <1>0 DEF AtWork, UploadInv
  <2> QED BY <2>1, <2>2
<1>6. ASSUME NEW p \in Reqs PROVE Verified(p)'
  <2>1. CASE p = q
    BY <2>1, <1>0 DEF Verified
  <2>2. CASE p # q
    BY <2>2, <1>0, <1>4 DEF Verified, UploadInv
  <2> QED BY <2>1, <2>2
<1>7. ASSUME NEW d \in Contents PROVE Stored(d)'
  BY <1>4 DEF Stored, UploadInv, Typed
<1>8. ASSUME NEW s \in Sessions PROVE Single(s)'
  <2> SUFFICES ASSUME s \notin messy', NEW p1 \in Busy(s)', NEW p2 \in Busy(s)' PROVE p1 = p2
    BY DEF Single
  <2>1. \A p1a, p2a \in Busy(s) : p1a = p2a
    BY DEF UploadInv, Single
  <2>2. p1 \in Reqs /\ p2 \in Reqs /\ req'[p1].pc # "idle" /\ req'[p1].s = s
        /\ req'[p2].pc # "idle" /\ req'[p2].s = s
    BY DEF Busy
  <2>3. (p1 # q => p1 \in Busy(s)) /\ (p2 # q => p2 \in Busy(s))
    BY <2>2, <1>0 DEF Busy
  <2>4. ASSUME p1 = q \/ p2 = q PROVE Busy(s) \subseteq {q}
    BY <2>4, <2>2, <1>0
  <2> QED BY <2>1, <2>3, <2>4
<1>9. ASSUME NEW s \in Sessions PROVE Adds(s)'
  <2> SUFFICES ASSUME s \notin messy' PROVE Adds(s)'
    BY DEF Adds
  <2>1. Writers(s)' = Writers(s) /\ \A p \in Writers(s) : req'[p] = req[p]
    <3>1. q \notin Writers(s)
      BY DEF Writers
    <3>2. q \notin Writers(s)'
      BY <1>0 DEF Writers
    <3>3. \A p \in Reqs : p # q => req'[p] = req[p]
      BY <1>0
    <3> QED BY <3>1, <3>2, <3>3 DEF Writers
  <2>2. s \notin messy /\ Adds(s)
    BY DEF UploadInv
  <2> QED BY <2>1, <2>2 DEF Adds
<1> QED BY <1>1, <1>2, <1>3, <1>5, <1>6, <1>7, <1>8, <1>9 DEF UploadInv

\* A request that begins on a session that was drawn, and does not write yet.
LEMMA BeginStep ==
    ASSUME UploadInv, NEW q \in Reqs, NEW s \in used, NEW op \in Ops, NEW from \in Nat,
           NEW body \in Contents, NEW d \in Contents, NEW pc \in {"idle", "open", "cancel", "verify"},
           Begin(q, op, s, from, body, d, pc),
           UNCHANGED <<layout, upload, file, blob, used, shared, acked>>
    PROVE  UploadInv'
<1> DEFINE r == IF pc = "idle" THEN Rest
                ELSE [pc |-> pc, op |-> op, s |-> s, body |-> body, chunk |-> body,
                      from |-> from, off |-> 0, d |-> d, full |-> (op = "full")]
<1>1. req[q] = Rest /\ req' = [req EXCEPT ![q] = r]
  BY DEF Begin
<1>2. r \in Requests /\ r.off = 0 /\ r.pc = pc /\ (r.pc = "idle" => r = Rest)
      /\ (r.pc # "idle" => r.s = s /\ r.body = r.chunk)
  <2>1. body \in Seq(Bytes) /\ s \in Sessions
    BY ContentsAreShort DEF UploadInv, Typed
  <2>2. CASE pc = "idle"
    BY <2>2, RestTyped
  <2>3. CASE pc # "idle"
    <3>1. r = [pc |-> pc, op |-> op, s |-> s, body |-> body, chunk |-> body, from |-> from,
               off |-> 0, d |-> d, full |-> (op = "full")]
      BY <2>3
    <3> HIDE DEF r
    <3> QED BY <2>1, <2>3, <3>1, SmallContents DEF Requests, Pcs
  <2> QED BY <2>2, <2>3
<1>3. messy \subseteq messy' /\ messy' \subseteq messy \cup used
  BY DEF Begin
<1>4. requests' \in 0..MaxRequests
  BY Sizes DEF Begin, UploadInv, Typed
<1>5. ASSUME r.pc # "idle", r.s \notin messy' PROVE Busy(r.s) \subseteq {q}
  BY <1>5, <1>2 DEF Begin
<1>6. req[q].pc # "write" /\ r.off <= MaxSize
  BY <1>1, <1>2, RestTyped, Sizes
<1>7. layout' \in BOOLEAN /\ upload' \in [Sessions -> BOOLEAN]
  BY DEF UploadInv, Typed
<1> HIDE DEF r
<1> QED BY <1>1, <1>2, <1>3, <1>4, <1>5, <1>6, <1>7, QuietStep

\* The requests that begin.
LEMMA RequestStep ==
    ASSUME UploadInv, NEW q \in Reqs, Request(q)
    PROVE  UploadInv'
<1>0. Ranges \subseteq Nat /\ 0 \in Nat
  BY Sizes DEF Ranges
<1> USE SmallContents
<1>1. ASSUME NEW s \in Sessions, NewBlobUpload(q, s) PROVE UploadInv'
  <2> USE <1>1 DEF NewBlobUpload
  <2>0. req' = req
    BY DEF Begin, UploadInv, Typed
  <2>1. s \notin used /\ ~(s \in messy) /\ file[s] = <<>> /\ acked[s] = <<>> /\ ~upload[s]
        /\ \A d \in Contents : blob[d] # s
    BY DEF UploadInv, Fresh
  <2>2. Busy(s) = {}
    BY <2>1 DEF Busy, UploadInv, AtWork
  <2>3. messy' = messy
    BY <2>2 DEF Begin
  <2>4. Typed'
    <3>1. requests' \in 0..MaxRequests
      BY Sizes DEF Begin, UploadInv, Typed
    <3> QED BY <2>0, <2>3, <3>1 DEF UploadInv, Typed
  <2>5. Fresh'
    BY <2>3 DEF UploadInv, Fresh, Typed
  <2>6. BlobsWalkable'
    BY DEF BlobsWalkable
  <2>7. \A p \in Reqs : AtWork(p)' /\ Verified(p)'
    BY <2>0 DEF UploadInv, AtWork, Verified, Writers
  <2>8. \A d \in Contents : Stored(d)'
    BY <2>0, <2>1 DEF UploadInv, Typed, Stored, Writers
  <2>9. ASSUME NEW z \in Sessions PROVE Single(z)' /\ Adds(z)'
    <3>1. Busy(z)' = Busy(z) /\ Writers(z)' = Writers(z)
      BY <2>0 DEF Busy, Writers
    <3>2. Single(z) /\ Adds(z)
      BY DEF UploadInv
    <3>3. Single(z)'
      BY <2>3, <3>1, <3>2 DEF Single
    <3>4. Adds(z)'
      BY <2>0, <2>3, <3>1, <3>2 DEF Adds
    <3> QED BY <3>3, <3>4
  <2> QED BY <2>4, <2>5, <2>6, <2>7, <2>8, <2>9 DEF UploadInv
<1>2. ASSUME NEW s \in Sessions, DeleteBlobUpload(q, s) PROVE UploadInv'
  BY <1>2, BeginStep, <1>0 DEF DeleteBlobUpload, Ops
<1>3. ASSUME NEW s \in Sessions, GetBlobUpload(q, s) PROVE UploadInv'
  BY <1>3, BeginStep, <1>0 DEF GetBlobUpload, Ops
<1>4. ASSUME NEW s \in Sessions, NEW body \in Bodies, NEW from \in Ranges,
             PatchBlobUpload(q, s, from, body)
      PROVE  UploadInv'
  BY <1>4, BeginStep, <1>0 DEF PatchBlobUpload, Ops
<1>5. ASSUME NEW s \in Sessions, NEW body \in Bodies, PatchBlobUploadStreamed(q, s, body)
      PROVE  UploadInv'
  BY <1>5, BeginStep, <1>0 DEF PatchBlobUploadStreamed, Ops
<1>6. ASSUME NEW s \in Sessions, NEW body \in Bodies \cup {<<>>}, NEW from \in Nat, NEW d \in Bodies,
             UpdateBlobUpload(q, s, from, body, d)
      PROVE  UploadInv'
  BY <1>6, BeginStep, <1>0 DEF UpdateBlobUpload, Ops
<1>7. ASSUME NEW s \in Sessions, NEW body \in Bodies, NEW d \in Bodies,
             FullBlobUpload(q, s, body, d)
      PROVE  UploadInv'
  <2> USE <1>7 DEF FullBlobUpload
  <2>0. PICK op \in Ops : op = "full"
    BY DEF Ops
  <2> DEFINE r == [pc |-> "write", op |-> op, s |-> s, body |-> body, chunk |-> body,
                   from |-> 0, off |-> 0, d |-> d, full |-> (op = "full")]
  <2>1. s \notin used /\ s \notin messy /\ file[s] = <<>> /\ acked[s] = <<>> /\ ~upload[s]
        /\ \A e \in Contents : blob[e] # s
    BY DEF UploadInv, Fresh
  <2>2. \A p \in Reqs : req[p].pc # "idle" => req[p].s # s
    BY <2>1 DEF UploadInv, AtWork
  <2>3. Busy(s) = {} /\ messy' = messy
    BY <2>2 DEF Busy, Begin
  <2>4. r \in Requests
    BY ContentsAreShort DEF Requests, Pcs, Ops
  <2>5. req' = [req EXCEPT ![q] = r]
    BY <2>0 DEF Begin
  <2> HIDE DEF r
  <2>6. \A p \in Reqs : req'[p] = IF p = q THEN r ELSE req[p]
    BY <2>5 DEF UploadInv, Typed
  <2>7. r.pc = "write" /\ r.s = s /\ r.off = 0 /\ r.body = body /\ r.chunk = body /\ r.from = 0
    BY DEF r
  <2>8. \A z \in Sessions : Writers(z)' = IF z = s THEN {q} ELSE Writers(z) \ {q}
    BY <2>2, <2>6, <2>7 DEF Writers
  <2>9. req[q].pc = "idle"
    BY RestTyped DEF Begin
  <2>10. \A z \in Sessions : q \notin Writers(z)
    BY <2>9 DEF Writers
  <2>11. Len(file[s]) = 0 /\ 0 <= MaxSize /\ Len(acked[s]) = 0
    BY <2>1, EmptySeq, Sizes
  <2>12. Typed'
    <3>1. requests' \in 0..MaxRequests
      BY Sizes DEF Begin, UploadInv, Typed
    <3> QED BY <2>3, <2>4, <2>5, <3>1 DEF UploadInv, Typed
  <2>13. Fresh'
    BY <2>3 DEF UploadInv, Fresh, Typed
  <2>14. BlobsWalkable'
    BY DEF UploadInv, BlobsWalkable
  <2>15. ASSUME NEW p \in Reqs PROVE AtWork(p)'
    <3>1. CASE p = q
      BY <3>1, <2>6, <2>7, <2>11 DEF AtWork
    <3>2. CASE p # q
      BY <3>2, <2>6 DEF AtWork, UploadInv
    <3> QED BY <3>1, <3>2
  <2>16. ASSUME NEW p \in Reqs PROVE Verified(p)'
    <3>1. CASE p = q
      BY <3>1, <2>6, <2>7 DEF Verified
    <3>2. CASE p # q
      BY <3>2, <2>2, <2>6, <2>8, AtWorkFacts DEF Verified, UploadInv
    <3> QED BY <3>1, <3>2
  <2>17. ASSUME NEW e \in Contents PROVE Stored(e)'
    BY <2>1, <2>8 DEF Stored, UploadInv, Typed
  <2>18. ASSUME NEW z \in Sessions PROVE Single(z)'
    <3>1. CASE z = s
      <4>1. \A p \in Busy(s)' : p = q
        BY <2>2, <2>6 DEF Busy
      <4> QED BY <3>1, <4>1 DEF Single
    <3>2. CASE z # s
      <4>1. Busy(z)' \subseteq Busy(z)
        BY <3>2, <2>6, <2>7 DEF Busy
      <4> QED BY <4>1, <2>3 DEF Single, UploadInv
    <3> QED BY <3>1, <3>2
  <2>19. ASSUME NEW z \in Sessions PROVE Adds(z)'
    <3>1. CASE z = s
      BY <3>1, <2>1, <2>6, <2>7, <2>8, <2>11 DEF Adds
    <3>2. CASE z # s
      <4>1. Writers(z)' = Writers(z) /\ \A p \in Writers(z) : req'[p] = req[p]
        BY <3>2, <2>6, <2>8, <2>10 DEF Writers
      <4>2. Adds(z)
        BY DEF UploadInv
      <4> QED BY <4>1, <4>2, <2>3 DEF Adds
    <3> QED BY <3>1, <3>2
  <2> QED BY <2>12, <2>13, <2>14, <2>15, <2>16, <2>17, <2>18, <2>19 DEF UploadInv
<1>8. ASSUME NEW d \in Bodies, MountBlob(q, d) PROVE UploadInv'
  <2>1. requests' \in 0..MaxRequests
    BY <1>8, Sizes DEF MountBlob, UploadInv, Typed
  <2> QED BY <1>8, <2>1 DEF MountBlob, UploadInv, Typed, Fresh, BlobsWalkable, AtWork, Verified,
                            Stored, Single, Adds, Busy, Writers
<1> QED BY <1>0, <1>1, <1>2, <1>3, <1>4, <1>5, <1>6, <1>7, <1>8 DEF Request

\* A request that ends without having written, or whose session is messy.
LEMMA EndStep ==
    ASSUME UploadInv, NEW q \in Reqs, req' = [req EXCEPT ![q] = Rest],
           messy \subseteq messy', messy' \subseteq messy \cup used,
           req[q].pc = "write" => req[q].s \in messy',
           UNCHANGED <<layout, upload, file, blob, used, shared, acked, requests>>
    PROVE  UploadInv'
<1>1. Rest.off <= MaxSize /\ requests' \in 0..MaxRequests /\ layout' \in BOOLEAN
  BY RestTyped, Sizes DEF UploadInv, Typed
<1>2. upload' \in [Sessions -> BOOLEAN]
  BY DEF UploadInv, Typed
<1> QED BY <1>1, <1>2, RestTyped, QuietStep

\* A request that goes on to verify or gives up, and keeps its session.
LEMMA GotoStep ==
    ASSUME UploadInv, NEW q \in Reqs, NEW l \in {"cancel", "verify"},
           req[q].pc # "idle", Goto(q, l),
           messy \subseteq messy', messy' \subseteq messy \cup used,
           req[q].pc = "write" => req[q].s \in messy',
           layout' \in BOOLEAN, layout => layout',
           UNCHANGED <<upload, file, blob, used, shared, acked, requests>>
    PROVE  UploadInv'
<1> DEFINE r == [req[q] EXCEPT !.pc = l]
<1>1. req' = [req EXCEPT ![q] = r]
  BY DEF Goto
<1>2. req[q] \in Requests /\ req[q].s \in used /\ req[q].s \in Sessions /\ req[q].off <= MaxSize
  BY AtWorkFacts DEF UploadInv, AtWork
<1>3. r \in Requests /\ r.pc = l /\ r.s = req[q].s /\ r.off = req[q].off
  BY <1>2 DEF Requests, Pcs
<1>4. ASSUME r.s \notin messy' PROVE Busy(r.s) \subseteq {q}
  <2>1. q \in Busy(req[q].s)
    BY DEF Busy
  <2>2. Single(req[q].s) /\ req[q].s \notin messy
    BY <1>2, <1>3, <1>4 DEF UploadInv
  <2> QED BY <2>1, <2>2, <1>3 DEF Single
<1>5. requests' \in 0..MaxRequests /\ upload' \in [Sessions -> BOOLEAN]
  BY DEF UploadInv, Typed
<1> HIDE DEF r
<1>6. r.pc \notin {"write", "move", "idle", "open"}
  BY <1>3
<1> QED BY <1>1, <1>2, <1>3, <1>4, <1>5, <1>6, QuietStep

\* A chunk starts where the file ends.
LEMMA OpenStep ==
    ASSUME UploadInv, NEW q \in Reqs, OpenWriter(q)
    PROVE  UploadInv'
<1>s. PICK s \in Sessions : s = req[q].s /\ s \in used
  BY AtWorkFacts DEF OpenWriter
<1> DEFINE r == [req[q] EXCEPT !.pc = "write", !.off = Len(file[s])]
<1>0. req[q].pc = "open" /\ s \in used /\ s \in Sessions /\ req[q] \in Requests /\ req[q].s = s
  BY <1>s, AtWorkFacts DEF OpenWriter
<1>1. CASE ~upload[s] \/ (req[q].op # "stream" /\ req[q].from # Len(file[s]))
  <2>1. req' = [req EXCEPT ![q] = Rest]
        /\ UNCHANGED <<layout, upload, file, blob, used, shared, acked, messy, requests>>
    BY <1>0, <1>1 DEF OpenWriter, End
  <2> QED BY <2>1, <1>0, EndStep
<1>2. CASE ~(~upload[s] \/ (req[q].op # "stream" /\ req[q].from # Len(file[s])))
  <2> DEFINE found == \E p \in Reqs : req[p].s = s /\ req[p].pc = "move"
  <2>1. req' = [req EXCEPT ![q].pc = "write", ![q].off = Len(file[s])]
        /\ shared' = (IF found THEN shared \cup {s} ELSE shared)
        /\ UNCHANGED <<layout, upload, file, blob, used, acked, messy, requests>>
    BY <1>0, <1>2 DEF OpenWriter
  <2>2. file[s] \in Seq(Bytes) /\ Len(file[s]) \in Nat /\ Len(file[s]) <= MaxSize
    BY <1>0, ContentsAreShort DEF UploadInv, Typed
  <2>3. r \in Requests /\ r.pc = "write" /\ r.s = s /\ r.off = Len(file[s]) /\ r.body = req[q].body
        /\ r.chunk = req[q].chunk /\ r.op = req[q].op /\ r.from = req[q].from
    BY <1>0, <2>2 DEF Requests, Pcs
  <2>4. \A p \in Reqs : req'[p] = IF p = q THEN r ELSE req[p]
    BY <2>1, <1>0 DEF UploadInv, Typed
  <2> HIDE DEF r
  <2>5. \A z \in Sessions : Writers(z)' = IF z = s THEN Writers(z) \cup {q} ELSE Writers(z)
    BY <1>0, <2>3, <2>4 DEF Writers
  <2>6. q \notin Writers(s) /\ q \in Busy(s)
    BY <1>0 DEF Writers, Busy
  <2>7. shared \subseteq shared' /\ shared' \subseteq Sessions
    BY <1>0, <2>1 DEF UploadInv, Typed
  <2>8. Typed'
    <3>1. req' \in [Reqs -> Requests]
      BY <1>0, <2>1, <2>3, <2>4 DEF UploadInv, Typed
    <3> QED BY <2>1, <2>7, <3>1 DEF UploadInv, Typed
  <2>9. Fresh' /\ BlobsWalkable'
    BY <2>1 DEF UploadInv, Fresh, BlobsWalkable
  <2>10. ASSUME NEW p \in Reqs PROVE AtWork(p)'
    <3>1. CASE p = q
      <4>1. req'[p] = r /\ file' = file /\ used' = used
        BY <3>1, <2>1, <2>4
      <4> QED BY <4>1, <1>0, <2>2, <2>3 DEF AtWork
    <3>2. CASE p # q
      <4>1. req'[p] = req[p] /\ file' = file /\ used' = used /\ AtWork(p)
        BY <3>2, <2>1, <2>4 DEF UploadInv
      <4> QED BY <4>1 DEF AtWork
    <3> QED BY <3>1, <3>2
  <2>11. ASSUME NEW p \in Reqs PROVE Verified(p)'
    <3>1. CASE p = q
      BY <3>1, <2>3, <2>4 DEF Verified
    <3>2. CASE p # q
      <4> SUFFICES ASSUME req[p].pc = "move", req[p].s \notin shared'
                   PROVE  file[req[p].s] = req[p].d /\ Writers(req[p].s)' = {}
        BY <3>2, <2>1, <2>4 DEF Verified
      <4>1. req[p].s # s
        BY <2>1
      <4>2. req[p].s \in Sessions /\ Verified(p) /\ req[p].s \notin shared
        BY <2>7, AtWorkFacts DEF UploadInv
      <4> QED BY <3>2, <4>1, <4>2, <2>4, <2>5 DEF Verified
    <3> QED BY <3>1, <3>2
  <2>12. ASSUME NEW d \in Contents PROVE Stored(d)'
    <3>1. blob[d] # s
      BY <1>0, <1>2, Sizes DEF UploadInv, Stored
    <3> QED BY <3>1, <2>1, <2>5, <2>7 DEF UploadInv, Typed, Stored
  <2>13. ASSUME NEW z \in Sessions PROVE Single(z)'
    <3>1. Busy(z)' = Busy(z)
      BY <1>0, <2>3, <2>4 DEF Busy
    <3> QED BY <3>1, <2>1 DEF Single, UploadInv
  <2>14. ASSUME NEW z \in Sessions PROVE Adds(z)'
    <3>0. Adds(z)
      BY DEF UploadInv
    <3>1. CASE z = s
      <4> SUFFICES ASSUME s \notin messy PROVE Adds(s)'
        BY <3>1, <2>1 DEF Adds
      <4>1. Writers(s) = {}
        <5>1. \A p \in Writers(s) : p \in Busy(s)
          BY DEF Writers, Busy
        <5>2. \A p1, p2 \in Busy(s) : p1 = p2
          BY <1>0 DEF UploadInv, Single
        <5> QED BY <2>6, <5>1, <5>2
      <4>2. file[s] = acked[s]
        BY <3>0, <3>1, <4>1 DEF Adds
      <4>3. req[q].body = req[q].chunk
        BY <1>0 DEF UploadInv, AtWork
      <4>4. Writers(s)' = {q}
        BY <1>0, <2>5, <4>1
      <4> QED BY <4>2, <4>3, <4>4, <2>1, <2>3, <2>4, <1>2 DEF Adds
    <3>2. CASE z # s
      <4>1. Writers(z)' = Writers(z) /\ \A p \in Writers(z) : req'[p] = req[p]
        BY <3>2, <2>4, <2>5, <1>0 DEF Writers
      <4> QED BY <4>1, <3>0, <2>1 DEF Adds
    <3> QED BY <3>1, <3>2
  <2> QED BY <2>8, <2>9, <2>10, <2>11, <2>12, <2>13, <2>14 DEF UploadInv
<1> QED BY <1>1, <1>2

\* A byte goes to the file of the request, where its writer stands.
LEMMA WriteStep ==
    ASSUME UploadInv, NEW q \in Reqs, WriteByte(q)
    PROVE  UploadInv'
<1>s. PICK s \in Sessions : s = req[q].s /\ s \in used
  BY AtWorkFacts DEF WriteByte
<1> DEFINE c == file[s]
           b == Head(req[q].body)
           r == [req[q] EXCEPT !.body = Tail(@), !.off = @ + 1]
           new == PutByte(c, req[q].off, b)
<1>0. req[q].pc = "write" /\ req[q].s = s /\ req[q] \in Requests /\ req[q].body # <<>>
  BY <1>s, AtWorkFacts DEF WriteByte
<1>1. /\ file' = [file EXCEPT ![s] = new]
      /\ req' = [req EXCEPT ![q].body = Tail(@), ![q].off = @ + 1]
      /\ UNCHANGED <<layout, upload, blob, used, shared, acked, messy, requests>>
      /\ Len(c) < MaxSize \/ req[q].off < Len(c)
  BY <1>s DEF WriteByte
<1>2. c \in Seq(Bytes) /\ Len(c) <= MaxSize /\ req[q].off \in 0..Len(c) /\ req[q].body \in Seq(Bytes)
  BY <1>0, AtWorkFacts
<1>3. b \in Bytes /\ Tail(req[q].body) \in Seq(Bytes)
  BY <1>0, <1>2
<1>4. /\ new \in Seq(Bytes)
      /\ req[q].off < Len(c) => Len(new) = Len(c)
      /\ req[q].off = Len(c) => new = Append(c, b)
  BY <1>2, <1>3, PutByteFacts
<1>5. Len(new) \in Nat /\ Len(c) <= Len(new) /\ Len(new) <= MaxSize /\ req[q].off + 1 <= Len(new)
  <2>1. Len(new) \in Nat /\ Len(c) \in Nat /\ MaxSize \in Nat
    BY <1>2, <1>4, Sizes
  <2> HIDE DEF new, c
  <2>2. CASE req[q].off < Len(c)
    BY <1>2, <1>4, <2>1, <2>2
  <2>3. CASE req[q].off = Len(c)
    <3>1. new = Append(c, b) /\ Len(new) = Len(c) + 1 /\ Len(c) < MaxSize
      BY <1>1, <1>2, <1>3, <1>4, <2>1, <2>3
    <3> QED BY <3>1, <2>1, <2>3
  <2> QED BY <1>2, <2>1, <2>2, <2>3
<1>6. new \in Contents
  BY <1>4, <1>5, ContentsAreShort
<1>7. r \in Requests /\ r.pc = "write" /\ r.s = s /\ r.off = req[q].off + 1 /\ r.chunk = req[q].chunk
      /\ r.op = req[q].op /\ r.from = req[q].from /\ r.body = Tail(req[q].body)
  <2>1. req[q].off + 1 \in Nat
    BY <1>2
  <2> QED BY <2>1, <1>0, <1>2, <1>3 DEF Requests
<1> HIDE DEF new, r
<1>8. \A p \in Reqs : req'[p] = IF p = q THEN r ELSE req[p]
  BY <1>1 DEF UploadInv, Typed, r
<1>9. \A z \in Sessions : file'[z] = IF z = s THEN new ELSE file[z]
  BY <1>1 DEF UploadInv, Typed
<1>10. \A z : Writers(z)' = Writers(z) /\ Busy(z)' = Busy(z)
  BY <1>0, <1>7, <1>8 DEF Writers, Busy
<1>11. q \in Writers(s)
  BY <1>0 DEF Writers
<1>12. Typed'
  <2>1. req' \in [Reqs -> Requests]
    BY <1>1, <1>7, <1>8 DEF UploadInv, Typed
  <2>2. file' \in [Sessions -> Contents]
    BY <1>1, <1>6 DEF UploadInv, Typed
  <2> QED BY <1>1, <2>1, <2>2 DEF UploadInv, Typed
<1>13. Fresh' /\ BlobsWalkable'
  BY <1>s, <1>1, <1>9 DEF UploadInv, Fresh, BlobsWalkable
<1>14. ASSUME NEW p \in Reqs PROVE AtWork(p)'
  <2>1. CASE p = q
    <3>1. req'[p] = r /\ file'[s] = new /\ used' = used
      BY <2>1, <1>1, <1>8, <1>9
    <3>2. r.off <= Len(new) /\ r.off <= MaxSize
      BY <1>2, <1>5, <1>7, Sizes
    <3> QED BY <3>1, <3>2, <1>s, <1>7 DEF AtWork
  <2>2. CASE p # q
    <3>1. req'[p] = req[p] /\ used' = used /\ AtWork(p)
      BY <2>2, <1>1, <1>8 DEF UploadInv
    <3>2. ASSUME req[p].pc = "write" PROVE req[p].off <= Len(file'[req[p].s])
      <4>1. req[p].s \in Sessions /\ req[p].off \in 0..Len(file[req[p].s])
        BY <3>2, AtWorkFacts
      <4>2. CASE req[p].s = s
        BY <4>1, <4>2, <1>2, <1>5, <1>9
      <4>3. CASE req[p].s # s
        BY <4>1, <4>3, <1>9
      <4> QED BY <4>2, <4>3
    <3> QED BY <3>1, <3>2 DEF AtWork
  <2> QED BY <2>1, <2>2
<1>15. ASSUME NEW p \in Reqs PROVE Verified(p)'
  <2>1. CASE p = q
    BY <2>1, <1>7, <1>8 DEF Verified
  <2>2. CASE p # q
    <3> SUFFICES ASSUME req[p].pc = "move", req[p].s \notin shared
                 PROVE  file'[req[p].s] = req[p].d /\ Writers(req[p].s)' = {}
      <4>1. req'[p] = req[p] /\ shared' = shared
        BY <2>2, <1>1, <1>8
      <4> QED BY <4>1 DEF Verified
    <3>1. file[req[p].s] = req[p].d /\ Writers(req[p].s) = {} /\ req[p].s \in Sessions
      BY AtWorkFacts DEF UploadInv, Verified
    <3>2. req[p].s # s
      BY <3>1, <1>11
    <3> QED BY <2>2, <3>1, <3>2, <1>8, <1>9, <1>10
  <2> QED BY <2>1, <2>2
<1>16. ASSUME NEW d \in Contents PROVE Stored(d)'
  <2> SUFFICES ASSUME blob[d] # None
               PROVE  /\ blob[d] \in used /\ ~upload[blob[d]]
                      /\ blob[d] \notin shared => file'[blob[d]] = d /\ Writers(blob[d])' = {}
    BY <1>1 DEF Stored
  <2>1. blob[d] \in used /\ ~upload[blob[d]] /\ blob[d] \in Sessions
    BY DEF UploadInv, Stored, Typed
  <2>2. ASSUME blob[d] \notin shared PROVE file'[blob[d]] = d /\ Writers(blob[d])' = {}
    <3>1. file[blob[d]] = d /\ Writers(blob[d]) = {}
      BY <2>2 DEF UploadInv, Stored
    <3>2. blob[d] # s
      BY <3>1, <1>11
    <3> QED BY <2>1, <3>1, <3>2, <1>1, <1>9, <1>10
  <2> QED BY <2>1, <2>2
<1>17. ASSUME NEW z \in Sessions PROVE Single(z)'
  BY <1>1, <1>10 DEF Single, UploadInv
<1>18. ASSUME NEW z \in Sessions PROVE Adds(z)'
  <2>0. Adds(z)
    BY DEF UploadInv
  <2>1. CASE z = s
    <3> SUFFICES ASSUME s \notin messy PROVE Adds(s)'
      BY <2>1, <1>1 DEF Adds
    <3>1. Writers(s) = {q}
      <4>1. \A p \in Writers(s) : p \in Busy(s)
        BY DEF Writers, Busy
      <4>2. \A p1, p2 \in Busy(s) : p1 = p2
        BY <1>s DEF UploadInv, Single
      <4> QED BY <1>11, <4>1, <4>2
    <3>2. /\ c \o req[q].body = acked[s] \o req[q].chunk /\ req[q].off = Len(c)
          /\ req[q].op # "stream" => req[q].from = Len(acked[s])
      BY <2>0, <2>1, <3>1 DEF Adds
    <3>3. new = Append(c, b) /\ Len(new) = Len(c) + 1
      BY <3>2, <1>2, <1>3, <1>4
    <3>4. new \o Tail(req[q].body) = c \o req[q].body
      BY <3>3, <1>0, <1>2, ByteMoves
    <3>5. file'[s] \o r.body = acked[s] \o r.chunk /\ r.off = Len(file'[s])
          /\ (r.op # "stream" => r.from = Len(acked[s]))
      BY <3>2, <3>3, <3>4, <1>s, <1>7, <1>9
    <3>6. Writers(s)' = {q} /\ req'[q] = r /\ acked' = acked
      BY <3>1, <1>1, <1>8, <1>10
    <3> QED BY <3>5, <3>6 DEF Adds
  <2>2. CASE z # s
    <3>1. Writers(z)' = Writers(z) /\ file'[z] = file[z] /\ acked' = acked /\ messy' = messy
      BY <2>2, <1>1, <1>9, <1>10
    <3>2. \A p \in Writers(z) : req'[p] = req[p]
      BY <2>2, <1>0, <1>8 DEF Writers
    <3> QED BY <3>1, <3>2, <2>0 DEF Adds
  <2> QED BY <2>1, <2>2
<1> QED BY <1>12, <1>13, <1>14, <1>15, <1>16, <1>17, <1>18 DEF UploadInv

\* The chunks that were acknowledged, and the rest of the file when the body has ended.
LEMMA BeforeAll ==
    ASSUME NEW c \in Seq(Bytes), NEW r \in Requests, r.op # "stream" => r.from = Len(c)
    PROVE  Before(c, r) = c
<1>1. CASE r.op = "stream"
  BY <1>1 DEF Before
<1>2. CASE r.op # "stream"
  <2>1. SubSeq(c, 1, Len(c)) = c
    BY SubSeqFull
  <2>2. ~(r.from > Len(c))
    BY <1>2
  <2> QED BY <1>2, <2>1, <2>2 DEF Before
<1> QED BY <1>1, <1>2

\* The body ends.
LEMMA CloseStep ==
    ASSUME UploadInv, NEW q \in Reqs, CloseWriter(q)
    PROVE  UploadInv'
<1>s. PICK s \in Sessions : s = req[q].s /\ s \in used
  BY AtWorkFacts DEF CloseWriter
<1>0. req[q].pc = "write" /\ req[q].s = s /\ req[q] \in Requests /\ req[q].body = <<>>
  BY <1>s, AtWorkFacts DEF CloseWriter
<1>1. CASE req[q].op \notin {"patch", "stream"}
  <2>1. Goto(q, "verify") /\ messy' = messy \cup {s}
        /\ UNCHANGED <<layout, upload, file, blob, used, shared, acked, requests>>
    BY <1>1, <1>0 DEF CloseWriter
  <2>2. layout' \in BOOLEAN
    BY <2>1 DEF UploadInv, Typed
  <2> QED BY <2>1, <2>2, <1>s, <1>0, GotoStep
<1>2. CASE req[q].op \in {"patch", "stream"} /\ s \in messy
  <2>1. req' = [req EXCEPT ![q] = Rest]
        /\ UNCHANGED <<layout, upload, file, blob, used, shared, acked, messy, requests>>
    BY <1>2, <1>0 DEF CloseWriter, End
  <2> QED BY <2>1, <1>2, <1>0, EndStep
<1>3. CASE req[q].op \in {"patch", "stream"} /\ s \notin messy
  <2>1. /\ req' = [req EXCEPT ![q] = Rest]
        /\ acked' = [acked EXCEPT ![s] = Before(@, req[q]) \o req[q].chunk]
        /\ UNCHANGED <<layout, upload, file, blob, used, shared, messy, requests>>
    BY <1>3, <1>0 DEF CloseWriter, End
  <2>2. q \in Writers(s) /\ q \in Busy(s)
    BY <1>0 DEF Writers, Busy
  <2>3. Writers(s) = {q} /\ Busy(s) = {q}
    <3>1. \A p \in Writers(s) : p \in Busy(s)
      BY DEF Writers, Busy
    <3>2. \A p1, p2 \in Busy(s) : p1 = p2
      BY <1>3 DEF UploadInv, Single
    <3> QED BY <2>2, <3>1, <3>2
  <2>4. file[s] \o <<>> = acked[s] \o req[q].chunk
        /\ (req[q].op # "stream" => req[q].from = Len(acked[s]))
    BY <1>0, <1>3, <2>2 DEF UploadInv, Adds
  <2>5. file[s] \in Contents /\ acked[s] \in Seq(Bytes) /\ file[s] \in Seq(Bytes)
    BY ContentsAreShort DEF UploadInv, Typed
  <2>6. Before(acked[s], req[q]) = acked[s] /\ file[s] \o <<>> = file[s]
    BY <1>0, <2>4, <2>5, BeforeAll, ConcatEmptySeq
  <2>7. acked' = [acked EXCEPT ![s] = file[s]]
    BY <2>1, <2>4, <2>6
  <2>8. \A p \in Reqs : req'[p] = IF p = q THEN Rest ELSE req[p]
    BY <2>1 DEF UploadInv, Typed
  <2>9. \A z : Writers(z)' \subseteq Writers(z) /\ Busy(z)' \subseteq Busy(z)
    BY <2>8, RestTyped DEF Writers, Busy
  <2>10. Typed'
    BY <2>1, <2>5, <2>7, RestTyped DEF UploadInv, Typed
  <2>11. Fresh' /\ BlobsWalkable'
    BY <2>1, <2>7, <1>s DEF UploadInv, Typed, Fresh, BlobsWalkable
  <2>12. ASSUME NEW p \in Reqs PROVE AtWork(p)' /\ Verified(p)'
    <3>1. CASE p = q
      BY <3>1, <2>8, RestTyped, Sizes DEF AtWork, Verified
    <3>2. CASE p # q
      <4>1. req'[p] = req[p] /\ file' = file /\ used' = used /\ shared' = shared
            /\ AtWork(p) /\ Verified(p)
        BY <3>2, <2>1, <2>8 DEF UploadInv
      <4> QED BY <4>1, <2>9 DEF AtWork, Verified
    <3> QED BY <3>1, <3>2
  <2>13. ASSUME NEW d \in Contents PROVE Stored(d)'
    BY <2>1, <2>9 DEF Stored, UploadInv
  <2>14. ASSUME NEW z \in Sessions PROVE Single(z)'
    BY <2>1, <2>9 DEF Single, UploadInv
  <2>15. ASSUME NEW z \in Sessions PROVE Adds(z)'
    <3>0. Adds(z)
      BY DEF UploadInv
    <3>1. CASE z = s
      <4>1. Writers(s)' = {}
        BY <2>3, <2>8, <2>9, RestTyped DEF Writers
      <4>2. file'[s] = acked'[s]
        BY <2>1, <2>7 DEF UploadInv, Typed
      <4> QED BY <3>1, <4>1, <4>2 DEF Adds
    <3>2. CASE z # s
      <4>1. Writers(z)' = Writers(z) /\ \A p \in Writers(z) : req'[p] = req[p]
        BY <3>2, <1>0, <2>8, RestTyped DEF Writers
      <4>2. file' = file /\ acked'[z] = acked[z] /\ messy' = messy
        BY <3>2, <2>1, <2>7 DEF UploadInv, Typed
      <4> QED BY <4>1, <4>2, <3>0 DEF Adds
    <3> QED BY <3>1, <3>2
  <2> QED BY <2>10, <2>11, <2>12, <2>13, <2>14, <2>15 DEF UploadInv
<1> QED BY <1>1, <1>2, <1>3

\* The body breaks off.
LEMMA FailStep ==
    ASSUME UploadInv, NEW q \in Reqs, BodyFails(q)
    PROVE  UploadInv'
<1>0. req[q].pc = "write" /\ req[q].s \in used /\ messy' = messy \cup {req[q].s}
      /\ UNCHANGED <<layout, upload, file, blob, used, shared, acked, requests>>
  BY AtWorkFacts DEF BodyFails
<1>1. CASE req[q].full
  BY <1>0, <1>1, EndStep DEF BodyFails, End
<1>2. CASE ~req[q].full
  <2>1. Goto(q, "cancel") /\ layout' \in BOOLEAN
    BY <1>0, <1>2 DEF BodyFails, UploadInv, Typed
  <2> QED BY <1>0, <2>1, GotoStep
<1> QED BY <1>1, <1>2

\* The session is removed.
LEMMA CancelStep ==
    ASSUME UploadInv, NEW q \in Reqs, CancelUpload(q)
    PROVE  UploadInv'
<1>1. req[q].pc = "cancel" /\ req' = [req EXCEPT ![q] = Rest]
      /\ upload' = [upload EXCEPT ![req[q].s] = FALSE]
      /\ UNCHANGED <<layout, file, blob, used, shared, acked, messy, requests>>
  BY DEF CancelUpload, End
<1>2. Rest.off <= MaxSize /\ requests' \in 0..MaxRequests /\ layout' \in BOOLEAN
  BY <1>1, RestTyped, Sizes DEF UploadInv, Typed
<1>3. upload' \in [Sessions -> BOOLEAN] /\ \A z \in Sessions : upload'[z] => upload[z]
  BY <1>1 DEF UploadInv, Typed
<1> QED BY <1>1, <1>2, <1>3, RestTyped, QuietStep

\* The digest is taken without a lock.
LEMMA VerifyStep ==
    ASSUME UploadInv, NEW q \in Reqs, VerifyDigest(q)
    PROVE  UploadInv'
<1>s. PICK s \in Sessions : s = req[q].s /\ s \in used
  BY AtWorkFacts DEF VerifyDigest
<1> DEFINE r == [req[q] EXCEPT !.pc = "move"]
<1>0. req[q].pc = "verify" /\ req[q] \in Requests /\ req[q].s = s
  BY <1>s, AtWorkFacts DEF VerifyDigest
<1>1. CASE (~upload[s] /\ ~req[q].full) \/ file[s] # req[q].d
  <2>1. req' = [req EXCEPT ![q] = Rest]
        /\ UNCHANGED <<layout, upload, file, blob, used, shared, acked, messy, requests>>
    BY <1>0, <1>1 DEF VerifyDigest, End
  <2> QED BY <2>1, <1>0, EndStep
<1>2. CASE ~((~upload[s] /\ ~req[q].full) \/ file[s] # req[q].d)
  <2>1. req' = [req EXCEPT ![q] = r]
        /\ shared' = (IF Writers(s) # {} THEN shared \cup {s} ELSE shared)
        /\ UNCHANGED <<layout, upload, file, blob, used, acked, messy, requests>>
    BY <1>0, <1>2 DEF VerifyDigest, Goto
  <2>2. r \in Requests /\ r.pc = "move" /\ r.s = s /\ r.d = req[q].d /\ r.off = req[q].off
    BY <1>0 DEF Requests, Pcs
  <2> HIDE DEF r
  <2>3. \A p \in Reqs : req'[p] = IF p = q THEN r ELSE req[p]
    BY <2>1 DEF UploadInv, Typed
  <2>4. \A z : Writers(z)' = Writers(z) /\ Busy(z)' = Busy(z)
    BY <1>0, <2>2, <2>3 DEF Writers, Busy
  <2>5. shared \subseteq shared' /\ shared' \subseteq Sessions
    BY <2>1 DEF UploadInv, Typed
  <2>6. Typed'
    BY <2>1, <2>2, <2>5 DEF UploadInv, Typed
  <2>7. Fresh' /\ BlobsWalkable'
    BY <2>1 DEF UploadInv, Fresh, BlobsWalkable
  <2>8. ASSUME NEW p \in Reqs PROVE AtWork(p)'
    <3>0. AtWork(p)
      BY DEF UploadInv
    <3>1. CASE p = q
      BY <3>0, <3>1, <1>s, <2>1, <2>2, <2>3 DEF AtWork
    <3>2. CASE p # q
      <4>1. req'[p] = req[p] /\ file' = file /\ used' = used
        BY <3>2, <2>1, <2>3
      <4> QED BY <3>0, <4>1 DEF AtWork
    <3> QED BY <3>1, <3>2
  <2>9. ASSUME NEW p \in Reqs PROVE Verified(p)'
    <3>1. CASE p = q
      <4>1. req'[p] = r /\ file' = file
        BY <3>1, <2>1, <2>3
      <4>2. ASSUME s \notin shared' PROVE file[s] = r.d /\ Writers(s)' = {}
        BY <4>2, <1>2, <2>1, <2>2, <2>4
      <4> QED BY <4>1, <4>2, <2>2 DEF Verified
    <3>2. CASE p # q
      <4>1. req'[p] = req[p] /\ file' = file /\ Verified(p)
        BY <3>2, <2>1, <2>3 DEF UploadInv
      <4> QED BY <4>1, <2>4, <2>5 DEF Verified
    <3> QED BY <3>1, <3>2
  <2>10. ASSUME NEW d \in Contents PROVE Stored(d)'
    BY <2>1, <2>4, <2>5 DEF Stored, UploadInv
  <2>11. ASSUME NEW z \in Sessions PROVE Single(z)' /\ Adds(z)'
    <3>1. Single(z) /\ Adds(z) /\ UNCHANGED <<file, acked, messy>>
      BY <2>1 DEF UploadInv
    <3>2. \A p \in Writers(z) : req'[p] = req[p]
      BY <1>0, <2>3 DEF Writers
    <3>3. Single(z)'
      BY <3>1, <2>4 DEF Single
    <3>4. Adds(z)'
      BY <3>1, <3>2, <2>4 DEF Adds
    <3> QED BY <3>3, <3>4
  <2> QED BY <2>6, <2>7, <2>8, <2>9, <2>10, <2>11 DEF UploadInv
<1> QED BY <1>1, <1>2

\* The move, under the lock.
LEMMA MoveStep ==
    ASSUME UploadInv, NEW q \in Reqs, MoveBlob(q)
    PROVE  UploadInv'
<1>s. PICK s \in Sessions : s = req[q].s /\ s \in used
  BY AtWorkFacts DEF MoveBlob
<1>0. req[q].pc = "move" /\ req[q].s = s /\ req[q].d \in Contents /\ layout' = TRUE
  BY <1>s, AtWorkFacts DEF MoveBlob
<1>1. CASE ~upload[s] /\ req[q].full
  <2>1. req' = [req EXCEPT ![q] = Rest]
        /\ UNCHANGED <<upload, file, blob, used, shared, acked, messy, requests>>
    BY <1>0, <1>1 DEF MoveBlob, End
  <2>2. Rest.off <= MaxSize /\ requests' \in 0..MaxRequests /\ upload' \in [Sessions -> BOOLEAN]
    BY <2>1, RestTyped, Sizes DEF UploadInv, Typed
  <2> QED BY <1>0, <2>1, <2>2, RestTyped, QuietStep
<1>2. CASE ~upload[s] /\ ~req[q].full
  <2>1. Goto(q, "cancel") /\ UNCHANGED <<upload, file, blob, used, shared, acked, messy, requests>>
    BY <1>0, <1>2 DEF MoveBlob
  <2> QED BY <1>0, <2>1, GotoStep
<1>3. CASE upload[s]
  <2> DEFINE e == req[q].d
  <2>1. /\ req' = [req EXCEPT ![q] = Rest]
        /\ blob' = [blob EXCEPT ![req[q].d] = IF Dedupe /\ @ # None THEN @ ELSE s]
        /\ upload' = [upload EXCEPT ![s] = FALSE]
        /\ UNCHANGED <<file, used, shared, acked, messy, requests>>
    BY <1>0, <1>3 DEF MoveBlob, End
  <2>2. \A p \in Reqs : req'[p] = IF p = q THEN Rest ELSE req[p]
    BY <2>1 DEF UploadInv, Typed
  <2>3. \A z : Writers(z)' = Writers(z) /\ Busy(z)' \subseteq Busy(z)
    BY <1>0, <2>2, RestTyped DEF Writers, Busy
  <2>4. \A d \in Contents : blob'[d] = blob[d] \/ (d = req[q].d /\ blob'[d] = s)
    BY <1>0, <2>1 DEF UploadInv, Typed
  <2>5. upload' \in [Sessions -> BOOLEAN] /\ ~upload'[s]
        /\ \A z \in Sessions : upload'[z] => upload[z]
    BY <2>1 DEF UploadInv, Typed
  <2>6. Typed'
    <3>1. blob' \in [Contents -> Sessions \cup {None}]
      BY <1>0, <2>1 DEF UploadInv, Typed
    <3> QED BY <1>0, <2>1, <2>5, <3>1, RestTyped DEF UploadInv, Typed
  <2>7. Fresh'
    BY <1>s, <2>1, <2>4, <2>5 DEF UploadInv, Fresh
  <2>8. BlobsWalkable'
    BY <1>0 DEF BlobsWalkable
  <2>9. ASSUME NEW p \in Reqs PROVE AtWork(p)' /\ Verified(p)'
    <3>1. CASE p = q
      BY <3>1, <2>2, RestTyped, Sizes DEF AtWork, Verified
    <3>2. CASE p # q
      <4>1. req'[p] = req[p] /\ file' = file /\ used' = used /\ shared' = shared
            /\ AtWork(p) /\ Verified(p)
        BY <3>2, <2>1, <2>2 DEF UploadInv
      <4> QED BY <4>1, <2>3 DEF AtWork, Verified
    <3> QED BY <3>1, <3>2
  <2>10. ASSUME NEW d \in Contents PROVE Stored(d)'
    <3>0. UNCHANGED <<file, used, shared>>
      BY <2>1
    <3>1. CASE blob'[d] = blob[d]
      <4>1. Stored(d) /\ blob[d] \in Sessions \cup {None}
        BY DEF UploadInv, Typed
      <4> QED BY <3>0, <3>1, <4>1, <2>3, <2>5 DEF Stored
    <3>2. CASE d = req[q].d /\ blob'[d] = s
      <4>1. s \notin shared => file[s] = d /\ Writers(s) = {}
        BY <3>2, <1>0 DEF UploadInv, Verified
      <4> QED BY <3>0, <3>2, <4>1, <1>s, <2>3, <2>5 DEF Stored
    <3> QED BY <3>1, <3>2, <2>4
  <2>11. ASSUME NEW z \in Sessions PROVE Single(z)' /\ Adds(z)'
    <3>1. Single(z) /\ Adds(z) /\ UNCHANGED <<file, acked, messy>>
      BY <2>1 DEF UploadInv
    <3>2. \A p \in Writers(z) : req'[p] = req[p]
      BY <1>0, <2>2 DEF Writers
    <3>3. Single(z)'
      BY <3>1, <2>3 DEF Single
    <3>4. Adds(z)'
      BY <3>1, <3>2, <2>3 DEF Adds
    <3> QED BY <3>3, <3>4
  <2> QED BY <2>6, <2>7, <2>8, <2>9, <2>10, <2>11 DEF UploadInv
<1> QED BY <1>1, <1>2, <1>3

\* The garbage collector takes an upload, or the repository; or nothing happens.
LEMMA CollectStep ==
    ASSUME UploadInv,
           (\E s \in Sessions : RemoveUpload(s)) \/ RemoveIdleRepository \/ UNCHANGED vars
    PROVE  UploadInv'
<1>1. req' = req /\ UNCHANGED <<file, used, shared, acked, messy, requests>>
  BY DEF RemoveUpload, RemoveIdleRepository, vars
<1>2. upload' \in [Sessions -> BOOLEAN] /\ \A z \in Sessions : upload'[z] => upload[z]
  BY DEF UploadInv, Typed, RemoveUpload, RemoveIdleRepository, vars
<1>3. blob' \in [Contents -> Sessions \cup {None}] /\ \A d \in Contents : blob'[d] \in {blob[d], None}
  BY DEF UploadInv, Typed, RemoveUpload, RemoveIdleRepository, vars
<1>4. layout' \in BOOLEAN /\ BlobsWalkable'
  BY DEF UploadInv, Typed, RemoveUpload, RemoveIdleRepository, BlobsWalkable, vars
<1>5. \A z : Writers(z)' = Writers(z) /\ Busy(z)' = Busy(z)
  BY <1>1 DEF Writers, Busy
<1>6. Typed'
  BY <1>1, <1>2, <1>3, <1>4 DEF UploadInv, Typed
<1>7. Fresh'
  BY <1>1, <1>2, <1>3, Sizes DEF UploadInv, Fresh
<1>8. ASSUME NEW p \in Reqs PROVE AtWork(p)' /\ Verified(p)'
  BY <1>1, <1>5 DEF UploadInv, AtWork, Verified
<1>9. ASSUME NEW d \in Contents PROVE Stored(d)'
  BY <1>1, <1>2, <1>3, <1>5 DEF UploadInv, Typed, Stored
<1>10. ASSUME NEW z \in Sessions PROVE Single(z)' /\ Adds(z)'
  <2>1. Single(z) /\ Adds(z)
    BY DEF UploadInv
  <2>2. Single(z)'
    BY <2>1, <1>1, <1>5 DEF Single
  <2>3. Adds(z)'
    BY <2>1, <1>1, <1>5 DEF Adds
  <2> QED BY <2>2, <2>3
<1> QED BY <1>4, <1>6, <1>7, <1>8, <1>9, <1>10 DEF UploadInv

\* UploadInv is inductive: it holds at first and every step keeps it.
THEOREM UploadInvHolds == Spec => []UploadInv
<1>1. UploadInv /\ [Next]_vars => UploadInv'
  <2> SUFFICES ASSUME UploadInv, [Next]_vars PROVE UploadInv'
    OBVIOUS
  <2>1. ASSUME NEW q \in Reqs, Request(q) \/ Step(q) \/ BodyFails(q) PROVE UploadInv'
    BY <2>1, RequestStep, OpenStep, WriteStep, CloseStep, CancelStep, VerifyStep, MoveStep, FailStep
       DEF Step
  <2> QED BY <2>1, CollectStep DEF Next
<1> QED BY <1>1, UploadInvInit, PTL DEF Spec

-----------------------------------------------------------------------------
(* What follows.                                                             *)

\* Every variable keeps its kind, whatever the requests, their retries and the collector do
\* (PutBlobChunk, FinishBlobUpload, FullBlobUpload, DeleteBlobUpload): a writer never stands
\* beyond the longest content, and what was acknowledged is a content.
THEOREM TypeCorrect == Spec => []TypeOK
<1>1. UploadInv => TypeOK
  <2> SUFFICES ASSUME UploadInv PROVE TypeOK
    OBVIOUS
  <2>1. ASSUME NEW q \in Reqs
        PROVE  /\ req[q].pc \in {"idle", "open", "write", "cancel", "verify", "move"}
               /\ req[q].op \in Ops \cup {"none"} /\ req[q].off \in 0..MaxSize
               /\ req[q].pc # "idle" => req[q].s \in used
    <3>1. req[q] \in Requests /\ AtWork(q)
      BY DEF UploadInv, Typed
    <3>2. req[q].off \in Nat /\ req[q].off <= MaxSize
      BY <3>1 DEF Requests, AtWork
    <3> QED BY <3>1, <3>2, Sizes DEF Requests, Pcs, AtWork
  <2> QED BY <2>1 DEF UploadInv, Typed, TypeOK
<1> QED BY <1>1, UploadInvHolds, PTL

\* A blob that FinishBlobUpload or FullBlobUpload put under a digest has that content, for any
\* number of requests on the same session, unless a chunk of the session was being written when
\* the digest was taken or was opened before the move; and it lies in a repository with a layout.
THEOREM BlobsStaySound == Spec => []BlobsSound
<1>1. UploadInv => BlobsSound
  BY DEF UploadInv, Stored, BlobsSound, BlobIntact
<1> QED BY <1>1, UploadInvHolds, PTL

\* An upload session that one request at a time has used holds what its acknowledged chunks add
\* up to (PutBlobChunk, PutBlobChunkStreamed), so that a client can resume it.
THEOREM SessionsResume == Spec => []ResumeSound
<1>1. UploadInv => ResumeSound
  <2> SUFFICES ASSUME UploadInv, NEW s \in Sessions, s \notin messy, Busy(s) = {}
               PROVE  file[s] = acked[s]
    BY DEF ResumeSound
  <2>1. Writers(s) = {}
    BY DEF Writers, Busy
  <2> QED BY <2>1 DEF UploadInv, Adds
<1> QED BY <1>1, UploadInvHolds, PTL

=============================================================================
