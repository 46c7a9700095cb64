---------------------------- MODULE BlobUpload ------------------------------
(* The bytes of blob uploads on the local driver.  A request writes through  *)
(* an open file, at the offset the file had when it was opened; the digest   *)
(* is computed before the store lock is taken; the file is renamed under the *)
(* lock.  A file outlives its name, so a path leads to an inode.  The digest *)
(* of a content is the content itself.  One repository.                      *)
EXTENDS Integers, Sequences, FiniteSets

CONSTANTS Reqs,        \* the requests that are served at once
          Sessions,    \* upload session ids; each is drawn once
          Bytes, MaxSize,
          Bodies,      \* the bodies of requests; a digest in a request is one of them too
          Dedupe,      \* a digest that is known keeps its file
          MaxRequests,
          None

ASSUME BlobUploadAssumption ==
    /\ None \notin Reqs \cup Sessions
    /\ Bodies \subseteq UNION {[1..n -> Bytes] : n \in 1..MaxSize}
    /\ MaxSize \in Nat /\ MaxRequests \in Nat /\ Dedupe \in BOOLEAN

Contents == UNION {[1..n -> Bytes] : n \in 0..MaxSize}
Ranges   == 0..MaxSize

VARIABLES
    layout,    \* the repository has its oci-layout and index.json
    upload,    \* upload[s]: .uploads/s exists; it is inode s
    file,      \* file[s]: the content of inode s
    blob,      \* blob[d]: the inode that blobs/<d> leads to, None if there is none
    used,      \* session ids that were drawn
    req,       \* req[q]: what request q is doing
    shared,    \* inodes a writer of which was open when the digest was taken, or was
               \* opened after that (history)
    acked,     \* acked[s]: the chunks answered with 202, each at its offset (history)
    messy,     \* sessions with two requests at once, or a chunk that was not acknowledged
    requests

vars == <<layout, upload, file, blob, used, req, shared, acked, messy, requests>>

Rest == [pc |-> "idle", op |-> "none", s |-> None, body |-> <<>>, chunk |-> <<>>, from |-> 0,
         off |-> 0, d |-> <<>>, full |-> FALSE]

Ops == {"post", "full", "patch", "stream", "put", "get", "delete"}

Init ==
    /\ layout = FALSE
    /\ upload = [s \in Sessions |-> FALSE]
    /\ file = [s \in Sessions |-> <<>>]
    /\ blob = [d \in Contents |-> None]
    /\ used = {} /\ req = [q \in Reqs |-> Rest]
    /\ shared = {} /\ acked = [s \in Sessions |-> <<>>] /\ messy = {}
    /\ requests = 0

Busy(s)    == {q \in Reqs : req[q].pc # "idle" /\ req[q].s = s}
Goto(q, l) == req' = [req EXCEPT ![q].pc = l]
End(q)     == req' = [req EXCEPT ![q] = Rest]

Begin(q, op, s, from, body, d, pc) ==
    /\ req[q] = Rest /\ requests < MaxRequests /\ requests' = requests + 1
    /\ req' = [req EXCEPT ![q] =
                  IF pc = "idle" THEN Rest
                  ELSE [pc |-> pc, op |-> op, s |-> s, body |-> body, chunk |-> body,
                        from |-> from, off |-> 0, d |-> d, full |-> (op = "full")]]
    /\ messy' = IF Busy(s) # {} THEN messy \cup {s} ELSE messy

-----------------------------------------------------------------------------
(* The handlers.                                                             *)

\* CreateBlobUpload without parameters: InitRepo, and an empty file.
NewBlobUpload(q, s) ==
    /\ s \notin used
    /\ Begin(q, "post", s, 0, <<>>, <<>>, "idle")
    /\ used' = used \cup {s} /\ layout' = TRUE
    /\ upload' = [upload EXCEPT ![s] = TRUE]
    /\ UNCHANGED <<file, blob, shared, acked>>

\* CreateBlobUpload with a mount of a digest that the repository has: CheckBlob finds it.
MountBlob(q, d) ==
    /\ blob[d] # None /\ req[q] = Rest /\ requests < MaxRequests /\ requests' = requests + 1
    /\ UNCHANGED <<layout, upload, file, blob, used, req, shared, acked, messy>>

\* CreateBlobUpload with a digest: FullBlobUpload writes a file of its own.
FullBlobUpload(q, s, body, d) ==
    /\ s \notin used
    /\ Begin(q, "full", s, 0, body, d, "write")
    /\ used' = used \cup {s}
    /\ upload' = [upload EXCEPT ![s] = TRUE]
    /\ UNCHANGED <<layout, file, blob, shared, acked>>

PatchBlobUpload(q, s, from, body) ==
    /\ s \in used
    /\ Begin(q, "patch", s, from, body, <<>>, "open")
    /\ UNCHANGED <<layout, upload, file, blob, used, shared, acked>>

PatchBlobUploadStreamed(q, s, body) ==
    /\ s \in used
    /\ Begin(q, "stream", s, 0, body, <<>>, "open")
    /\ UNCHANGED <<layout, upload, file, blob, used, shared, acked>>

\* UpdateBlobUpload: a last chunk if the request has a body, then FinishBlobUpload.
UpdateBlobUpload(q, s, from, body, d) ==
    /\ s \in used
    /\ Begin(q, "put", s, from, body, d, IF body = <<>> THEN "verify" ELSE "open")
    /\ UNCHANGED <<layout, upload, file, blob, used, shared, acked>>

DeleteBlobUpload(q, s) ==
    /\ s \in used
    /\ Begin(q, "delete", s, 0, <<>>, <<>>, "cancel")
    /\ UNCHANGED <<layout, upload, file, blob, used, shared, acked>>

\* GetBlobUpload, BlobUploadInfo and a read of the blob change nothing.
GetBlobUpload(q, s) ==
    /\ s \in used
    /\ Begin(q, "get", s, 0, <<>>, <<>>, "idle")
    /\ UNCHANGED <<layout, upload, file, blob, used, shared, acked>>

\* MUTANT: a chunk is taken whatever its offset.
OpenAnywhere(q) ==
    /\ req[q].pc = "open"
    /\ LET s == req[q].s
       IN  IF ~upload[s]
           THEN End(q) /\ UNCHANGED shared
           ELSE /\ req' = [req EXCEPT ![q].pc = "write", ![q].off = Len(file[s])]
                /\ UNCHANGED shared
    /\ UNCHANGED <<layout, upload, file, blob, used, acked, messy, requests>>

\* openBlobUploadWriter, and the check of the range: a chunk starts where the file ends.
OpenWriter(q) ==
    /\ req[q].pc = "open"
    /\ LET s       == req[q].s
           refused == ~upload[s] \/ (req[q].op # "stream" /\ req[q].from # Len(file[s]))
           checked == \E p \in Reqs : req[p].s = s /\ req[p].pc = "move"
       IN  IF refused
           THEN End(q) /\ UNCHANGED shared
           ELSE /\ req' = [req EXCEPT ![q].pc = "write", ![q].off = Len(file[s])]
                /\ shared' = IF checked THEN shared \cup {s} ELSE shared
    /\ UNCHANGED <<layout, upload, file, blob, used, acked, messy, requests>>

PutByte(c, off, b) == IF off < Len(c) THEN [c EXCEPT ![off + 1] = b] ELSE Append(c, b)

\* io.Copy writes the next byte of the body, whether the file still has its name or not.
WriteByte(q) ==
    /\ req[q].pc = "write" /\ req[q].body # <<>>
    /\ Len(file[req[q].s]) < MaxSize \/ req[q].off < Len(file[req[q].s])
    /\ file' = [file EXCEPT ![req[q].s] = PutByte(@, req[q].off, Head(req[q].body))]
    /\ req' = [req EXCEPT ![q].body = Tail(@), ![q].off = @ + 1]
    /\ UNCHANGED <<layout, upload, blob, used, shared, acked, messy, requests>>

Before(c, r) == IF r.op = "stream" \/ r.from > Len(c) THEN c ELSE SubSeq(c, 1, r.from)

\* The body ends: 202, or on to FinishBlobUpload.
CloseWriter(q) ==
    /\ req[q].pc = "write" /\ req[q].body = <<>>
    /\ IF req[q].op \in {"patch", "stream"}
       THEN /\ End(q) /\ UNCHANGED messy
            /\ acked' = IF req[q].s \in messy THEN acked
                        ELSE [acked EXCEPT ![req[q].s] = Before(@, req[q]) \o req[q].chunk]
       ELSE /\ Goto(q, "verify") /\ UNCHANGED acked
            /\ messy' = messy \cup {req[q].s}
    /\ UNCHANGED <<layout, upload, file, blob, used, shared, requests>>

\* The body breaks off, or a write fails: the session is removed, unless it is the private
\* one of FullBlobUpload, which stays behind for the garbage collector.
BodyFails(q) ==
    /\ req[q].pc = "write" /\ req[q].body # <<>>
    /\ IF req[q].full THEN End(q) ELSE Goto(q, "cancel")
    /\ messy' = messy \cup {req[q].s}
    /\ UNCHANGED <<layout, upload, file, blob, used, shared, acked, requests>>

\* DeleteBlobUpload of the image store.
CancelUpload(q) ==
    /\ req[q].pc = "cancel"
    /\ upload' = [upload EXCEPT ![req[q].s] = FALSE]
    /\ End(q)
    /\ UNCHANGED <<layout, file, blob, used, shared, acked, messy, requests>>

Writers(s) == {p \in Reqs : req[p].s = s /\ req[p].pc = "write"}

\* MUTANT: the digest of the upload is not compared.
VerifyNothing(q) ==
    /\ req[q].pc = "verify"
    /\ IF ~upload[req[q].s] THEN End(q) ELSE Goto(q, "move")
    /\ UNCHANGED <<layout, upload, file, blob, used, shared, acked, messy, requests>>

\* FinishBlobUpload opens the upload and computes its digest, without a lock.
VerifyDigest(q) ==
    /\ req[q].pc = "verify"
    /\ LET s == req[q].s
       IN  IF (~upload[s] /\ ~req[q].full) \/ file[s] # req[q].d
           THEN End(q) /\ UNCHANGED shared
           ELSE /\ Goto(q, "move")
                /\ shared' = IF Writers(s) # {} THEN shared \cup {s} ELSE shared
    /\ UNCHANGED <<layout, upload, file, blob, used, acked, messy, requests>>

\* Under the lock: the layout, then the move of whatever the path leads to (201).  DedupeBlob
\* keeps the file of a digest that is known.  Without the file the move fails (500).
MoveBlob(q) ==
    /\ req[q].pc = "move"
    /\ layout' = TRUE
    /\ IF ~upload[req[q].s]
       THEN /\ IF req[q].full THEN End(q) ELSE Goto(q, "cancel")
            /\ UNCHANGED <<blob, upload>>
       ELSE /\ blob' = [blob EXCEPT ![req[q].d] = IF Dedupe /\ @ # None THEN @ ELSE req[q].s]
            /\ upload' = [upload EXCEPT ![req[q].s] = FALSE]
            /\ End(q)
    /\ UNCHANGED <<file, used, shared, acked, messy, requests>>

-----------------------------------------------------------------------------
(* The garbage collector, under the lock.                                    *)

\* An old upload is removed, whoever has it open.
RemoveUpload(s) ==
    /\ upload[s] /\ upload' = [upload EXCEPT ![s] = FALSE]
    /\ UNCHANGED <<layout, file, blob, used, req, shared, acked, messy, requests>>

\* RemoveIdleRepository: no manifest (pushes are left out here), no upload; its blobs go first.
RemoveIdleRepository ==
    /\ layout /\ \A s \in Sessions : ~upload[s]
    /\ layout' = FALSE /\ blob' = [d \in Contents |-> None]
    /\ UNCHANGED <<upload, file, used, req, shared, acked, messy, requests>>

Step(q) == \/ OpenWriter(q) \/ WriteByte(q) \/ CloseWriter(q) \/ CancelUpload(q)
           \/ VerifyDigest(q) \/ MoveBlob(q)

Request(q) ==
    \/ \E s \in Sessions :
         \/ NewBlobUpload(q, s) \/ DeleteBlobUpload(q, s) \/ GetBlobUpload(q, s)
         \/ \E body \in Bodies :
              \/ \E from \in Ranges : PatchBlobUpload(q, s, from, body)
              \/ PatchBlobUploadStreamed(q, s, body)
              \/ \E d \in Bodies : FullBlobUpload(q, s, body, d)
         \/ \E d \in Bodies :
              \/ UpdateBlobUpload(q, s, 0, <<>>, d)
              \/ \E body \in Bodies, from \in Ranges : UpdateBlobUpload(q, s, from, body, d)
    \/ \E d \in Bodies : MountBlob(q, d)

Next ==
    \/ \E q \in Reqs : Request(q) \/ Step(q) \/ BodyFails(q)
    \/ \E s \in Sessions : RemoveUpload(s)
    \/ RemoveIdleRepository

Spec == Init /\ [][Next]_vars
FairSpec == Spec /\ \A q \in Reqs : WF_vars(Step(q))

-----------------------------------------------------------------------------
\* Every variable holds a value of the kind the code gives it, and a request works on an
\* upload session that was drawn.
TypeOK ==
    /\ layout \in BOOLEAN /\ upload \in [Sessions -> BOOLEAN]
    /\ file \in [Sessions -> Contents] /\ blob \in [Contents -> Sessions \cup {None}]
    /\ used \cup shared \cup messy \subseteq Sessions /\ acked \in [Sessions -> Contents]
    /\ \A q \in Reqs : /\ req[q].pc \in {"idle", "open", "write", "cancel", "verify", "move"}
                       /\ req[q].op \in Ops \cup {"none"} /\ req[q].off \in 0..MaxSize
                       /\ req[q].pc # "idle" => req[q].s \in used
    /\ requests \in 0..MaxRequests

\* The content of a blob has the digest that names it, whatever chunks, retries, cancels and
\* second finishes of its session there were, unless a chunk of the same session was being
\* written when the digest was taken or was opened before the move (FinishBlobUpload computes
\* the digest outside the lock, and the open file survives the rename).
BlobIntact ==
    \A d \in Contents : blob[d] # None /\ blob[d] \notin shared => file[blob[d]] = d

\* A blob is in a repository with a layout: a repository that was collected while the upload
\* went on is made again under the same lock as the move.
BlobsWalkable == (\E d \in Contents : blob[d] # None) => layout

\* What the uploads leave behind is a blob with the content its name promises, where the garbage
\* collector finds it.
BlobsSound == BlobIntact /\ BlobsWalkable

\* A session that one request at a time has used holds, chunk by chunk and each at the offset it
\* was sent for, what its acknowledged chunks add up to.
ResumeSound ==
    \A s \in Sessions : upload[s] /\ s \notin messy /\ Busy(s) = {} => file[s] = acked[s]

=============================================================================
