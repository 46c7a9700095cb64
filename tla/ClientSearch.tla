---------------------------- MODULE ClientSearch ----------------------------
(***************************************************************************)
(* The command line client's concurrent searches, pkg/cli/client: one      *)
(* goroutine asks the registry for repositories, one per repository asks   *)
(* for tags, one per tag hands a job to a rate-limited pool, one per job   *)
(* fetches the image, and all of them send what they have to the one       *)
(* collector through an unbuffered channel.  A wait group counts them; the *)
(* channel is closed when it is zero; the first error cancels the context. *)
(*                                                                         *)
(* Requests succeed or fail; a request under a cancelled context fails.    *)
(* The pool's buffer of 5000 jobs is MaxJobs, a search has fewer images.   *)
(***************************************************************************)
EXTENDS Integers, Sequences, FiniteSets

CONSTANTS Repos,
          Images,    \* records [repo, tag, kind, sig]: sig for signature tags
          Name,      \* an image asked for by name, [repo, tag] (tag "" for all)
          MaxJobs,   \* rateLimiterBuffer
          Fails,     \* requests may fail
          Timeouts   \* five minutes may pass without a result

VARIABLES
    mode,       \* which command: "all", "name", "digest" or "repos"
    main,       \* getAllImages, getImageByName, getImagesByDigest, getRepos
    img,        \* getImage, per repository
    call,       \* addManifestCallToPool, per image
    jobs,       \* pool.jobs
    lim,        \* startRateLimiter
    job,        \* doJob, per image
    coll,       \* collectResults
    wg,         \* localWg's counter
    closed,     \* rch is closed
    cancelled,  \* the context is done
    errCh,      \* the error the command will return
    shown,      \* printed images, in order
    failed      \* history: a request failed before the context was cancelled

vars == <<mode, main, img, call, jobs, lim, job, coll, wg, closed, cancelled, errCh,
          shown, failed>>

(* Tags that a command is about.  Signatures are not shown.                *)
Asked(i) == mode = "name" => i.repo = Name.repo /\ Name.tag \in {"", i.tag}
Wanted(r) == {i \in Images : i.repo = r /\ ~i.sig /\ Asked(i)}
IsImage(i) == i.kind \in {"manifest", "index"}

Init ==
    /\ mode \in {"all", "name", "digest", "repos"}
    /\ main = "ask"
    /\ img = [r \in Repos |-> "none"]
    /\ call = [i \in Images |-> "none"]
    /\ jobs = <<>>
    /\ lim = "none"
    /\ job = [i \in Images |-> "none"]
    /\ coll = "run"
    /\ wg = 0
    /\ closed = FALSE /\ cancelled = FALSE
    /\ errCh = <<>> /\ shown = <<>>
    /\ failed = FALSE

(* doHTTPRequest and the requests above it: an answer may come unless the  *)
(* context is done; an error may come if the server fails or it is.        *)
Answered == ~cancelled
Errs == Fails \/ cancelled
(* What a goroutine does with an error: nothing under a done context, else *)
(* it goes to send it (and the context may be cancelled meanwhile).        *)
AfterError == IF cancelled THEN "done" ELSE "sendErr"
NoteFailure == failed' = (failed \/ ~cancelled)

(***************************************************************************)
(* The producers.                                                          *)
(***************************************************************************)
(* getRepos: the catalog is printed and the channel closed.                *)
getRepos ==
    /\ mode = "repos" /\ main = "ask" /\ Answered
    /\ main' = "done"
    /\ UNCHANGED <<mode, img, call, jobs, lim, job, coll, wg, closed, cancelled, errCh,
                   shown, failed>>

(* getAllImages: the limiter and one getImage per repository, each counted *)
(* before it is started.                                                   *)
getAllImages ==
    /\ mode = "all" /\ main = "ask" /\ Answered
    /\ main' = "wait"
    /\ lim' = "start"
    /\ img' = [r \in Repos |-> "list"]
    /\ wg' = 1 + Cardinality(Repos)
    /\ UNCHANGED <<mode, call, jobs, job, coll, closed, cancelled, errCh, shown, failed>>

(* getImageByName asks for no list of repositories.                        *)
getImageByName ==
    /\ mode = "name" /\ main = "ask"
    /\ main' = "wait"
    /\ lim' = "start"
    /\ img' = [img EXCEPT ![Name.repo] = "list"]
    /\ wg' = 2
    /\ UNCHANGED <<mode, call, jobs, job, coll, closed, cancelled, errCh, shown, failed>>

(* getImagesByDigest: the images come from one GraphQL query, a call each. *)
getImagesByDigest ==
    /\ mode = "digest" /\ main = "ask" /\ Answered
    /\ main' = "wait"
    /\ lim' = "start"
    /\ call' = [i \in Images |-> IF i.sig THEN "none" ELSE "run"]
    /\ wg' = 1 + Cardinality({i \in Images : ~i.sig})
    /\ UNCHANGED <<mode, img, jobs, job, coll, closed, cancelled, errCh, shown, failed>>

AskFails ==
    /\ mode # "name" /\ main = "ask" /\ Errs
    /\ main' = AfterError
    /\ NoteFailure
    /\ UNCHANGED <<mode, img, call, jobs, lim, job, coll, wg, closed, cancelled, errCh, shown>>

(* localWg.Wait returned.                                                  *)
WaitOver(n) == n = 0
Waited ==
    /\ main = "wait" /\ WaitOver(wg)
    /\ main' = "done"
    /\ UNCHANGED <<mode, img, call, jobs, lim, job, coll, wg, closed, cancelled, errCh,
                   shown, failed>>
(* The deferred close and Done.                                            *)
Close ==
    /\ main = "done" /\ ~closed
    /\ closed' = TRUE
    /\ main' = "ended"
    /\ UNCHANGED <<mode, img, call, jobs, lim, job, coll, wg, cancelled, errCh, shown, failed>>

(* getImage: the tag list; a counted call for each wanted tag, then Done.  *)
getImage(r) ==
    /\ img[r] = "list" /\ Answered
    /\ img' = [img EXCEPT ![r] = "done"]
    /\ call' = [i \in Images |-> IF i \in Wanted(r) THEN "run" ELSE call[i]]
    /\ wg' = wg + Cardinality(Wanted(r)) - 1
    /\ UNCHANGED <<mode, main, jobs, lim, job, coll, closed, cancelled, errCh, shown, failed>>
getImageFails(r) ==
    /\ img[r] = "list" /\ Errs
    /\ img' = [img EXCEPT ![r] = AfterError]
    /\ wg' = IF cancelled THEN wg - 1 ELSE wg
    /\ NoteFailure
    /\ UNCHANGED <<mode, main, call, jobs, lim, job, coll, closed, cancelled, errCh, shown>>

\* MUTANT: the job is counted when it runs.
CountLater(n) == n

(* addManifestCallToPool: the job is counted before it is handed over, the *)
(* call itself is over after that.                                         *)
CountJob(n) == n + 1
AddJob(i) ==
    /\ call[i] = "run"
    /\ call' = [call EXCEPT ![i] = "submit"]
    /\ wg' = CountJob(wg)
    /\ UNCHANGED <<mode, main, img, jobs, lim, job, coll, closed, cancelled, errCh, shown, failed>>
submitJob(i) ==
    /\ call[i] = "submit" /\ Len(jobs) < MaxJobs
    /\ call' = [call EXCEPT ![i] = "done"]
    /\ jobs' = Append(jobs, i)
    /\ wg' = wg - 1
    /\ UNCHANGED <<mode, main, img, lim, job, coll, closed, cancelled, errCh, shown, failed>>

(***************************************************************************)
(* The pool.                                                               *)
(***************************************************************************)
(* startRateLimiter counts itself out at once and is never stopped: no     *)
(* code closes pool.done.                                                  *)
LimiterStarts ==
    /\ lim = "start"
    /\ lim' = "select"
    /\ wg' = wg - 1
    /\ UNCHANGED <<mode, main, img, call, jobs, job, coll, closed, cancelled, errCh, shown, failed>>
TakeJob ==
    /\ lim = "select" /\ jobs # <<>>
    /\ job' = [job EXCEPT ![Head(jobs)] = "head"]
    /\ jobs' = Tail(jobs)
    /\ lim' = "throttle"
    /\ UNCHANGED <<mode, main, img, call, coll, wg, closed, cancelled, errCh, shown, failed>>
Throttle ==
    /\ lim = "throttle"
    /\ lim' = "select"
    /\ UNCHANGED <<mode, main, img, call, jobs, job, coll, wg, closed, cancelled, errCh,
                   shown, failed>>

(* doJob asks for the media type; what is no image is not shown.           *)
doJobHead(i) ==
    /\ job[i] = "head" /\ Answered
    /\ job' = [job EXCEPT ![i] = IF IsImage(i) THEN "fetch" ELSE "done"]
    /\ wg' = IF IsImage(i) THEN wg ELSE wg - 1
    /\ UNCHANGED <<mode, main, img, call, jobs, lim, coll, closed, cancelled, errCh, shown, failed>>
(* The manifest and its config, or the index and each of its manifests     *)
(* with their configs; the questions about signatures never fail a job.    *)
Fetched(i) ==
    /\ job[i] = "fetch" /\ Answered
    /\ job' = [job EXCEPT ![i] = "check"]
    /\ UNCHANGED <<mode, main, img, call, jobs, lim, coll, wg, closed, cancelled, errCh,
                   shown, failed>>
fetchImageManifestStruct(i) == i.kind = "manifest" /\ Fetched(i)
fetchImageIndexStruct(i) == i.kind = "index" /\ Fetched(i)
FetchDone(i) == fetchImageManifestStruct(i) \/ fetchImageIndexStruct(i)
JobFails(i) ==
    /\ job[i] \in {"head", "fetch"} /\ Errs
    /\ job' = [job EXCEPT ![i] = AfterError]
    /\ wg' = IF cancelled THEN wg - 1 ELSE wg
    /\ NoteFailure
    /\ UNCHANGED <<mode, main, img, call, jobs, lim, coll, closed, cancelled, errCh, shown>>
(* The last look at the context before the result is sent.                 *)
CheckContext(i) ==
    /\ job[i] = "check"
    /\ job' = [job EXCEPT ![i] = IF cancelled THEN "done" ELSE "sendOk"]
    /\ wg' = IF cancelled THEN wg - 1 ELSE wg
    /\ UNCHANGED <<mode, main, img, call, jobs, lim, coll, closed, cancelled, errCh, shown, failed>>

(***************************************************************************)
(* The collector: it receives from whoever is at the channel.              *)
(***************************************************************************)
CollectImage(i) ==
    /\ coll = "run" /\ job[i] = "sendOk"
    /\ shown' = Append(shown, i)
    /\ job' = [job EXCEPT ![i] = "done"]
    /\ wg' = wg - 1
    /\ UNCHANGED <<mode, main, img, call, jobs, lim, coll, closed, cancelled, errCh, failed>>

GiveUp(e) == /\ coll = "run"
             /\ coll' = "ended"
             /\ cancelled' = TRUE
             /\ errCh' = <<e>>
CollectError ==
    /\ GiveUp("error")
    /\ \/ /\ main = "sendErr"
          /\ main' = "done"
          /\ UNCHANGED <<img, job, wg>>
       \/ \E r \in Repos :
            /\ img[r] = "sendErr"
            /\ img' = [img EXCEPT ![r] = "done"]
            /\ wg' = wg - 1
            /\ UNCHANGED <<main, job>>
       \/ \E i \in Images :
            /\ job[i] = "sendErr"
            /\ job' = [job EXCEPT ![i] = "done"]
            /\ wg' = wg - 1
            /\ UNCHANGED <<main, img>>
    /\ UNCHANGED <<mode, call, jobs, lim, closed, shown, failed>>
CollectTimeout ==
    /\ Timeouts /\ GiveUp("timeout")
    /\ UNCHANGED <<mode, main, img, call, jobs, lim, job, wg, closed, shown, failed>>
CollectClosed ==
    /\ coll = "run" /\ closed
    /\ coll' = "ended"
    /\ cancelled' = TRUE
    /\ UNCHANGED <<mode, main, img, call, jobs, lim, job, wg, closed, errCh, shown, failed>>
collectResults == \/ \E i \in Images : CollectImage(i)
                  \/ CollectError \/ CollectTimeout \/ CollectClosed

Produce == \/ getRepos \/ getAllImages \/ getImageByName \/ getImagesByDigest \/ AskFails
           \/ Waited \/ Close
Next == \/ Produce
        \/ \E r \in Repos : getImage(r) \/ getImageFails(r)
        \/ \E i \in Images : AddJob(i) \/ submitJob(i)
        \/ LimiterStarts \/ TakeJob \/ Throttle
        \/ \E i \in Images : doJobHead(i) \/ FetchDone(i) \/ JobFails(i) \/ CheckContext(i)
        \/ collectResults
Spec == Init /\ [][Next]_vars

(* Every goroutine runs; every request ends, one way or the other; a       *)
(* goroutine that waits at the channel is received from while somebody     *)
(* receives.                                                               *)
Fairness ==
    /\ WF_vars(Produce)
    /\ \A r \in Repos : WF_vars(getImage(r) \/ getImageFails(r))
    /\ \A i \in Images : /\ WF_vars(AddJob(i)) /\ WF_vars(submitJob(i))
                         /\ WF_vars(doJobHead(i) \/ FetchDone(i) \/ JobFails(i))
                         /\ WF_vars(CheckContext(i)) /\ WF_vars(CollectImage(i))
    /\ WF_vars(LimiterStarts) /\ WF_vars(TakeJob) /\ WF_vars(Throttle)
    /\ WF_vars(CollectError) /\ WF_vars(CollectClosed)
FairSpec == Spec /\ Fairness

(***************************************************************************)
(* Properties.                                                             *)
(***************************************************************************)
(* SearchAllImages and the others: both goroutines of the command ended.   *)
Returned == main = "ended" /\ coll = "ended"
Senders == {r \in Repos : img[r] = "sendErr"}
           \union {i \in Images : job[i] \in {"sendOk", "sendErr"}}

\* Every variable holds a value of the kind the code gives it.
TypeOK ==
    /\ wg \in 0..(3 + Cardinality(Repos) + 2 * Cardinality(Images))
    /\ main \in {"ask", "wait", "sendErr", "done", "ended"}
    /\ coll \in {"run", "ended"}
    /\ \A i \in Images : job[i] \in {"none", "head", "fetch", "check", "sendOk", "sendErr", "done"}
    /\ Len(errCh) <= 1

(* The channel is closed only when nobody can send on it any more: not a   *)
(* goroutine at the channel, nor one that is still to get there (a send on *)
(* a closed channel would panic).                                          *)
NoSendOnClosed ==
    closed => /\ Senders = {} /\ jobs = <<>>
              /\ \A r \in Repos : img[r] \in {"none", "done"}
              /\ \A i \in Images : call[i] \in {"none", "done"} /\ job[i] \in {"none", "done"}

(* A search that returns without an error has printed every image it was   *)
(* asked for, once, and nothing else.                                      *)
AllShown ==
    /\ \A a, b \in DOMAIN shown : shown[a] = shown[b] => a = b
    /\ Returned /\ errCh = <<>> /\ mode # "repos" =>
          {shown[a] : a \in DOMAIN shown}
              = {i \in Images : ~i.sig /\ Asked(i) /\ IsImage(i)}

(* A request that failed is never swallowed: the search that saw it does   *)
(* not return success.                                                     *)
FailureReported == Returned /\ failed => errCh # <<>>

=============================================================================
