-------------------------- MODULE SyncCredentials ---------------------------
(* The credentials of a sync service and the registry client built from them *)
(* (pkg/extensions/sync: refreshRegistryTemporaryCredentials and the three   *)
(* credential helpers).  A token is a number; 0 stands for no token, which   *)
(* no helper takes for a valid one.  Tokens are issued in the order of their *)
(* numbers, and one that is close to its expiry date is due.                 *)
EXTENDS Integers, FiniteSets

CONSTANTS Callers,    \* operations of the service that run at once
          N,          \* registry URLs: the upstream, then its mirrors
          MaxCalls, MaxDue, MaxFaults, None

SyncCredentialsAssumption ==
    /\ N \in Nat \ {0} /\ None \notin Callers
    /\ MaxCalls \in Nat /\ MaxDue \in Nat /\ MaxFaults \in Nat

Hosts == 1..N

\* What sync.registries[].credentialHelper is: none (a file), or one of the helpers.  oauth2 mints
\* an assertion for each exchange; "assertion" is oauth2 with an assertion that is read from a file,
\* which an endpoint may accept only once.
Helpers == {"file", "ecr", "gcp", "oauth2", "assertion"}

VARIABLES
    helper,
    issued,    \* the last token that was issued
    due,       \* the tokens that are close to expiring
    source,    \* the token that the Google token source has cached, 0 before the first
    spent,     \* the assertion in the file was exchanged
    held,      \* held[h]: the token the helper remembers for host h
    creds,     \* service.credentials
    client,    \* client[h]: the token the registry client sends to host h
    writer,    \* who has clientLock for writing
    readers,   \* who has it for reading
    pc,        \* pc[c]: where caller c is
    pass,      \* the loop of the writer: the next host, whether credentials were updated
    left,      \* hosts the first GetCredentials of ECR got a token for and gave no credentials
    broken,    \* initClient has failed and not succeeded since
    builds,    \* how often a refresh has rebuilt the client
    calls, faults

vars == <<helper, issued, due, source, spent, held, creds, client, writer, readers, pc, pass,
          left, broken, builds, calls, faults>>
tokens == <<issued, source, spent>>

-----------------------------------------------------------------------------
(* The client and the tokens.                                                *)

\* newClient: a mirror without credentials of its own is a copy of the host of the upstream.
\* The names that Docker Hub goes by stand for one host and are left out.
newClient(cr) == [h \in Hosts |-> IF cr[h] # 0 THEN cr[h] ELSE cr[1]]

\* GetCredentials at the start.  ECR fetches host after host and gives nothing back when one of
\* them fails; the others get one token for all URLs.
GetECRCredentials(n) ==
    /\ held = [h \in Hosts |-> IF h <= n THEN h ELSE 0] /\ issued = n
    /\ creds = IF n = N THEN held ELSE [h \in Hosts |-> 0]
    /\ left = IF n = N THEN {} ELSE 1..n
    /\ faults = IF n = N THEN 0 ELSE 1

GetCredentials(n) ==
    /\ held = [h \in Hosts |-> n] /\ creds = held /\ issued = n /\ left = {}
    /\ faults = 1 - n

\* New: without a helper the credentials are those of the file.
New ==
    /\ helper \in Helpers
    /\ \/ helper = "ecr" /\ \E n \in 0..N : GetECRCredentials(n)
       \/ helper \in {"gcp", "oauth2", "assertion"} /\ \E n \in {0, 1} : GetCredentials(n)
       \/ helper = "file" /\ GetCredentials(1)
    /\ faults <= MaxFaults
    /\ source = (IF helper = "gcp" THEN issued ELSE 0)
    /\ spent = (helper = "assertion" /\ issued = 1)
    /\ due = {} /\ client = newClient(creds)
    /\ writer = None /\ readers = {} /\ pc = [c \in Callers |-> "idle"]
    /\ pass = [at |-> 1, updated |-> FALSE]
    /\ broken = FALSE /\ builds = 0 /\ calls = 0

Fault == faults < MaxFaults /\ faults' = faults + 1

\* A call of the helper that does not get its token: AWS, the token endpoint or the Google
\* credentials cannot be reached, or a file cannot be read; or the assertion was used before.
FetchFails == /\ \/ Fault
                 \/ helper = "assertion" /\ spent /\ UNCHANGED faults
              /\ UNCHANGED tokens

\* fetchToken of oauth2 exchanges the assertion for a new token.
Exchange(t) ==
    /\ helper \in {"ecr", "oauth2"} \/ (helper = "assertion" /\ ~spent)
    /\ t = issued + 1 /\ issued' = t
    /\ spent' = (helper = "assertion") /\ UNCHANGED <<source, faults>>

\* fetchToken of GCP: the source reuses its token until that is due.
Reuse(t) ==
    /\ helper = "gcp"
    /\ IF source \in due \cup {0}
       THEN t = issued + 1 /\ issued' = t /\ source' = t
       ELSE t = source /\ UNCHANGED <<issued, source>>
    /\ UNCHANGED <<spent, faults>>

\* AreCredentialsValid of ECR and oauth2 looks at the date of the token.
NotDue(h) == held[h] \notin due \cup {0}

-----------------------------------------------------------------------------
(* refreshRegistryTemporaryCredentials.                                      *)

\* An operation of the service begins: GetNextRepo, SyncImage, SyncReferrers, SyncRepo.
Begin(c) ==
    /\ pc[c] = "idle" /\ calls < MaxCalls /\ calls' = calls + 1
    /\ pc' = [pc EXCEPT ![c] = IF helper = "file" THEN "ready" ELSE "check"]
    /\ UNCHANGED <<helper, tokens, due, held, creds, client, writer, readers, pass, left, broken,
                   builds, faults>>

\* The fast path: are all credentials valid, under the read lock.  A Google token that cannot be
\* had counts as invalid.
CheckNeeded(c) ==
    /\ pc[c] = "check" /\ writer = None
    /\ \/ /\ helper # "gcp" /\ UNCHANGED <<tokens, faults>>
          /\ pc' = [pc EXCEPT ![c] = IF \A h \in Hosts : NotDue(h) THEN "ready" ELSE "lock"]
       \/ \E t \in 1..(issued + 1) :
            /\ Reuse(t)
            /\ pc' = [pc EXCEPT ![c] = IF \A h \in Hosts : held[h] = t THEN "ready" ELSE "lock"]
       \/ helper = "gcp" /\ FetchFails /\ pc' = [pc EXCEPT ![c] = "lock"]
    /\ UNCHANGED <<helper, due, held, creds, client, writer, readers, pass, left, broken, builds, calls>>

Lock(c) ==
    /\ pc[c] = "lock" /\ writer = None /\ readers = {}
    /\ writer' = c /\ pc' = [pc EXCEPT ![c] = "pass"]
    /\ pass' = [at |-> 1, updated |-> FALSE]
    /\ UNCHANGED <<helper, tokens, due, held, creds, client, readers, left, broken, builds, calls, faults>>

\* The host of the loop keeps its credentials, or gets token t.
Keep      == pass' = [pass EXCEPT !.at = @ + 1] /\ UNCHANGED <<held, creds, left>>
Store(t)  == /\ held' = [held EXCEPT ![pass.at] = t] /\ creds' = [creds EXCEPT ![pass.at] = t]
             /\ left' = left \ {pass.at}
             /\ pass' = [at |-> pass.at + 1, updated |-> TRUE]

\* One host with the ECR or the oauth2 helper: a token that is not due stays.
RefreshDue(c) ==
    /\ pc[c] = "pass" /\ pass.at <= N /\ helper # "gcp"
    /\ \/ NotDue(pass.at) /\ Keep /\ UNCHANGED <<tokens, faults>>
       \/ ~NotDue(pass.at) /\ (\E t \in 1..(issued + 1) : Exchange(t) /\ Store(t))
       \/ ~NotDue(pass.at) /\ FetchFails /\ Keep
    /\ UNCHANGED <<helper, due, client, writer, readers, pc, broken, builds, calls>>

\* One host with the GCP helper: the token it holds is compared with that of the source; when the
\* first call fails RefreshCredentials makes a second one, which may succeed.
RefreshRotated(c) ==
    /\ pc[c] = "pass" /\ pass.at <= N
    /\ \/ \E t \in 1..(issued + 1) : Reuse(t) /\ (IF held[pass.at] = t THEN Keep ELSE Store(t))
       \/ helper = "gcp" /\ Fault /\ source \notin due \cup {0} /\ Store(source) /\ UNCHANGED tokens
       \/ helper = "gcp" /\ FetchFails /\ Keep
    /\ UNCHANGED <<helper, due, client, writer, readers, pc, broken, builds, calls>>

\* The loop is over: updated credentials go into a new client.  When it cannot be built (the
\* certificates cannot be read) the error is logged and the old client stays.
initClient(c) ==
    /\ pc[c] = "pass" /\ pass.at > N
    /\ writer' = None /\ pc' = [pc EXCEPT ![c] = "ready"]
    /\ \/ ~pass.updated /\ UNCHANGED <<client, broken, builds, faults>>
       \/ /\ pass.updated /\ client' = newClient(creds) /\ broken' = FALSE
          /\ builds' = builds + 1 /\ UNCHANGED faults
       \/ pass.updated /\ Fault /\ broken' = TRUE /\ UNCHANGED <<client, builds>>
    /\ UNCHANGED <<helper, tokens, due, held, creds, readers, pass, left, calls>>

\* The operation talks to the registry under the read lock, and ends.
Use(c) ==
    /\ pc[c] = "ready" /\ writer = None
    /\ readers' = readers \cup {c} /\ pc' = [pc EXCEPT ![c] = "use"]
    /\ UNCHANGED <<helper, tokens, due, held, creds, client, writer, pass, left, broken, builds, calls, faults>>

End(c) ==
    /\ pc[c] = "use" /\ readers' = readers \ {c} /\ pc' = [pc EXCEPT ![c] = "idle"]
    /\ UNCHANGED <<helper, tokens, due, held, creds, client, writer, pass, left, broken, builds, calls, faults>>

\* Time passes: a token comes close to its date; another assertion is put into the file.
TokenDue(t) ==
    /\ t \notin due /\ Cardinality(due) < MaxDue /\ due' = due \cup {t}
    /\ UNCHANGED <<helper, tokens, held, creds, client, writer, readers, pc, pass, left, broken,
                   builds, calls, faults>>

NewAssertion ==
    /\ spent /\ Fault /\ spent' = FALSE
    /\ UNCHANGED <<helper, issued, due, source, held, creds, client, writer, readers, pc, pass, left,
                   broken, builds, calls>>

Step(c) == \/ CheckNeeded(c) \/ Lock(c) \/ RefreshDue(c) \/ RefreshRotated(c) \/ initClient(c)
           \/ Use(c) \/ End(c)

Init == New
Next == \/ \E c \in Callers : Begin(c) \/ Step(c)
        \/ \E t \in 1..issued : TokenDue(t)
        \/ NewAssertion
Spec == Init /\ [][Next]_vars

-----------------------------------------------------------------------------
\* Every variable holds a value of the kind the code gives it.
TypeOK ==
    /\ helper \in Helpers /\ issued \in Nat /\ source \in Nat /\ spent \in BOOLEAN
    /\ due \subseteq 1..issued /\ IsFiniteSet(due)
    /\ held \in [Hosts -> Nat] /\ creds \in [Hosts -> Nat] /\ client \in [Hosts -> Nat]
    /\ writer \in Callers \cup {None} /\ readers \subseteq Callers
    /\ pc \in [Callers -> {"idle", "check", "lock", "pass", "ready", "use"}]
    /\ pass \in [at: 1..(N + 1), updated: BOOLEAN]
    /\ left \subseteq Hosts /\ broken \in BOOLEAN /\ builds \in Nat /\ calls \in Nat /\ faults \in Nat

\* While nobody refreshes, a host whose credentials the helper takes for valid is one to which the
\* client sends them: an operation is never told that all is well and sent on with a token that the
\* refresh has replaced.  Not so after initClient has failed, which is tried again only when a token
\* is due; nor for the hosts that ECR fetched before another one failed at the start.
ClientCurrent ==
    writer = None /\ ~broken =>
        \A h \in Hosts \ left : held[h] # 0 => client[h] = held[h]

\* The client is rebuilt once per rotation of the Google token (AreCredentialsValid of the GCP
\* helper), failures apart.  With mirrors a token that rotates inside the loop makes it two: the
\* hosts the loop has passed are left for the next refresh.
RebuildsBounded ==
    helper = "gcp" => builds <= (IF N = 1 THEN 1 ELSE 2) * (issued - 1 + faults)

\* A refresh replaces a token only if it was due, whoever won the race for the lock.
ReplacesDue ==
    helper # "gcp" => \A h \in Hosts : held'[h] # held[h] => held[h] \in due \cup {0}

\* The client is replaced, and the credentials with it, only while no operation uses them.
ReplacedUnused == (client' # client \/ creds' # creds) => readers = {} /\ writer # None

=============================================================================
