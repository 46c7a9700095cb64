----------------------- MODULE SyncCredentialsProofs ------------------------
(* Proofs about SyncCredentials, for any number of operations and of mirrors *)
(* and any bounds.                                                           *)
EXTENDS SyncCredentials, FiniteSetTheorems, TLAPS

\* The locks: who is in the loop has clientLock for writing, who uses the client has it for reading.
LocksOK ==
    /\ \A c \in Callers : pc[c] = "pass" <=> writer = c
    /\ \A c \in Callers : pc[c] = "use" <=> c \in readers
    /\ writer # None => readers = {}

\* The credentials are those the helper remembers, and the client has them unless the loop has
\* updated some since.
ClientOK ==
    /\ \A h \in Hosts \ left : creds[h] = held[h]
    /\ ~broken /\ (writer = None \/ ~pass.updated) => client = newClient(creds)

\* Rebuilds that the tokens issued and the failures allow for, and that were not made yet.
Slack == (IF N = 1 THEN 1 ELSE 2) * (issued - 1 + faults) - builds

\* A host that has another token than the source: one the loop has passed, or one ahead of it.
Stale(h) == held[h] # issued
Behind   == \E h \in Hosts : h < pass.at /\ Stale(h)
Ahead    == \E h \in Hosts : h >= pass.at /\ Stale(h)

\* There is a rebuild left for what the loop has updated or will, and one for what it has passed.
SlackOK ==
    helper = "gcp" =>
      /\ source = issued /\ Slack >= 0
      /\ pass.at = 1 => ~pass.updated
      /\ IF writer = None THEN (\E h \in Hosts : Stale(h)) => Slack >= 1
         ELSE /\ (pass.updated \/ Ahead) => Slack >= 1
              /\ Behind => Slack >= 1
              /\ (pass.updated \/ Ahead) /\ Behind => Slack >= 2

Inv == TypeOK /\ LocksOK /\ ClientOK /\ SlackOK

-----------------------------------------------------------------------------
LEMMA HostsFacts ==
    ASSUME SyncCredentialsAssumption
    PROVE  N \in Nat /\ N >= 1 /\ 1 \in Hosts /\ (\A h \in Hosts : h \in Nat /\ h >= 1 /\ h <= N)
  BY DEF SyncCredentialsAssumption, Hosts

LEMMA NewClientType ==
    ASSUME SyncCredentialsAssumption, NEW cr \in [Hosts -> Nat]
    PROVE  newClient(cr) \in [Hosts -> Nat]
  BY HostsFacts DEF newClient

\* The service starts with the invariant.
LEMMA InitInv ==
    ASSUME SyncCredentialsAssumption, Init
    PROVE  Inv
<1> USE HostsFacts DEF Init, New
<1>1. faults \in Nat /\ issued \in Nat /\ held \in [Hosts -> Nat] /\ creds \in [Hosts -> Nat]
      /\ left \subseteq Hosts
  <2>1. CASE \E n \in 0..N : GetECRCredentials(n)
    BY <2>1 DEF GetECRCredentials, Hosts
  <2>2. CASE \E n \in {0, 1} : GetCredentials(n)
    BY <2>2 DEF GetCredentials
  <2> QED  BY <2>1, <2>2
<1>2. TypeOK
  <2>1. client \in [Hosts -> Nat]
    BY <1>1, NewClientType
  <2>2. IsFiniteSet(due)
    BY FS_EmptySet
  <2>3. pass \in [at: 1..(N + 1), updated: BOOLEAN]
    OBVIOUS
  <2>4. spent \in BOOLEAN /\ source \in Nat
    BY <1>1
  <2>5. writer \in Callers \cup {None} /\ readers \subseteq Callers
        /\ pc \in [Callers -> {"idle", "check", "lock", "pass", "ready", "use"}]
    OBVIOUS
  <2> QED  BY <1>1, <2>1, <2>2, <2>3, <2>4, <2>5 DEF TypeOK, Helpers
<1>3. LocksOK
  BY DEF LocksOK, SyncCredentialsAssumption
<1>4. ClientOK
  <2>1. \A h \in Hosts \ left : creds[h] = held[h]
    <3>1. CASE \E n \in 0..N : GetECRCredentials(n)
      BY <3>1 DEF GetECRCredentials, Hosts
    <3>2. CASE \E n \in {0, 1} : GetCredentials(n)
      BY <3>2 DEF GetCredentials
    <3> QED  BY <3>1, <3>2
  <2> QED  BY <2>1 DEF ClientOK
<1>5. SlackOK
  <2> SUFFICES ASSUME helper = "gcp" PROVE SlackOK
    BY DEF SlackOK
  <2>1. PICK n \in {0, 1} : GetCredentials(n)
    OBVIOUS
  <2>2. (\A h \in Hosts : ~Stale(h)) /\ faults = 1 - issued /\ issued \in {0, 1}
    BY <2>1 DEF GetCredentials, Stale
  <2>3. Slack >= 0
    <3>1. CASE N = 1  BY <3>1, <2>2 DEF Slack
    <3>2. CASE N # 1  BY <3>2, <2>2 DEF Slack
    <3> QED  BY <3>1, <3>2
  <2> QED  BY <2>2, <2>3 DEF SlackOK
<1> QED  BY <1>2, <1>3, <1>4, <1>5 DEF Inv

-----------------------------------------------------------------------------
(* What the tokens may do in a step.                                         *)

\* A step that issues no token, and with it no failure that is not counted, keeps what Slack is.
LEMMA SlackSame ==
    ASSUME UNCHANGED <<issued, faults, builds>>
    PROVE  Slack' = Slack
  BY DEF Slack

\* A token that is issued, or a failure, allows for as many rebuilds as the loop can need.
LEMMA SlackGrows ==
    ASSUME SyncCredentialsAssumption, TypeOK, SlackOK, helper = "gcp", builds' = builds,
           \/ issued' = issued + 1 /\ faults' = faults
           \/ issued' = issued /\ faults' = faults + 1
    PROVE  Slack' >= 1 /\ (N # 1 => Slack' >= 2) /\ Slack' \in Int
<1>1. Slack \in Int /\ Slack >= 0 /\ issued \in Nat /\ faults \in Nat /\ builds \in Nat
  <2>1. issued \in Nat /\ faults \in Nat /\ builds \in Nat /\ Slack >= 0
    BY DEF TypeOK, SlackOK
  <2>2. CASE N = 1  BY <2>1, <2>2 DEF Slack
  <2>3. CASE N # 1  BY <2>1, <2>3 DEF Slack
  <2> QED  BY <2>1, <2>2, <2>3
<1>2. CASE N = 1
  BY <1>1, <1>2 DEF Slack
<1>3. CASE N # 1
  BY <1>1, <1>3 DEF Slack
<1> QED  BY <1>2, <1>3

-----------------------------------------------------------------------------
(* Every action keeps the invariant.                                         *)

LEMMA BeginInv ==
    ASSUME SyncCredentialsAssumption, Inv, NEW c \in Callers, Begin(c)
    PROVE  Inv'
<1> USE DEF Begin, tokens
<1>1. TypeOK'  BY DEF Inv, TypeOK
<1>2. LocksOK'  BY DEF Inv, TypeOK, LocksOK
<1>3. ClientOK'  BY DEF Inv, ClientOK, newClient
<1>4. SlackOK'  BY DEF Inv, SlackOK, Slack, Stale, Ahead, Behind
<1> QED  BY <1>1, <1>2, <1>3, <1>4 DEF Inv

\* What AreCredentialsValid of GCP does to the tokens while nobody has the write lock.
LEMMA CheckSlack ==
    ASSUME SyncCredentialsAssumption, TypeOK, SlackOK, writer = None, writer' = None,
           UNCHANGED <<helper, held, pass, builds>>,
           \/ UNCHANGED <<tokens, faults>>
           \/ \E t \in 1..(issued + 1) : Reuse(t)
           \/ FetchFails
    PROVE  SlackOK'
<1> SUFFICES ASSUME helper = "gcp" PROVE SlackOK'
  BY DEF SlackOK
<1>1. CASE UNCHANGED <<issued, source, faults>>
  BY <1>1 DEF SlackOK, Slack, Stale
<1>2. CASE issued' = issued + 1 /\ source' = issued' /\ faults' = faults
  <2>1. Slack' >= 1 /\ Slack' \in Int  BY <1>2, SlackGrows
  <2> QED  BY <2>1, <1>2 DEF SlackOK
<1>3. CASE UNCHANGED <<issued, source>> /\ faults' = faults + 1
  <2>1. Slack' >= 1 /\ Slack' \in Int  BY <1>3, SlackGrows
  <2> QED  BY <2>1, <1>3 DEF SlackOK
<1> QED  BY <1>1, <1>2, <1>3 DEF Reuse, FetchFails, Fault, tokens

LEMMA CheckNeededInv ==
    ASSUME SyncCredentialsAssumption, Inv, NEW c \in Callers, CheckNeeded(c)
    PROVE  Inv'
<1>1. /\ issued' \in Nat /\ issued' >= issued /\ source' \in Nat /\ spent' \in BOOLEAN /\ faults' \in Nat
      /\ UNCHANGED <<helper, due, held, creds, client, writer, readers, pass, left, broken, builds, calls>>
      /\ \/ pc' = [pc EXCEPT ![c] = "ready"]
         \/ pc' = [pc EXCEPT ![c] = "lock"]
  BY DEF CheckNeeded, Inv, TypeOK, tokens, Reuse, FetchFails, Fault
<1>2. TypeOK'
  <2>1. due' \subseteq 1..issued'
    BY <1>1 DEF Inv, TypeOK
  <2> QED  BY <1>1, <2>1 DEF Inv, TypeOK
<1>3. LocksOK'
  BY <1>1 DEF Inv, LocksOK, TypeOK, CheckNeeded
<1>4. ClientOK'
  BY <1>1 DEF Inv, ClientOK, newClient
<1>5. SlackOK'
  <2>1. \/ UNCHANGED <<tokens, faults>>
        \/ \E t \in 1..(issued + 1) : Reuse(t)
        \/ FetchFails
    BY DEF CheckNeeded
  <2>2. writer = None /\ writer' = None  BY <1>1 DEF CheckNeeded
  <2> QED  BY <1>1, <2>1, <2>2, CheckSlack DEF Inv
<1> QED  BY <1>2, <1>3, <1>4, <1>5 DEF Inv

LEMMA LockInv ==
    ASSUME SyncCredentialsAssumption, Inv, NEW c \in Callers, Lock(c)
    PROVE  Inv'
<1> USE DEF Lock, tokens
<1>0. pass' = [at |-> 1, updated |-> FALSE] /\ pass'.at = 1 /\ pass'.updated = FALSE /\ 1 \in 1..(N + 1)
  BY HostsFacts
<1>1. TypeOK'  BY <1>0 DEF Inv, TypeOK
<1>2. LocksOK'  BY DEF Inv, TypeOK, LocksOK, SyncCredentialsAssumption
<1>3. ClientOK'  BY <1>0 DEF Inv, ClientOK, newClient
<1>4. SlackOK'
  <2> SUFFICES ASSUME helper = "gcp" PROVE SlackOK'
    BY DEF SlackOK
  <2>1. ~Behind'
    BY <1>0, HostsFacts DEF Behind
  <2>2. Ahead' => \E h \in Hosts : Stale(h)
    BY DEF Ahead, Stale, Hosts
  <2>3. Slack' = Slack  BY DEF Slack
  <2>4. writer' # None  BY DEF SyncCredentialsAssumption
  <2> QED  BY <1>0, <2>1, <2>2, <2>3, <2>4 DEF Inv, SlackOK
<1> QED  BY <1>1, <1>2, <1>3, <1>4 DEF Inv

\* The locks are as they were while the loop goes on.
LEMMA PassLocks ==
    ASSUME LocksOK, UNCHANGED <<writer, readers, pc>>
    PROVE  LocksOK'
  BY DEF LocksOK

\* What the loop does to one host.
LEMMA PassStep ==
    ASSUME SyncCredentialsAssumption, TypeOK, ClientOK, writer # None, pass.at <= N,
           UNCHANGED <<client, broken, writer>>,
           Keep \/ (\E t \in 1..(issued + 1) : Store(t))
    PROVE  /\ ClientOK'
           /\ held' \in [Hosts -> Nat] /\ creds' \in [Hosts -> Nat] /\ left' \subseteq Hosts
           /\ pass' \in [at: 1..(N + 1), updated: BOOLEAN]
<1>1. pass.at \in Hosts /\ pass.at + 1 \in 1..(N + 1) /\ pass.updated \in BOOLEAN
  BY HostsFacts DEF TypeOK, Hosts
<1>2. CASE Keep
  <2>1. pass' = [at |-> pass.at + 1, updated |-> pass.updated]
    BY <1>2 DEF Keep, TypeOK
  <2>2. pass' \in [at: 1..(N + 1), updated: BOOLEAN] /\ pass'.updated = pass.updated
    BY <1>1, <2>1
  <2> QED  BY <1>2, <2>2 DEF Keep, TypeOK, ClientOK, newClient
<1>3. ASSUME NEW t \in 1..(issued + 1), Store(t)
      PROVE  /\ ClientOK'
             /\ held' \in [Hosts -> Nat] /\ creds' \in [Hosts -> Nat] /\ left' \subseteq Hosts
             /\ pass' \in [at: 1..(N + 1), updated: BOOLEAN]
  <2>1. pass' \in [at: 1..(N + 1), updated: BOOLEAN] /\ pass'.updated = TRUE
    BY <1>1, <1>3 DEF Store
  <2>2. t \in Nat /\ held' \in [Hosts -> Nat] /\ creds' \in [Hosts -> Nat] /\ left' \subseteq Hosts
    BY <1>1, <1>3 DEF Store, TypeOK
  <2>3. \A h \in Hosts \ left' : creds'[h] = held'[h]
    BY <1>1, <1>3 DEF Store, TypeOK, ClientOK
  <2> QED  BY <2>1, <2>2, <2>3 DEF ClientOK
<1> QED  BY <1>2, <1>3

LEMMA RefreshDueInv ==
    ASSUME SyncCredentialsAssumption, Inv, NEW c \in Callers, RefreshDue(c)
    PROVE  Inv'
<1>1. /\ issued' \in Nat /\ issued' >= issued /\ source' \in Nat /\ spent' \in BOOLEAN /\ faults' \in Nat
      /\ UNCHANGED <<helper, due, client, writer, readers, pc, broken, builds, calls>>
      /\ Keep \/ (\E t \in 1..(issued + 1) : Store(t))
      /\ helper' # "gcp"
  <2>1. /\ issued \in Nat /\ source \in Nat /\ spent \in BOOLEAN /\ faults \in Nat /\ helper # "gcp"
        /\ UNCHANGED <<helper, due, client, writer, readers, pc, broken, builds, calls>>
    BY DEF RefreshDue, Inv, TypeOK
  <2>2. CASE Keep /\ UNCHANGED <<tokens, faults>>
    BY <2>1, <2>2 DEF tokens
  <2>3. CASE Keep /\ FetchFails
    BY <2>1, <2>3 DEF tokens, FetchFails, Fault
  <2>4. ASSUME NEW t \in 1..(issued + 1), Exchange(t), Store(t)
        PROVE  /\ issued' \in Nat /\ issued' >= issued /\ source' \in Nat /\ spent' \in BOOLEAN
               /\ faults' \in Nat
    <3>1. spent' \in BOOLEAN  BY <2>4, Zenon DEF Exchange
    <3> QED  BY <2>1, <2>4, <3>1 DEF Exchange
  <2> QED  BY <2>1, <2>2, <2>3, <2>4 DEF RefreshDue
<1>2. writer # None /\ pass.at <= N
  BY DEF RefreshDue, Inv, LocksOK, SyncCredentialsAssumption
<1>3. /\ ClientOK'
      /\ held' \in [Hosts -> Nat] /\ creds' \in [Hosts -> Nat] /\ left' \subseteq Hosts
      /\ pass' \in [at: 1..(N + 1), updated: BOOLEAN]
  BY <1>1, <1>2, PassStep DEF Inv
<1>4. TypeOK'
  <2>1. due' \subseteq 1..issued'
    BY <1>1 DEF Inv, TypeOK
  <2> QED  BY <1>1, <1>3, <2>1 DEF Inv, TypeOK
<1>5. LocksOK'  BY <1>1, PassLocks DEF Inv
<1>6. SlackOK'  BY <1>1 DEF SlackOK
<1> QED  BY <1>3, <1>4, <1>5, <1>6 DEF Inv

\* A token of Google that is issued, or a failure, pays for all that the loop has left.
LEMMA SlackPays ==
    ASSUME SyncCredentialsAssumption, TypeOK, SlackOK, helper = "gcp", writer # None, pass.at <= N,
           UNCHANGED <<builds, helper, writer>>,
           source' = issued', pass'.at = pass.at + 1, pass'.updated \in BOOLEAN,
           \/ issued' = issued + 1 /\ faults' = faults
           \/ issued' = issued /\ faults' = faults + 1,
           \/ held'[pass.at] = issued'
           \/ pass'.updated = pass.updated
    PROVE  SlackOK'
<1>1. Slack' >= 1 /\ (N # 1 => Slack' >= 2) /\ Slack' \in Int
  BY SlackGrows
<1>2. pass.at \in Hosts /\ pass.at \in Nat /\ pass.at >= 1 /\ pass'.at # 1
  BY HostsFacts DEF TypeOK, Hosts
<1>3. CASE N # 1
  BY <1>1, <1>2, <1>3 DEF SlackOK
<1>4. CASE N = 1
  <2>1. pass.at = 1 /\ pass'.at = 2 /\ ~pass.updated /\ (\A h \in Hosts : h = 1)
    BY <1>2, <1>4, HostsFacts DEF SlackOK, Hosts
  <2>2. ~Ahead'
    BY <2>1 DEF Ahead, Hosts
  <2>3. CASE pass'.updated = pass.updated
    BY <1>1, <1>2, <2>1, <2>2, <2>3 DEF SlackOK
  <2>4. CASE held'[pass.at] = issued'
    <3>1. held'[1] = issued'
      BY <2>1, <2>4
    <3>2. ~Behind'
      BY <2>1, <3>1 DEF Behind, Stale, Hosts
    <3> QED  BY <1>1, <1>2, <2>1, <2>2, <3>2 DEF SlackOK
  <2> QED  BY <2>3, <2>4
<1> QED  BY <1>3, <1>4

\* One host with the GCP helper.
LEMMA RotatedSlack ==
    ASSUME SyncCredentialsAssumption, Inv, NEW c \in Callers, RefreshRotated(c)
    PROVE  SlackOK'
<1>1. /\ helper = "gcp" /\ TypeOK /\ SlackOK /\ writer # None /\ pass.at <= N
      /\ UNCHANGED <<builds, helper, writer>>
  BY DEF RefreshRotated, Reuse, Inv, LocksOK, SyncCredentialsAssumption
<1>2. /\ pass.at \in Hosts /\ pass.at \in Nat /\ pass.at >= 1 /\ pass.updated \in BOOLEAN
      /\ held \in [Hosts -> Nat] /\ source = issued /\ issued \in Nat
  BY <1>1, HostsFacts DEF TypeOK, SlackOK, Hosts
<1>3. Keep => /\ pass'.at = pass.at + 1 /\ pass'.updated = pass.updated /\ held' = held
  <2>1. Keep => pass' = [at |-> pass.at + 1, updated |-> pass.updated]
    BY <1>1 DEF Keep, TypeOK
  <2> QED  BY <2>1 DEF Keep
<1>4. \A t : Store(t) => /\ pass'.at = pass.at + 1 /\ pass'.updated = TRUE
                        /\ held' = [held EXCEPT ![pass.at] = t] /\ held'[pass.at] = t
  BY <1>2 DEF Store
<1>5. CASE helper = "gcp" /\ FetchFails /\ Keep
  <2>1. faults' = faults + 1 /\ issued' = issued /\ source' = issued'
    BY <1>2, <1>5 DEF FetchFails, Fault, tokens
  <2> QED  BY <1>1, <1>2, <1>3, <1>5, <2>1, SlackPays
<1>6. CASE helper = "gcp" /\ Fault /\ source \notin due \cup {0} /\ Store(source) /\ UNCHANGED tokens
  <2>1. faults' = faults + 1 /\ issued' = issued /\ source' = issued'
    BY <1>2, <1>6 DEF Fault, tokens
  <2>2. held'[pass.at] = issued' /\ pass'.at = pass.at + 1 /\ pass'.updated \in BOOLEAN
    BY <1>2, <1>4, <1>6, <2>1
  <2> QED  BY <1>1, <2>1, <2>2, SlackPays
<1>7. ASSUME NEW t \in 1..(issued + 1), Reuse(t), IF held[pass.at] = t THEN Keep ELSE Store(t)
      PROVE  SlackOK'
  <2>1. faults' = faults /\ pass'.at = pass.at + 1 /\ pass'.updated \in BOOLEAN /\ held'[pass.at] = t
    BY <1>2, <1>3, <1>4, <1>7 DEF Reuse
  <2>2. CASE source \in due \cup {0}
    <3>1. t = issued + 1 /\ issued' = t /\ source' = t
      BY <1>7, <2>2 DEF Reuse
    <3> QED  BY <1>1, <2>1, <3>1, SlackPays
  <2>3. CASE source \notin due \cup {0}
    <3>1. t = issued /\ issued' = issued /\ source' = issued'
      BY <1>2, <1>7, <2>3 DEF Reuse
    <3>2. Slack' = Slack
      BY <1>1, <2>1, <3>1 DEF Slack
    <3>3. Ahead' => Ahead
      <4> SUFFICES ASSUME NEW h \in Hosts, h >= pass'.at, held'[h] # issued' PROVE Ahead
        BY DEF Ahead, Stale, Hosts
      <4>1. h # pass.at /\ h >= pass.at /\ held'[h] = held[h]
        BY <1>2, <1>3, <1>4, <1>7, <2>1, HostsFacts
      <4> QED  BY <3>1, <4>1 DEF Ahead, Stale
    <3>4. Behind' => Behind
      <4> SUFFICES ASSUME NEW h \in Hosts, h < pass'.at, held'[h] # issued' PROVE Behind
        BY DEF Behind, Stale, Hosts
      <4>1. h # pass.at
        BY <2>1, <3>1
      <4>2. h < pass.at /\ held'[h] = held[h]
        BY <1>2, <1>3, <1>4, <1>7, <2>1, <4>1, HostsFacts
      <4> QED  BY <3>1, <4>2 DEF Behind, Stale
    <3>5. pass'.updated => pass.updated \/ Ahead
      <4>1. CASE held[pass.at] = t
        BY <1>3, <1>7, <4>1
      <4>2. CASE held[pass.at] # t
        BY <1>2, <3>1, <4>2, HostsFacts DEF Ahead, Stale
      <4> QED  BY <4>1, <4>2
    <3>6. pass'.at # 1  BY <1>2, <2>1
    <3> QED  BY <1>1, <3>1, <3>2, <3>3, <3>4, <3>5, <3>6 DEF SlackOK
  <2> QED  BY <2>2, <2>3
<1> QED  BY <1>5, <1>6, <1>7 DEF RefreshRotated

LEMMA RefreshRotatedInv ==
    ASSUME SyncCredentialsAssumption, Inv, NEW c \in Callers, RefreshRotated(c)
    PROVE  Inv'
<1>1. issued \in Nat /\ source \in Nat /\ faults \in Nat /\ source = issued /\ helper = "gcp"
  BY DEF RefreshRotated, Reuse, Inv, TypeOK, SlackOK
<1>2. /\ issued' \in Nat /\ issued' >= issued /\ source' \in Nat /\ spent' = spent /\ faults' \in Nat
      /\ UNCHANGED <<helper, due, client, writer, readers, pc, broken, builds, calls>>
      /\ Keep \/ (\E t \in 1..(issued + 1) : Store(t))
  <2>1. UNCHANGED <<helper, due, client, writer, readers, pc, broken, builds, calls>>
    BY DEF RefreshRotated
  <2>2. CASE helper = "gcp" /\ FetchFails /\ Keep
    BY <1>1, <2>1, <2>2 DEF FetchFails, Fault, tokens
  <2>3. CASE helper = "gcp" /\ Fault /\ source \notin due \cup {0} /\ Store(source) /\ UNCHANGED tokens
    <3>1. source \in 1..(issued + 1)  BY <1>1, <2>3
    <3> QED  BY <1>1, <2>1, <2>3, <3>1 DEF Fault, tokens
  <2>4. ASSUME NEW t \in 1..(issued + 1), Reuse(t), IF held[pass.at] = t THEN Keep ELSE Store(t)
        PROVE  /\ issued' \in Nat /\ issued' >= issued /\ source' \in Nat /\ spent' = spent
               /\ faults' \in Nat /\ (Keep \/ (\E u \in 1..(issued + 1) : Store(u)))
    BY <1>1, <2>4 DEF Reuse
  <2> QED  BY <2>1, <2>2, <2>3, <2>4 DEF RefreshRotated
<1>3. writer # None /\ pass.at <= N
  BY DEF RefreshRotated, Inv, LocksOK, SyncCredentialsAssumption
<1>4. /\ ClientOK'
      /\ held' \in [Hosts -> Nat] /\ creds' \in [Hosts -> Nat] /\ left' \subseteq Hosts
      /\ pass' \in [at: 1..(N + 1), updated: BOOLEAN]
  BY <1>2, <1>3, PassStep DEF Inv
<1>5. TypeOK'
  <2>1. due' \subseteq 1..issued'
    BY <1>2 DEF Inv, TypeOK
  <2> QED  BY <1>2, <1>4, <2>1 DEF Inv, TypeOK
<1>6. LocksOK'  BY <1>2, PassLocks DEF Inv
<1> QED  BY <1>4, <1>5, <1>6, RotatedSlack DEF Inv

\* The loop is over, and the client is built from what it has updated.
LEMMA initClientInv ==
    ASSUME SyncCredentialsAssumption, Inv, NEW c \in Callers, initClient(c)
    PROVE  Inv'
<1>1. /\ writer = c /\ writer # None /\ writer' = None /\ pc' = [pc EXCEPT ![c] = "ready"]
      /\ UNCHANGED <<helper, tokens, due, held, creds, readers, pass, left, calls>>
      /\ UNCHANGED <<issued, source, spent>>
      /\ pass.at > N
  BY DEF initClient, Inv, LocksOK, SyncCredentialsAssumption, tokens
<1>2. TypeOK
  BY DEF Inv
<1>3. client' \in [Hosts -> Nat] /\ broken' \in BOOLEAN /\ builds' \in Nat /\ faults' \in Nat
  <2>1. creds \in [Hosts -> Nat] /\ client \in [Hosts -> Nat] /\ broken \in BOOLEAN /\ builds \in Nat
        /\ faults \in Nat
    BY <1>2 DEF TypeOK
  <2>2. newClient(creds) \in [Hosts -> Nat]
    BY <2>1, NewClientType
  <2>3. CASE UNCHANGED <<client, broken, builds, faults>>
    BY <2>1, <2>3
  <2>4. CASE client' = newClient(creds) /\ broken' = FALSE /\ builds' = builds + 1 /\ UNCHANGED faults
    <3>1. broken' \in BOOLEAN  BY <2>4, Zenon
    <3> QED  BY <2>1, <2>2, <2>4, <3>1
  <2>5. CASE Fault /\ broken' = TRUE /\ UNCHANGED <<client, builds>>
    BY <2>1, <2>5 DEF Fault
  <2> QED  BY <2>3, <2>4, <2>5 DEF initClient
<1>4. TypeOK'
  BY <1>1, <1>2, <1>3 DEF TypeOK
<1>5. LocksOK'
  BY <1>1, <1>2 DEF Inv, LocksOK, TypeOK, SyncCredentialsAssumption
<1>6. ClientOK'
  <2>1. \A h \in Hosts \ left' : creds'[h] = held'[h]
    BY <1>1 DEF Inv, ClientOK
  <2>2. newClient(creds)' = newClient(creds)
    BY <1>1 DEF newClient
  <2>3. ~broken' => client' = newClient(creds)
    BY <1>1 DEF initClient, Inv, ClientOK
  <2> QED  BY <2>1, <2>2, <2>3 DEF ClientOK
<1>7. SlackOK'
  <2> SUFFICES ASSUME helper = "gcp" PROVE SlackOK'
    BY <1>1 DEF SlackOK
  <2>1. SlackOK /\ issued \in Nat /\ faults \in Nat /\ builds \in Nat /\ pass.at # 1 /\ pass.at \in Nat
    BY <1>1, <1>2, HostsFacts DEF Inv, TypeOK
  <2>2. (\E h \in Hosts : Stale(h)') => Behind
    BY <1>1, <2>1, HostsFacts DEF Behind, Stale, Hosts
  <2>3. Slack \in Int /\ Slack >= 0
    <3>1. CASE N = 1  BY <2>1, <3>1 DEF Slack, SlackOK
    <3>2. CASE N # 1  BY <2>1, <3>2 DEF Slack, SlackOK
    <3> QED  BY <3>1, <3>2
  <2>4. CASE ~pass.updated /\ UNCHANGED <<client, broken, builds, faults>>
    <3>1. Slack' = Slack  BY <1>1, <2>4 DEF Slack
    <3> QED  BY <1>1, <2>1, <2>2, <2>3, <3>1 DEF SlackOK
  <2>5. CASE pass.updated /\ builds' = builds + 1 /\ UNCHANGED faults
    <3>1. Slack' = Slack - 1
      <4>1. CASE N = 1  BY <1>1, <2>1, <2>5, <4>1 DEF Slack
      <4>2. CASE N # 1  BY <1>1, <2>1, <2>5, <4>2 DEF Slack
      <4> QED  BY <4>1, <4>2
    <3>2. Slack >= 1 /\ (Behind => Slack >= 2)
      BY <1>1, <2>1, <2>5 DEF SlackOK
    <3> QED  BY <1>1, <2>1, <2>2, <2>3, <3>1, <3>2 DEF SlackOK
  <2>6. CASE Fault /\ builds' = builds
    <3>1. Slack' >= 1 /\ Slack' \in Int
      BY <1>1, <1>2, <2>1, <2>6, SlackGrows DEF Fault
    <3> QED  BY <1>1, <2>1, <3>1 DEF SlackOK
  <2> QED  BY <2>4, <2>5, <2>6 DEF initClient
<1> QED  BY <1>4, <1>5, <1>6, <1>7 DEF Inv

LEMMA UseInv ==
    ASSUME SyncCredentialsAssumption, Inv, NEW c \in Callers, Use(c)
    PROVE  Inv'
<1> USE DEF Use, tokens
<1>1. TypeOK'  BY DEF Inv, TypeOK
<1>2. LocksOK'  BY DEF Inv, TypeOK, LocksOK
<1>3. ClientOK'  BY DEF Inv, ClientOK, newClient
<1>4. SlackOK'  BY DEF Inv, SlackOK, Slack, Stale, Ahead, Behind
<1> QED  BY <1>1, <1>2, <1>3, <1>4 DEF Inv

LEMMA EndInv ==
    ASSUME SyncCredentialsAssumption, Inv, NEW c \in Callers, End(c)
    PROVE  Inv'
<1> USE DEF End, tokens
<1>1. TypeOK'  BY DEF Inv, TypeOK
<1>2. LocksOK'  BY DEF Inv, TypeOK, LocksOK
<1>3. ClientOK'  BY DEF Inv, ClientOK, newClient
<1>4. SlackOK'  BY DEF Inv, SlackOK, Slack, Stale, Ahead, Behind
<1> QED  BY <1>1, <1>2, <1>3, <1>4 DEF Inv

\* Time passes.
LEMMA TimeInv ==
    ASSUME SyncCredentialsAssumption, Inv,
           (\E t \in 1..issued : TokenDue(t)) \/ NewAssertion
    PROVE  Inv'
<1>1. /\ UNCHANGED <<helper, issued, source, held, creds, client, writer, readers, pc, pass, left, broken,
                      builds, calls>>
      /\ spent' \in BOOLEAN /\ faults' \in Nat
  <2>1. spent \in BOOLEAN /\ faults \in Nat  BY DEF Inv, TypeOK
  <2>2. CASE NewAssertion
    <3>1. spent' \in BOOLEAN  BY <2>2, Zenon DEF NewAssertion
    <3> QED  BY <2>1, <2>2, <3>1 DEF NewAssertion, Fault
  <2>3. CASE \E t \in 1..issued : TokenDue(t)
    BY <2>1, <2>3 DEF TokenDue, tokens
  <2> QED  BY <2>2, <2>3
<1>2. due' \subseteq 1..issued' /\ IsFiniteSet(due')
  <2>1. due \subseteq 1..issued /\ IsFiniteSet(due)  BY DEF Inv, TypeOK
  <2>2. CASE NewAssertion
    BY <2>1, <2>2 DEF NewAssertion
  <2>3. CASE \E t \in 1..issued : TokenDue(t)
    <3>1. PICK t \in 1..issued : TokenDue(t)  BY <2>3
    <3>2. due' = due \cup {t} /\ issued' = issued  BY <3>1 DEF TokenDue, tokens
    <3> QED  BY <2>1, <3>2, FS_AddElement
  <2> QED  BY <2>2, <2>3
<1>3. TypeOK'  BY <1>1, <1>2 DEF Inv, TypeOK
<1>4. LocksOK'  BY <1>1, PassLocks DEF Inv
<1>5. ClientOK'  BY <1>1 DEF Inv, ClientOK, newClient
<1>6. SlackOK'
  <2>1. CASE faults' = faults
    BY <1>1, <2>1 DEF Inv, SlackOK, Slack, Stale, Ahead, Behind
  <2>2. CASE helper # "gcp"
    BY <1>1, <2>2 DEF SlackOK
  <2>3. CASE helper = "gcp" /\ faults' = faults + 1
    <3>1. /\ TypeOK /\ SlackOK /\ UNCHANGED <<helper, source, issued, writer, pass, held>>
          /\ (Ahead' <=> Ahead) /\ (Behind' <=> Behind)
          /\ (\A h \in Hosts : Stale(h)' <=> Stale(h))
      BY <1>1 DEF Inv, Ahead, Behind, Stale
    <3>2. Slack' >= Slack /\ Slack \in Int /\ Slack' \in Int
      <4>1. issued \in Nat /\ faults \in Nat /\ builds \in Nat  BY <3>1 DEF TypeOK
      <4>2. CASE N = 1  BY <1>1, <2>3, <4>1, <4>2 DEF Slack
      <4>3. CASE N # 1  BY <1>1, <2>3, <4>1, <4>3 DEF Slack
      <4> QED  BY <4>2, <4>3
    <3> QED  BY <3>1, <3>2 DEF SlackOK
  <2> QED  BY <2>1, <2>2, <2>3 DEF TokenDue, NewAssertion, Fault
<1> QED  BY <1>3, <1>4, <1>5, <1>6 DEF Inv

LEMMA NextInv ==
    ASSUME SyncCredentialsAssumption, Inv, [Next]_vars
    PROVE  Inv'
<1>1. CASE UNCHANGED vars
  <2>1. UNCHANGED <<helper, issued, source, spent, due, held, creds, client, writer, readers, pc, pass,
                    left, broken, builds, calls, faults>>
    BY <1>1 DEF vars
  <2>2. TypeOK'  BY <2>1 DEF Inv, TypeOK
  <2>3. LocksOK'  BY <2>1, PassLocks DEF Inv
  <2>4. ClientOK'  BY <2>1 DEF Inv, ClientOK, newClient
  <2>5. SlackOK'  BY <2>1 DEF Inv, SlackOK, Slack, Stale, Ahead, Behind
  <2> QED  BY <2>2, <2>3, <2>4, <2>5 DEF Inv
<1>2. CASE Next
  BY <1>2, BeginInv, CheckNeededInv, LockInv, RefreshDueInv, RefreshRotatedInv, initClientInv, UseInv,
     EndInv, TimeInv DEF Next, Step
<1> QED  BY <1>1, <1>2

-----------------------------------------------------------------------------
\* While nobody refreshes, a host whose credentials the helper takes for valid is one to which the
\* client sends them; and with the Google helper the client is rebuilt at most once per rotation of
\* the token, twice with mirrors, and as often again for every failure: for any number of operations
\* that run at once, of mirrors and of tokens.
THEOREM CredentialsCurrent ==
    ASSUME SyncCredentialsAssumption
    PROVE  Spec => [](TypeOK /\ ClientCurrent /\ RebuildsBounded)
<1>1. Init => Inv
  BY InitInv
<1>2. Inv /\ [Next]_vars => Inv'
  BY NextInv
<1>3. Inv => TypeOK /\ ClientCurrent /\ RebuildsBounded
  <2> SUFFICES ASSUME Inv PROVE TypeOK /\ ClientCurrent /\ RebuildsBounded
    OBVIOUS
  <2>1. ClientCurrent
    BY DEF Inv, ClientOK, ClientCurrent, newClient
  <2>2. RebuildsBounded
    <3> SUFFICES ASSUME helper = "gcp" PROVE RebuildsBounded
      BY DEF RebuildsBounded
    <3>1. Slack >= 0 /\ issued \in Nat /\ faults \in Nat /\ builds \in Nat
      BY DEF Inv, SlackOK, TypeOK
    <3>2. CASE N = 1  BY <3>1, <3>2 DEF Slack, RebuildsBounded
    <3>3. CASE N # 1  BY <3>1, <3>3 DEF Slack, RebuildsBounded
    <3> QED  BY <3>2, <3>3
  <2> QED  BY <2>1, <2>2 DEF Inv
<1> QED  BY <1>1, <1>2, <1>3, PTL DEF Spec

\* A refresh replaces a token only if that was due, whichever operation won the race for clientLock;
\* and the client and its credentials are replaced only while no operation uses them.
THEOREM RefreshChecked ==
    ASSUME SyncCredentialsAssumption
    PROVE  Spec => [][ReplacesDue /\ ReplacedUnused]_vars
<1>1. Init => Inv
  BY InitInv
<1>2. Inv /\ [Next]_vars => Inv'
  BY NextInv
<1>3. ASSUME Inv, Next PROVE ReplacesDue /\ ReplacedUnused
  <2>1. ASSUME NEW c \in Callers, RefreshDue(c) \/ RefreshRotated(c)
        PROVE  ReplacesDue /\ ReplacedUnused
    <3>1. writer # None /\ readers = {} /\ pass.at \in Hosts /\ held \in [Hosts -> Nat]
      <4>1. pc[c] = "pass" /\ pass.at <= N
        BY <2>1 DEF RefreshDue, RefreshRotated
      <4>2. writer = c /\ c # None
        BY <1>3, <4>1 DEF Inv, LocksOK, SyncCredentialsAssumption
      <4>3. pass.at \in Hosts /\ held \in [Hosts -> Nat]
        BY <1>3, <4>1, HostsFacts DEF Inv, TypeOK, Hosts
      <4> QED  BY <1>3, <4>2, <4>3 DEF Inv, LocksOK
    <3>2. ReplacedUnused
      BY <3>1 DEF ReplacedUnused
    <3>3. ReplacesDue
      <4> SUFFICES ASSUME helper # "gcp", NEW h \in Hosts, held'[h] # held[h]
                   PROVE  held[h] \in due \cup {0}
        BY DEF ReplacesDue
      <4>1. RefreshDue(c)
        BY <2>1 DEF RefreshRotated, Reuse
      <4>2. ~NotDue(pass.at) /\ \E t \in 1..(issued + 1) : Store(t)
        BY <4>1 DEF RefreshDue, Keep
      <4>3. h = pass.at
        BY <3>1, <4>2 DEF Store
      <4> QED  BY <4>2, <4>3 DEF NotDue
    <3> QED  BY <3>2, <3>3
  <2>2. ASSUME NEW c \in Callers, initClient(c)
        PROVE  ReplacesDue /\ ReplacedUnused
    <3>1. writer # None /\ readers = {} /\ held' = held
      BY <1>3, <2>2 DEF Inv, LocksOK, SyncCredentialsAssumption, initClient
    <3> QED  BY <3>1 DEF ReplacesDue, ReplacedUnused
  <2>3. ASSUME UNCHANGED <<held, client, creds>> PROVE ReplacesDue /\ ReplacedUnused
    BY <2>3 DEF ReplacesDue, ReplacedUnused
  <2>4. CASE \E c \in Callers : Begin(c) \/ Step(c)
    <3>1. PICK c \in Callers : Begin(c) \/ Step(c)
      BY <2>4
    <3>2. \/ UNCHANGED <<held, client, creds>>
          \/ RefreshDue(c) \/ RefreshRotated(c) \/ initClient(c)
      BY <3>1 DEF Step, Begin, CheckNeeded, Lock, Use, End
    <3> QED  BY <2>1, <2>2, <2>3, <3>2
  <2>5. CASE (\E t \in 1..issued : TokenDue(t)) \/ NewAssertion
    BY <2>3, <2>5 DEF TokenDue, NewAssertion
  <2> QED  BY <1>3, <2>4, <2>5 DEF Next
<1> QED  BY <1>1, <1>2, <1>3, PTL DEF Spec

=============================================================================
