------------------------------- MODULE Admission -------------------------------
(***************************************************************************)
(* Who takes part: the start-up of checker and worker nodes, which read    *)
(* their licence and metadata and activate them where needed, and the      *)
(* worker's check of every posted proof against the chain, with the        *)
(* checker count taken from a cached copy of BMBState.  Owners, other      *)
(* machines with the same keys and the licence administrator act at the    *)
(* same time.                                                              *)
(*                                                                         *)
(* A tick is as long as the longest fetch of an account.  A transaction is *)
(* executed in one step; its sender may not hear of it.  What the handler  *)
(* does before and after its licence checks is in ProofCollection.         *)
(***************************************************************************)
EXTENDS Rewards

CONSTANTS WorkerNodes,   \* worker nodes: licence and key
          CheckerNodes,  \* checker nodes: licence and key
          Posts,         \* bound: requests the worker handles at the same time
          DayTicks,      \* ticks of a day
          Ttl,           \* how long BMBState is cached
          Capacity, Counts, MaxPushes,  \* of BmbState
          MaxEvents      \* bound: what users, operators and owners do

ASSUME AdmissionAssumption ==
    /\ WorkerNodes \subseteq Workers \X Owners
    /\ CheckerNodes \subseteq Checkers \X Owners
    /\ DayTicks \in Nat \ {0} /\ Ttl \in Nat /\ MaxEvents \in Nat
    /\ Capacity \in Nat \ {0, 1} /\ Counts \subseteq Nat /\ MaxPushes \in Nat
    /\ None \notin Nat

VARIABLES now,            \* the clock
          data, current_index, pushes,  \* of BmbState
          worker_node,    \* each worker node's process
          checker_node,   \* each checker node's process
          posts,          \* the POST /proof requests being handled
          cache,          \* the process-wide cache of the worker
          events          \* how many events happened

bmb   == <<data, current_index, pushes>>
nodes == <<worker_node, checker_node>>
chain == <<period, licences, metadata, rewards, bmb>>
vars  == <<now, chain, nodes, posts, cache, events>>

Bmb == INSTANCE BmbState WITH answer <- [target |-> 0, count |-> None]

Days     == Bmb!Periods
LastTick == (MaxPeriod + 1) * DayTicks - 1

\* What a copy of the account answers for each day.
Copy == [d \in Days |-> Bmb!get_checker_count_for_period(d)]

\* steady: nobody else touched the licence or its metadata since the node started.
Down == [pc |-> "down", owner |-> None, uri |-> None, steady |-> TRUE]
Idle == [pc |-> "idle", day |-> 0, from |-> None, copy |-> None, count |-> None, read |-> 0]

Nowhere == [copy |-> None, until |-> 0]

Processes == [pc : {"down", "licence", "metadata", "activate", "update", "running"},
              owner : Owners \cup {None},
              uri : Uris \cup {None},
              steady : BOOLEAN]

TypeOK ==
    /\ RewardsTypeOK
    /\ now \in 0..LastTick
    /\ period = now \div DayTicks
    /\ Bmb!TypeOK
    /\ worker_node \in [WorkerNodes -> Processes]
    /\ checker_node \in [CheckerNodes -> Processes]
    /\ \A h \in Posts :
          /\ posts[h].pc \in {"idle", "licence", "asset", "fetch", "fetched",
                              "admitted", "invalid", "inactive"}
          /\ posts[h].day \in Days
          /\ posts[h].from \in (Checkers \X Keys) \cup {None}
          /\ posts[h].count \in Counts \cup {None}
          /\ posts[h].pc \in {"admitted", "inactive"} => posts[h].count # None
    /\ cache.until \in 0..(LastTick + Ttl)
    /\ events \in 0..MaxEvents

\* Late on the first day, before any announcement and activation.  The nodes were
\* set up with the keys of those who hold the licences by then.
Init == /\ RewardsInit
        /\ \A n \in WorkerNodes : worker_owner[n[1]] = n[2]
        /\ \A n \in CheckerNodes : checker_owner[n[1]] = n[2]
        /\ Bmb!Init
        /\ period = 0
        /\ now = DayTicks - 1
        /\ worker_node = [n \in WorkerNodes |-> Down]
        /\ checker_node = [n \in CheckerNodes |-> Down]
        /\ posts = [h \in Posts |-> Idle]
        /\ cache = Nowhere
        /\ events = 0

Event == /\ events < MaxEvents
         /\ events' = events + 1

-----------------------------------------------------------------------------
(* The chain and its users.                                                *)

\* Fetches end within a tick of their being served.
Tick == /\ now < LastTick
        /\ \A h \in Posts : posts[h].pc = "fetched" => posts[h].read = now
        /\ now' = now + 1
        /\ period' = now' \div DayTicks
        /\ UNCHANGED <<licences, metadata, rewards, bmb, nodes, posts, cache, events>>

Announce(p, c) ==
    /\ Bmb!ActivateCheckerLicenses(p, c)
    /\ UNCHANGED <<now, licences, metadata, rewards, nodes, posts, cache, events>>

Disturbed(processes, licence) ==
    [n \in DOMAIN processes |->
        IF n[1] = licence /\ processes[n].pc # "down"
        THEN [processes[n] EXCEPT !.steady = FALSE]
        ELSE processes[n]]

\* A worker licence is sold, or its holder activates it by other means.
WorkerChanges(w) ==
    /\ Event
    /\ \/ \E o \in Owners : TransferWorker(w, o)
       \/ \E k \in Keys, u \in Uris : ActivateWorker(w, k, u)
    /\ worker_node' = Disturbed(worker_node, w)
    /\ UNCHANGED <<now, bmb, checker_node, posts, cache>>

CheckerChanges(c) ==
    /\ Event
    /\ \/ \E o \in Owners : TransferChecker(c, o)
       \/ \E k \in Keys : ActivateChecker(c, k)
    /\ checker_node' = Disturbed(checker_node, c)
    /\ UNCHANGED <<now, bmb, worker_node, posts, cache>>

-----------------------------------------------------------------------------
(* The transactions of a node.                                              *)

\* assetToCNftContext: an instruction names the owner that was read before, and
\* fails unless the licence is still his.
ContextValid(process, holder) == process.owner = holder

ActivateCheckerBy(n) ==
    /\ ContextValid(checker_node[n], checker_owner[n[1]])
    /\ checker_owner[n[1]] = n[2]
    /\ ActivateChecker(n[1], n[2])

ActivateWorkerBy(n) ==
    /\ ContextValid(worker_node[n], worker_owner[n[1]])
    /\ worker_owner[n[1]] = n[2]
    /\ ActivateWorker(n[1], n[2], worker_node[n].uri)

UpdateWorkerUriBy(n) ==
    /\ ContextValid(worker_node[n], worker_owner[n[1]])
    /\ UpdateWorkerUri(n[1], n[2], worker_node[n].uri)

-----------------------------------------------------------------------------
(* CheckerNode.start.  An error anywhere ends the process.                  *)

Become(processes, n, pc) == [processes EXCEPT ![n].pc = pc]

\* CheckerService.start, ProofSubmitService.start and listen: nothing read at the
\* start is used again.
Runs(processes, n) == [processes EXCEPT ![n].pc = "running", ![n].owner = None]

CheckerStarts(n) ==
    /\ checker_node[n].pc = "down"
    /\ Event
    /\ checker_node' = Become(checker_node, n, "licence")
    /\ UNCHANGED <<now, chain, worker_node, posts, cache>>

CheckerExits(n) ==
    /\ checker_node[n].pc # "down"
    /\ checker_node' = [checker_node EXCEPT ![n] = Down]
    /\ UNCHANGED <<now, chain, worker_node, posts, cache, events>>

CheckerReadsLicence(n) ==
    /\ checker_node[n].pc = "licence"
    /\ checker_node' = [checker_node EXCEPT ![n].pc = "metadata",
                                            ![n].owner = checker_owner[n[1]]]
    /\ UNCHANGED <<now, chain, worker_node, posts, cache, events>>

\* A faulty start-up: whoever the licence is delegated to.
CheckerAccepts_AnyDelegate(delegatedTo, key) == TRUE

CheckerAccepts(delegatedTo, key) == delegatedTo = key

\* The metadata is looked up under the node's own address, not the owner's.
CheckerReadsMetadata(n) ==
    /\ checker_node[n].pc = "metadata"
    /\ \/ /\ checker_metadata[n] = None
          /\ checker_node[n].owner = n[2]
          /\ checker_node' = Become(checker_node, n, "activate")
       \/ /\ checker_metadata[n] # None
          /\ CheckerAccepts(checker_metadata[n], n[2])
          /\ checker_node' = Runs(checker_node, n)
    /\ UNCHANGED <<now, chain, worker_node, posts, cache, events>>

\* The transaction was confirmed, or the process ended without knowing.
CheckerSent(n) == \/ checker_node' = Runs(checker_node, n)
                  \/ checker_node' = [checker_node EXCEPT ![n] = Down]

CheckerActivates(n) ==
    /\ checker_node[n].pc = "activate"
    /\ ActivateCheckerBy(n)
    /\ CheckerSent(n)
    /\ UNCHANGED <<now, bmb, worker_node, posts, cache, events>>

-----------------------------------------------------------------------------
(* WorkerServer.start, WorkerNode.start.                                    *)

WorkerStarts(n, uri) ==
    /\ worker_node[n].pc = "down"
    /\ Event
    /\ worker_node' = [worker_node EXCEPT ![n].pc = "licence", ![n].uri = uri]
    /\ UNCHANGED <<now, chain, checker_node, posts, cache>>

\* The process ends and with it what it handled and kept.
WorkerExits(n) ==
    /\ worker_node[n].pc # "down"
    /\ worker_node' = [worker_node EXCEPT ![n] = Down]
    /\ posts' = [h \in Posts |-> Idle]
    /\ cache' = Nowhere
    /\ UNCHANGED <<now, chain, checker_node, events>>

WorkerReadsLicence(n) ==
    /\ worker_node[n].pc = "licence"
    /\ worker_node' = [worker_node EXCEPT ![n].pc = "metadata",
                                          ![n].owner = worker_owner[n[1]]]
    /\ UNCHANGED <<now, chain, checker_node, posts, cache, events>>

\* A faulty start-up: a new external URL is not published.
UriCurrent_Any(found, configured) == TRUE

UriCurrent(found, configured) == found = configured

\* A missing account is activated, one delegated to somebody else activated again
\* if the node's key is the owner's, one with another URI updated.
WorkerReadsMetadata(n) ==
    LET m == worker_metadata[n]
    IN  /\ worker_node[n].pc = "metadata"
        /\ \/ /\ \/ m = None
                 \/ m # None /\ m.delegated_to # n[2] /\ worker_node[n].owner = n[2]
              /\ worker_node' = Become(worker_node, n, "activate")
           \/ /\ m # None
              /\ m.delegated_to = n[2]
              /\ worker_node' = IF UriCurrent(m.discovery_uri, worker_node[n].uri)
                                THEN Runs(worker_node, n)
                                ELSE Become(worker_node, n, "update")
        /\ UNCHANGED <<now, chain, checker_node, posts, cache, events>>

WorkerSent(n) == \/ worker_node' = Runs(worker_node, n)
                 \/ worker_node' = [worker_node EXCEPT ![n] = Down]

WorkerActivates(n) ==
    /\ worker_node[n].pc = "activate"
    /\ ActivateWorkerBy(n)
    /\ WorkerSent(n)
    /\ UNCHANGED <<now, bmb, checker_node, posts, cache, events>>

WorkerUpdates(n) ==
    /\ worker_node[n].pc = "update"
    /\ UpdateWorkerUriBy(n)
    /\ WorkerSent(n)
    /\ UNCHANGED <<now, bmb, checker_node, posts, cache, events>>

-----------------------------------------------------------------------------
(* POST /proof, up to the decision whether the proof is stored.             *)

Serving == \E n \in WorkerNodes : worker_node[n].pc = "running"

Answer(h, reply) == posts' = [posts EXCEPT ![h] = reply]

\* A proof of today arrives that k signed as the checker with licence c.
Post(h, c, k) ==
    /\ Serving
    /\ posts[h].pc = "idle"
    /\ Event
    /\ Answer(h, [Idle EXCEPT !.pc = "licence", !.day = period, !.from = <<c, k>>])
    /\ UNCHANGED <<now, chain, nodes, cache>>

\* The account of licence and signer exists and names the signer.
CheckerDelegated(from) == from[2] \in Owners /\ checker_metadata[from] = from[2]

ValidateCheckerLicense(h) ==
    /\ posts[h].pc = "licence"
    /\ Answer(h, IF CheckerDelegated(posts[h].from)
                 THEN [posts[h] EXCEPT !.pc = "asset"]
                 ELSE [posts[h] EXCEPT !.pc = "invalid"])
    /\ UNCHANGED <<now, chain, nodes, cache, events>>

\* The count of the proof's day, in the copy of BMBState at hand.  Without one the
\* proof is refused.
Decide(h, copy) ==
    LET count == copy[posts[h].day]
    IN  Answer(h, IF count = None THEN Idle
                  ELSE [posts[h] EXCEPT !.copy = None, !.read = 0, !.count = count,
                           !.pc = IF posts[h].from[1] > count THEN "inactive"
                                                             ELSE "admitted"])

\* A faulty expiry: minutes taken for seconds.
Expiry_Seconds == now + 60 * Ttl

Expiry == now + Ttl

\* readFromStateCached.  In its last tick an entry may be found or not.
CacheHit(h) ==
    /\ posts[h].pc = "asset"
    /\ cache # Nowhere
    /\ now <= cache.until
    /\ Decide(h, cache.copy)
    /\ UNCHANGED <<now, chain, nodes, cache, events>>

CacheMiss(h) ==
    /\ posts[h].pc = "asset"
    /\ now >= cache.until
    /\ Answer(h, [posts[h] EXCEPT !.pc = "fetch"])
    /\ UNCHANGED <<now, chain, nodes, cache, events>>

\* The account is read; before the first announcement there is none.
ReadBmbState(h) ==
    /\ posts[h].pc = "fetch"
    /\ Answer(h, IF pushes = 0 THEN Idle
                 ELSE [posts[h] EXCEPT !.pc = "fetched", !.copy = Copy, !.read = now])
    /\ UNCHANGED <<now, chain, nodes, cache, events>>

\* The copy arrives and is cached, whatever was cached meanwhile.
Fetched(h) ==
    /\ posts[h].pc = "fetched"
    /\ cache' = [copy |-> posts[h].copy, until |-> Expiry]
    /\ Decide(h, posts[h].copy)
    /\ UNCHANGED <<now, chain, nodes, events>>

\* The reply is sent, or a call failed and the request with it.
Done(h) == /\ posts[h].pc # "idle"
           /\ Answer(h, Idle)
           /\ UNCHANGED <<now, chain, nodes, cache, events>>

-----------------------------------------------------------------------------

Next == \/ Tick
        \/ \E p \in Days, c \in Counts : Announce(p, c)
        \/ \E w \in Workers : WorkerChanges(w)
        \/ \E c \in Checkers : CheckerChanges(c)
        \/ \E n \in CheckerNodes :
               \/ CheckerStarts(n) \/ CheckerExits(n)
               \/ CheckerReadsLicence(n) \/ CheckerReadsMetadata(n) \/ CheckerActivates(n)
        \/ \E n \in WorkerNodes :
               \/ \E u \in Uris : WorkerStarts(n, u)
               \/ WorkerExits(n)
               \/ WorkerReadsLicence(n) \/ WorkerReadsMetadata(n)
               \/ WorkerActivates(n) \/ WorkerUpdates(n)
        \/ \E h \in Posts :
               \/ \E c \in Checkers, k \in Keys : Post(h, c, k)
               \/ ValidateCheckerLicense(h)
               \/ CacheHit(h) \/ CacheMiss(h) \/ ReadBmbState(h) \/ Fetched(h)
               \/ Done(h)

Spec == Init /\ [][Next]_vars

-----------------------------------------------------------------------------
(* Properties.                                                             *)

\* From a cache lifetime and a fetch after midnight on, a proof is checked with
\* the count in force on its day, however the fetches of concurrent requests
\* overtake each other.  A full ring changes its answers, see BmbState.
CountInForce ==
    [][\A h \in Posts :
          /\ pushes < Capacity
          /\ posts[h].pc \in {"asset", "fetched"}
          /\ posts'[h].pc \in {"admitted", "inactive"}
          /\ now > posts[h].day * DayTicks + Ttl
          => posts'[h].count = Bmb!get_checker_count_for_period(posts[h].day)]_vars

\* A worker node that has started holds what the program asks of a submission, and
\* the chain directs checkers to its present URL: unless its key is not the
\* holder's, or others changed the licence since it started, it did not start for
\* nothing.
StartedWorkerAccepted ==
    \A n \in WorkerNodes :
        worker_node[n].pc = "running" /\ worker_node[n].steady /\ worker_owner[n[1]] = n[2]
        => /\ WorkerDelegate(n[1], n[2])
           /\ worker_metadata[WorkerAccount(n[1])].discovery_uri = worker_node[n].uri

\* What a checker node asks of its licence to start is what workers ask of its
\* proofs: none of them is refused for the licence while others leave it alone.
StartedCheckerAdmitted ==
    [][\A h \in Posts, n \in CheckerNodes :
          posts[h].from = n /\ posts[h].pc = "licence" /\ posts'[h].pc = "invalid"
          => ~(checker_node[n].pc = "running" /\ checker_node[n].steady)]_vars
=============================================================================
