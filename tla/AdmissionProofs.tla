---------------------------- MODULE AdmissionProofs ----------------------------
(***************************************************************************)
(* Proofs about admission, for every set of licences, owners, keys and     *)
(* nodes, every number of concurrent requests and every cache lifetime.    *)
(*                                                                         *)
(* The nodes: an account of a licence and its holder is written by the     *)
(* holder's node and by nobody else while the node counts as undisturbed,  *)
(* so what a started node read or wrote is still there.  The requests: a   *)
(* copy of BMBState answers, for every day that had begun when it was      *)
(* read, what the account answers now, and the time at which a cached copy *)
(* expires bounds the time at which it was read.                           *)
(***************************************************************************)
EXTENDS Admission, NumberLemmas

-----------------------------------------------------------------------------
(* The inductive invariant.                                                *)

Copies == [Days -> Counts \cup {None}]

Request == [pc : {"idle", "licence", "asset", "fetch", "fetched",
                  "admitted", "invalid", "inactive"},
            day : Days,
            from : (Checkers \X Keys) \cup {None},
            copy : Copies \cup {None},
            count : Counts \cup {None},
            read : 0..LastTick]

\* A request that has begun has a sender; one with a copy knows when it was read.
RequestsTyped ==
    /\ posts \in [Posts -> Request]
    /\ \A h \in Posts :
          /\ posts[h].pc \in {"admitted", "inactive"} => posts[h].count # None
          /\ posts[h].pc = "fetched" => posts[h].copy \in Copies

CacheTyped ==
    cache # Nowhere => /\ cache \in [copy : Copies, until : Nat]
                       /\ cache.until <= now + Ttl

\* A process that runs has a URI to publish.
UrisKnown == \A n \in WorkerNodes : worker_node[n].pc # "down" => worker_node[n].uri \in Uris

\* What a checker node looks for when it starts, or writes itself.
StartedCheckerDelegated ==
    \A n \in CheckerNodes :
        checker_node[n].pc = "running" /\ checker_node[n].steady => CheckerDelegated(n)

Chain == /\ RewardsTypeOK
         /\ now \in 0..LastTick
         /\ period = now \div DayTicks
         /\ Bmb!TypeOK

Nodes == /\ worker_node \in [WorkerNodes -> Processes]
         /\ checker_node \in [CheckerNodes -> Processes]
         /\ UrisKnown
         /\ StartedWorkerAccepted
         /\ StartedCheckerDelegated

Service == /\ RequestsTyped
           /\ CacheTyped
           /\ events \in 0..MaxEvents

IInv == Chain /\ Nodes /\ Service

-----------------------------------------------------------------------------
(* The copies, until the ring is full.                                     *)

RingFilled ==
    pushes < Capacity =>
        /\ current_index = pushes
        /\ \A s \in Bmb!Slots : data[s] # Bmb!Empty <=> s < pushes

count_now(d) == Bmb!get_checker_count_for_period(d)

\* The counts of all days, as one value.
Current == [d \in Days |-> count_now(d)]

\* A copy read at time t that is still good: it agrees on the days begun by then.
GoodFor(copy, t) == \A d \in Days : d * DayTicks <= t => copy[d] = Current[d]

\* Whatever is announced, every copy stays good for the time at which it was read.
PostCopies == \A h \in Posts : posts[h].pc = "fetched" =>
                 /\ posts[h].read <= now /\ now <= posts[h].read + 1
                 /\ GoodFor(posts[h].copy, posts[h].read)

\* A cached copy expires Ttl after it arrived, at most a tick after it was read.
CacheCopies == cache # Nowhere => GoodFor(cache.copy, cache.until - Ttl - 1)

CopiesCurrent == pushes < Capacity => PostCopies /\ CacheCopies

-----------------------------------------------------------------------------
(* The constants and the clock.                                            *)

LEMMA Constants ==
    /\ DayTicks \in Nat \ {0} /\ Ttl \in Nat /\ MaxEvents \in Nat /\ MaxPeriod \in Nat
    /\ Capacity \in Nat \ {0, 1} /\ MaxPushes \in Nat
    /\ Owners \subseteq Keys /\ None \notin Keys /\ None \notin Owners
    /\ Counts \subseteq Nat /\ None \notin Counts
BY AdmissionAssumption, RewardsAssumption

LEMMA NodeParts ==
    /\ \A n \in WorkerNodes : /\ n[1] \in Workers /\ n[2] \in Owners /\ n = <<n[1], n[2]>>
    /\ \A n \in CheckerNodes : /\ n[1] \in Checkers /\ n[2] \in Owners /\ n = <<n[1], n[2]>>
BY AdmissionAssumption

LEMMA LastTickType == LastTick \in Nat /\ LastTick + 1 = DayTicks * (MaxPeriod + 1)
<1>1. DayTicks \in Nat /\ 1 <= DayTicks /\ MaxPeriod + 1 \in Nat /\ 1 <= MaxPeriod + 1
  BY Constants
<1>. DEFINE m == MaxPeriod + 1
<1>2. m \in Nat /\ 1 <= m
  BY <1>1
<1>3. LastTick = m * DayTicks - 1
  BY DEF LastTick
<1>. HIDE DEF m
<1>4. DayTicks * 1 <= DayTicks * m
  BY <1>1, <1>2, MulMono
<1>5. m * DayTicks = DayTicks * m /\ m * DayTicks \in Nat
  BY <1>1, <1>2
<1>6. LastTick \in Nat /\ LastTick + 1 = DayTicks * m
  BY <1>1, <1>3, <1>4, <1>5
<1>. QED
  BY <1>6 DEF m

LEMMA DaysType == Days = 0..MaxPeriod /\ Days \subseteq Nat
BY Constants DEF Days, Bmb!Periods

LEMMA DayOfTick ==
  ASSUME NEW a \in 0..LastTick
  PROVE  a \div DayTicks \in Days
<1>. DEFINE q == a \div DayTicks
<1>1. a \in Nat /\ a + 1 <= DayTicks * (MaxPeriod + 1)
  BY LastTickType
<1>2. q \in Nat /\ DayTicks * q <= a
  BY <1>1, Constants, DivBound
<1>. HIDE DEF q
<1>3. ASSUME MaxPeriod + 1 <= q
      PROVE  FALSE
  <2>1. MaxPeriod + 1 \in Nat
    BY Constants
  <2>2. DayTicks * (MaxPeriod + 1) <= DayTicks * q
    BY <1>2, <1>3, <2>1, Constants, MulMono
  <2>3. DayTicks * (MaxPeriod + 1) \in Nat /\ DayTicks * q \in Nat
    BY <1>2, <2>1, Constants
  <2>. QED
    BY <1>1, <1>2, <2>2, <2>3
<1>4. ~(MaxPeriod + 1 <= q)
  BY <1>3
<1>5. q \in Days
  BY <1>2, <1>4, Constants, DaysType
<1>. QED
  BY <1>5 DEF q

\* A day that begins at the latest now has begun on the chain.
LEMMA BegunDays ==
  ASSUME Chain, NEW d \in Days, d * DayTicks <= now
  PROVE  d <= period
<1>1. d \in Nat /\ now \in Nat /\ DayTicks \in Nat \ {0} /\ d * DayTicks = DayTicks * d
  BY Constants, DaysType, LastTickType DEF Chain
<1>. DEFINE q == now \div DayTicks
<1>2. q \in Nat /\ now < DayTicks * q + DayTicks
  BY <1>1, DivBound
<1>. HIDE DEF q
<1>3. CASE q + 1 <= d
  <2>1. DayTicks * q + DayTicks <= DayTicks * d
    BY <1>1, <1>2, <1>3, MulStrict
  <2>2. DayTicks * q \in Nat /\ DayTicks * d \in Nat
    BY <1>1, <1>2
  <2>. QED
    BY <1>1, <1>2, <2>1, <2>2
<1>4. CASE ~(q + 1 <= d)
  BY <1>1, <1>2, <1>4 DEF Chain, q
<1>. QED
  BY <1>3, <1>4

-----------------------------------------------------------------------------
(* The schedule: an announcement, and what a copy holds.                   *)

LEMMA CountIsRingCount ==
  ASSUME NEW t
  PROVE  count_now(t) = RingCount(Capacity, data, current_index, Bmb!Empty, None, t)
BY DEF count_now, Bmb!get_checker_count_for_period, Bmb!Hits, Bmb!WalkSlot, Bmb!Slots,
       RingCount, RingHits, RingSlot

LEMMA CopyType ==
  ASSUME Bmb!TypeOK
  PROVE  Copy \in Copies /\ \A d \in Days : Copy[d] = count_now(d)
<1>1. ASSUME NEW d \in Days
      PROVE  count_now(d) \in Counts \cup {None}
  <2>1. Capacity \in Nat \ {0} /\ current_index \in 0..(Capacity - 1)
    BY Constants DEF Bmb!TypeOK, Bmb!Slots
  <2>2. \A s \in 0..(Capacity - 1) : data[s] # Bmb!Empty => data[s].count \in Counts
    BY DEF Bmb!TypeOK, Bmb!Slots, Bmb!Entries
  <2>3. RingCount(Capacity, data, current_index, Bmb!Empty, None, d) \in Counts \cup {None}
    BY <2>1, <2>2, RingCountType
  <2>. QED
    BY <2>3, CountIsRingCount
<1>. QED
  BY <1>1 DEF Copy, Copies, count_now

LEMMA AnnounceEffect ==
  ASSUME Bmb!TypeOK, NEW p \in Days, NEW c \in Counts, Announce(p, c)
  PROVE  /\ Bmb!TypeOK'
         /\ pushes' = pushes + 1
         /\ period' = period /\ p > period
         /\ current_index \in Bmb!Slots
         /\ data'[current_index] = [period |-> p, count |-> c]
         /\ data'[current_index] # Bmb!Empty
         /\ \A s \in Bmb!Slots \ {current_index} : data'[s] = data[s]
         /\ current_index' = IF current_index + 1 = Capacity THEN 0 ELSE current_index + 1
<1>. DEFINE e == [period |-> p, count |-> c]
<1>1. /\ pushes < MaxPushes /\ pushes' = pushes + 1
      /\ period' = period /\ p > period
      /\ data' = [data EXCEPT ![current_index] = e]
      /\ current_index' = (current_index + 1) % Capacity
  BY DEF Announce, Bmb!ActivateCheckerLicenses, Bmb!add_period_entry, Bmb!AfterToday,
         Bmb!next_index
<1>2. /\ period \in Bmb!Periods /\ current_index \in Bmb!Slots /\ pushes \in 0..MaxPushes
      /\ data \in [Bmb!Slots -> Bmb!Entries \cup {Bmb!Empty}]
  BY DEF Bmb!TypeOK
<1>3. (current_index + 1) % Capacity = IF current_index + 1 = Capacity THEN 0 ELSE current_index + 1
  BY <1>2, Constants DEF Bmb!Slots
<1>4. current_index' \in Bmb!Slots
  BY <1>1, <1>2, <1>3, Constants DEF Bmb!Slots
<1>5. e \in Bmb!Entries
  BY DEF Bmb!Entries, Days
<1>6. e # Bmb!Empty
  <2>1. p # 0
    BY <1>1, <1>2, Constants DEF Bmb!Periods, Days
  <2>2. e.period = p /\ Bmb!Empty.period = 0
    BY DEF Bmb!Empty
  <2>. QED
    BY <2>1, <2>2
<1>. HIDE DEF e
<1>7. data' \in [Bmb!Slots -> Bmb!Entries \cup {Bmb!Empty}]
  BY <1>1, <1>2, <1>5
<1>8. pushes' \in 0..MaxPushes
  BY <1>1, <1>2, Constants
<1>9. Bmb!TypeOK'
  BY <1>1, <1>4, <1>7, <1>8 DEF Bmb!TypeOK
<1>. QED
  BY <1>1, <1>2, <1>3, <1>6, <1>7, <1>9 DEF e

-----------------------------------------------------------------------------
(* Licences and metadata.                                                  *)

\* A WorkerMetadata account.
Record == [delegated_to : Keys, discovery_uri : Uris]

LEMMA AccountTypes ==
  ASSUME RewardsTypeOK
  PROVE  /\ worker_owner \in [Workers -> Owners]
         /\ checker_owner \in [Checkers -> Owners]
         /\ worker_metadata \in [Workers \X Owners -> Record \cup {None}]
         /\ checker_metadata \in [Checkers \X Owners -> Keys \cup {None}]
BY DEF RewardsTypeOK, Record

LEMMA AccountsTyped ==
  ASSUME RewardsTypeOK, UNCHANGED rewards,
         worker_owner' \in [Workers -> Owners],
         checker_owner' \in [Checkers -> Owners],
         worker_metadata' \in [Workers \X Owners -> Record \cup {None}],
         checker_metadata' \in [Checkers \X Owners -> Keys \cup {None}]
  PROVE  RewardsTypeOK'
BY DEF RewardsTypeOK, rewards, Record

LEMMA TransferWorkerEffect ==
  ASSUME RewardsTypeOK, NEW w \in Workers, NEW o \in Owners, TransferWorker(w, o)
  PROVE  /\ RewardsTypeOK'
         /\ UNCHANGED <<period, metadata, rewards>>
         /\ \A v \in Workers : v # w => worker_owner'[v] = worker_owner[v]
<1>1. worker_owner' \in [Workers -> Owners]
      /\ \A v \in Workers : v # w => worker_owner'[v] = worker_owner[v]
  BY AccountTypes DEF TransferWorker
<1>2. UNCHANGED <<period, checker_owner, metadata, rewards>>
  BY DEF TransferWorker
<1>. QED
  BY <1>1, <1>2, AccountTypes, AccountsTyped DEF metadata

LEMMA TransferCheckerEffect ==
  ASSUME RewardsTypeOK, NEW c \in Checkers, NEW o \in Owners, TransferChecker(c, o)
  PROVE  /\ RewardsTypeOK'
         /\ UNCHANGED <<period, worker_owner, metadata, rewards>>
<1>1. checker_owner' \in [Checkers -> Owners]
  BY AccountTypes DEF TransferChecker
<1>2. UNCHANGED <<period, worker_owner, metadata, rewards>>
  BY DEF TransferChecker
<1>. QED
  BY <1>1, <1>2, AccountTypes, AccountsTyped DEF metadata

LEMMA ActivateWorkerEffect ==
  ASSUME RewardsTypeOK, NEW w \in Workers, NEW k \in Keys, NEW u \in Uris,
         ActivateWorker(w, k, u)
  PROVE  /\ RewardsTypeOK'
         /\ UNCHANGED <<period, licences, checker_metadata, rewards>>
         /\ worker_metadata'[WorkerAccount(w)] = [delegated_to |-> k, discovery_uri |-> u]
         /\ \A a \in Workers \X Owners :
               a # WorkerAccount(w) => worker_metadata'[a] = worker_metadata[a]
<1>. DEFINE new == [delegated_to |-> k, discovery_uri |-> u]
<1>1. WorkerAccount(w) \in Workers \X Owners
  BY AccountTypes DEF WorkerAccount
<1>2. new \in Record
  BY DEF Record
<1>3. worker_metadata' = [worker_metadata EXCEPT ![WorkerAccount(w)] = new]
      /\ UNCHANGED <<period, licences, checker_metadata, rewards>>
  BY DEF ActivateWorker
<1>. HIDE DEF new
<1>4. /\ worker_metadata' \in [Workers \X Owners -> Record \cup {None}]
      /\ worker_metadata'[WorkerAccount(w)] = new
      /\ \A a \in Workers \X Owners :
            a # WorkerAccount(w) => worker_metadata'[a] = worker_metadata[a]
  BY <1>1, <1>2, <1>3, AccountTypes
<1>5. RewardsTypeOK'
  BY <1>3, <1>4, AccountTypes, AccountsTyped DEF licences
<1>. QED
  BY <1>3, <1>4, <1>5 DEF new

LEMMA UpdateWorkerUriEffect ==
  ASSUME RewardsTypeOK, NEW w \in Workers, NEW k \in Keys, NEW u \in Uris,
         UpdateWorkerUri(w, k, u)
  PROVE  /\ RewardsTypeOK'
         /\ UNCHANGED <<period, licences, checker_metadata, rewards>>
         /\ WorkerDelegate(w, k)
         /\ worker_metadata'[WorkerAccount(w)] = [delegated_to |-> k, discovery_uri |-> u]
         /\ \A a \in Workers \X Owners :
               a # WorkerAccount(w) => worker_metadata'[a] = worker_metadata[a]
<1>. DEFINE a == WorkerAccount(w)
            new == [delegated_to |-> k, discovery_uri |-> u]
<1>1. a \in Workers \X Owners
  BY AccountTypes DEF WorkerAccount
<1>2. new \in Record
  BY DEF Record
<1>3. /\ WorkerDelegate(w, k)
      /\ worker_metadata' = [worker_metadata EXCEPT ![a].discovery_uri = u]
      /\ UNCHANGED <<period, licences, checker_metadata, rewards>>
  BY DEF UpdateWorkerUri
<1>4. worker_metadata[a] \in Record /\ worker_metadata[a].delegated_to = k
  BY <1>1, <1>3, AccountTypes DEF WorkerDelegate
<1>5. [worker_metadata[a] EXCEPT !.discovery_uri = u] = new
  BY <1>4 DEF Record
<1>. HIDE DEF a, new
<1>6. worker_metadata' = [worker_metadata EXCEPT ![a] = new]
  BY <1>3, <1>5
<1>7. /\ worker_metadata' \in [Workers \X Owners -> Record \cup {None}]
      /\ worker_metadata'[a] = new
      /\ \A b \in Workers \X Owners : b # a => worker_metadata'[b] = worker_metadata[b]
  BY <1>1, <1>2, <1>6, AccountTypes
<1>8. RewardsTypeOK'
  BY <1>3, <1>7, AccountTypes, AccountsTyped DEF licences
<1>. QED
  BY <1>3, <1>7, <1>8 DEF a, new

LEMMA ActivateCheckerEffect ==
  ASSUME RewardsTypeOK, NEW c \in Checkers, NEW k \in Keys, ActivateChecker(c, k)
  PROVE  /\ RewardsTypeOK'
         /\ UNCHANGED <<period, licences, worker_metadata, rewards>>
         /\ checker_metadata'[CheckerAccount(c)] = k
         /\ \A a \in Checkers \X Owners :
               a # CheckerAccount(c) => checker_metadata'[a] = checker_metadata[a]
<1>1. CheckerAccount(c) \in Checkers \X Owners
  BY AccountTypes DEF CheckerAccount
<1>2. checker_metadata' = [checker_metadata EXCEPT ![CheckerAccount(c)] = k]
      /\ UNCHANGED <<period, licences, worker_metadata, rewards>>
  BY DEF ActivateChecker
<1>3. /\ checker_metadata' \in [Checkers \X Owners -> Keys \cup {None}]
      /\ checker_metadata'[CheckerAccount(c)] = k
      /\ \A a \in Checkers \X Owners :
            a # CheckerAccount(c) => checker_metadata'[a] = checker_metadata[a]
  BY <1>1, <1>2, AccountTypes
<1>4. RewardsTypeOK'
  BY <1>2, <1>3, AccountTypes, AccountsTyped DEF licences
<1>. QED
  BY <1>2, <1>3, <1>4

\* No day passes, and nothing is announced.
LEMMA ChainSame ==
  ASSUME Chain, RewardsTypeOK', UNCHANGED <<now, period, bmb>>
  PROVE  Chain'
BY DEF Chain, bmb, Bmb!TypeOK

LEMMA TickChain ==
  ASSUME Chain, Tick
  PROVE  /\ Chain'
         /\ now' = now + 1 /\ now' \in Nat
         /\ period' \in {period, period + 1} /\ (period' # period => period < MaxPeriod)
<1>1. /\ now < LastTick /\ now' = now + 1 /\ period' = now' \div DayTicks
      /\ UNCHANGED <<licences, metadata, rewards, bmb>>
  BY DEF Tick
<1>2. now \in Nat /\ now' \in 0..LastTick /\ now' \in Nat
  BY <1>1, LastTickType DEF Chain
<1>3. period' \in Days
  BY <1>1, <1>2, DayOfTick
<1>4. RewardsTypeOK'
  BY <1>1, AccountTypes, AccountsTyped DEF Chain, licences, metadata
<1>5. Bmb!TypeOK'
  BY <1>1, <1>3 DEF Chain, bmb, Bmb!TypeOK, Days
<1>6. period' \in {period, period + 1}
  <2>. DEFINE q == now \div DayTicks
              r == now' \div DayTicks
  <2>1. /\ q \in Nat /\ DayTicks * q <= now /\ now < DayTicks * q + DayTicks
        /\ r \in Nat /\ DayTicks * r <= now' /\ q <= r
    BY <1>1, <1>2, Constants, DivBound, DivMono
  <2>2. period = q /\ period' = r
    BY <1>1 DEF Chain
  <2>. HIDE DEF q, r
  <2>3. ~(q + 2 <= r)
    <3>1. SUFFICES ASSUME q + 1 + 1 <= r PROVE FALSE
      BY <2>1
    <3>2. q + 1 \in Nat
      BY <2>1
    <3>3. DayTicks * (q + 1) + DayTicks <= DayTicks * r
      BY <2>1, <3>1, <3>2, Constants, MulStrict
    <3>4. DayTicks * (q + 1) = DayTicks * q + DayTicks
          /\ DayTicks * q \in Nat /\ DayTicks * r \in Nat /\ DayTicks \in Nat \ {0}
      BY <2>1, Constants
    <3>. QED
      BY <1>1, <1>2, <2>1, <3>3, <3>4
  <2>. QED
    BY <2>1, <2>2, <2>3
<1>7. period' # period => period < MaxPeriod
  BY <1>3, <1>6, DaysType, Constants DEF Chain, Bmb!TypeOK, Bmb!Periods
<1>. QED
  BY <1>1, <1>2, <1>4, <1>5, <1>6, <1>7 DEF Chain

LEMMA AnnounceChain ==
  ASSUME Chain, NEW p \in Days, NEW c \in Counts, Announce(p, c)
  PROVE  Chain'
<1>1. Bmb!TypeOK' /\ period' = period /\ UNCHANGED <<now, licences, metadata, rewards>>
  BY AnnounceEffect DEF Announce, Chain
<1>2. RewardsTypeOK'
  BY <1>1, AccountTypes, AccountsTyped DEF Chain, licences, metadata
<1>. QED
  BY <1>1, <1>2 DEF Chain

-----------------------------------------------------------------------------
(* The nodes.  What their processes rely on, for given licences and        *)
(* accounts: these are the conjuncts of StartedWorkerAccepted and          *)
(* StartedCheckerDelegated for one node.                                   *)

Accepted(p, n, owner, accounts) ==
    p.pc = "running" /\ p.steady /\ owner[n[1]] = n[2]
    => /\ accounts[n] # None
       /\ accounts[n].delegated_to = n[2]
       /\ accounts[n].discovery_uri = p.uri

Named(p, n, accounts) == p.pc = "running" /\ p.steady => accounts[n] = n[2]

WorkersFine ==
    /\ worker_node \in [WorkerNodes -> Processes]
    /\ \A n \in WorkerNodes :
          /\ worker_node[n].pc # "down" => worker_node[n].uri \in Uris
          /\ Accepted(worker_node[n], n, worker_owner, worker_metadata)

CheckersFine ==
    /\ checker_node \in [CheckerNodes -> Processes]
    /\ \A n \in CheckerNodes : Named(checker_node[n], n, checker_metadata)

LEMMA NodesAreFine == Nodes <=> WorkersFine /\ CheckersFine
BY NodeParts DEF Nodes, UrisKnown, StartedWorkerAccepted, StartedCheckerDelegated, WorkersFine,
   CheckersFine, Accepted, Named, WorkerDelegate, WorkerAccount, CheckerDelegated

LEMMA NodesFineNext ==
  ASSUME WorkersFine', CheckersFine'
  PROVE  Nodes'
BY NodesAreFine, PTL

LEMMA WorkersSame ==
  ASSUME WorkersFine, UNCHANGED <<worker_node, worker_owner, worker_metadata>>
  PROVE  WorkersFine'
BY DEF WorkersFine

LEMMA CheckersSame ==
  ASSUME CheckersFine, UNCHANGED <<checker_node, checker_metadata>>
  PROVE  CheckersFine'
BY DEF CheckersFine

\* One process takes a step, that may write the account of its own licence.
LEMMA OneWorker ==
  ASSUME WorkersFine, NEW n \in WorkerNodes, NEW q \in Processes,
         worker_node' = [worker_node EXCEPT ![n] = q],
         q.pc # "down" => q.uri \in Uris,
         Accepted(q, n, worker_owner', worker_metadata'),
         UNCHANGED worker_owner,
         \A m \in WorkerNodes : m # n =>
            Accepted(worker_node[m], m, worker_owner, worker_metadata')
  PROVE  WorkersFine'
<1>1. /\ worker_node' \in [WorkerNodes -> Processes]
      /\ worker_node'[n] = q
      /\ \A m \in WorkerNodes : m # n => worker_node'[m] = worker_node[m]
  BY DEF WorkersFine
<1>2. ASSUME NEW m \in WorkerNodes
      PROVE  /\ worker_node'[m].pc # "down" => worker_node'[m].uri \in Uris
             /\ Accepted(worker_node'[m], m, worker_owner', worker_metadata')
  <2>1. CASE m = n
    BY <1>1, <2>1
  <2>2. CASE m # n
    <3>1. worker_node'[m] = worker_node[m]
      BY <1>1, <2>2
    <3>2. worker_node[m].pc # "down" => worker_node[m].uri \in Uris
      BY DEF WorkersFine
    <3>3. Accepted(worker_node[m], m, worker_owner, worker_metadata')
      BY <2>2
    <3>. QED
      BY <3>1, <3>2, <3>3
  <2>. QED
    BY <2>1, <2>2
<1>. QED
  BY <1>1, <1>2 DEF WorkersFine

LEMMA OneChecker ==
  ASSUME CheckersFine, NEW n \in CheckerNodes, NEW q \in Processes,
         checker_node' = [checker_node EXCEPT ![n] = q],
         Named(q, n, checker_metadata'),
         \A m \in CheckerNodes : m # n => checker_metadata'[m] = checker_metadata[m]
  PROVE  CheckersFine'
<1>1. /\ checker_node' \in [CheckerNodes -> Processes]
      /\ checker_node'[n] = q
      /\ \A m \in CheckerNodes : m # n => checker_node'[m] = checker_node[m]
  BY DEF CheckersFine
<1>2. ASSUME NEW m \in CheckerNodes
      PROVE  Named(checker_node'[m], m, checker_metadata')
  <2>1. CASE m = n
    BY <1>1, <2>1
  <2>2. CASE m # n
    BY <1>1, <2>2 DEF CheckersFine, Named
  <2>. QED
    BY <2>1, <2>2
<1>. QED
  BY <1>1, <1>2 DEF CheckersFine

\* The forms of a process's next step.
LEMMA ProcessSteps ==
  ASSUME NEW p \in Processes
  PROVE  /\ Down \in Processes /\ Down.pc = "down"
         /\ \A at \in {"metadata", "activate", "update"} :
               [p EXCEPT !.pc = at] \in Processes /\ [p EXCEPT !.pc = at].pc = at
               /\ [p EXCEPT !.pc = at].uri = p.uri
         /\ \A o \in Owners :
               LET q == [p EXCEPT !.pc = "metadata", !.owner = o]
               IN  q \in Processes /\ q.pc = "metadata" /\ q.uri = p.uri
         /\ LET q == [p EXCEPT !.pc = "running", !.owner = None]
            IN  q \in Processes /\ q.pc = "running" /\ q.uri = p.uri /\ q.steady = p.steady
         /\ [p EXCEPT !.steady = FALSE] \in Processes
         /\ [p EXCEPT !.steady = FALSE].steady = FALSE
         /\ [p EXCEPT !.steady = FALSE].pc = p.pc /\ [p EXCEPT !.steady = FALSE].uri = p.uri
BY DEF Down, Processes

\* A step of a worker's process that writes no account, and does not end with the
\* node started.
LEMMA WorkerMoves ==
  ASSUME Nodes, NEW n \in WorkerNodes, NEW q \in Processes,
         worker_node' = [worker_node EXCEPT ![n] = q],
         q.pc # "down" => q.uri \in Uris,
         Accepted(q, n, worker_owner, worker_metadata),
         UNCHANGED <<worker_owner, metadata, checker_node>>
  PROVE  Nodes'
<1>1. WorkersFine /\ CheckersFine
  BY NodesAreFine
<1>2. UNCHANGED <<worker_owner, worker_metadata, checker_metadata, checker_node>>
  BY DEF metadata
<1>3. \A m \in WorkerNodes : Accepted(worker_node[m], m, worker_owner, worker_metadata)
  BY <1>1 DEF WorkersFine
<1>4. WorkersFine'
  BY <1>1, <1>2, <1>3, OneWorker
<1>5. CheckersFine'
  BY <1>1, <1>2, CheckersSame
<1>. QED
  BY <1>4, <1>5, NodesFineNext

LEMMA CheckerMoves ==
  ASSUME Nodes, NEW n \in CheckerNodes, NEW q \in Processes,
         checker_node' = [checker_node EXCEPT ![n] = q],
         Named(q, n, checker_metadata),
         UNCHANGED <<worker_owner, metadata, worker_node>>
  PROVE  Nodes'
<1>1. WorkersFine /\ CheckersFine
  BY NodesAreFine
<1>2. UNCHANGED <<worker_owner, worker_metadata, checker_metadata, worker_node>>
  BY DEF metadata
<1>3. WorkersFine'
  BY <1>1, <1>2, WorkersSame
<1>4. CheckersFine'
  BY <1>1, <1>2, OneChecker
<1>. QED
  BY <1>3, <1>4, NodesFineNext

LEMMA WorkerProcess ==
  ASSUME Nodes, NEW n \in WorkerNodes
  PROVE  worker_node[n] \in Processes /\ (worker_node[n].pc # "down" => worker_node[n].uri \in Uris)
BY DEF Nodes, UrisKnown

LEMMA CheckerProcess ==
  ASSUME Nodes, NEW n \in CheckerNodes
  PROVE  checker_node[n] \in Processes
BY DEF Nodes

LEMMA WorkerStartsKeeps ==
  ASSUME Nodes, NEW n \in WorkerNodes, NEW u \in Uris, WorkerStarts(n, u)
  PROVE  Nodes'
<1>. DEFINE q == [worker_node[n] EXCEPT !.pc = "licence", !.uri = u]
<1>1. q \in Processes /\ q.pc = "licence" /\ q.uri = u
  BY WorkerProcess DEF Processes
<1>2. worker_node' = [worker_node EXCEPT ![n] = q]
  BY DEF WorkerStarts, Nodes
<1>3. UNCHANGED <<worker_owner, metadata, checker_node>>
  BY DEF WorkerStarts, chain, licences
<1>. HIDE DEF q
<1>4. Accepted(q, n, worker_owner, worker_metadata)
  BY <1>1 DEF Accepted
<1>. QED
  BY <1>1, <1>2, <1>3, <1>4, WorkerMoves

LEMMA WorkerExitsKeeps ==
  ASSUME Nodes, NEW n \in WorkerNodes, WorkerExits(n)
  PROVE  Nodes'
<1>1. Down \in Processes /\ Down.pc = "down"
  BY WorkerProcess, ProcessSteps
<1>2. worker_node' = [worker_node EXCEPT ![n] = Down]
      /\ UNCHANGED <<worker_owner, metadata, checker_node>>
  BY DEF WorkerExits, chain, licences
<1>3. Accepted(Down, n, worker_owner, worker_metadata)
  BY <1>1 DEF Accepted
<1>. QED
  BY <1>1, <1>2, <1>3, WorkerMoves

LEMMA WorkerReadsLicenceKeeps ==
  ASSUME Chain, Nodes, NEW n \in WorkerNodes, WorkerReadsLicence(n)
  PROVE  Nodes'
<1>. DEFINE o == worker_owner[n[1]]
            q == [worker_node[n] EXCEPT !.pc = "metadata", !.owner = o]
<1>1. o \in Owners
  BY AccountTypes, NodeParts DEF Chain
<1>2. q \in Processes /\ q.pc = "metadata" /\ q.uri \in Uris
  BY <1>1, WorkerProcess DEF WorkerReadsLicence, Processes
<1>3. worker_node' = [worker_node EXCEPT ![n] = q]
  BY DEF WorkerReadsLicence, Nodes
<1>4. UNCHANGED <<worker_owner, metadata, checker_node>>
  BY DEF WorkerReadsLicence, chain, licences
<1>. HIDE DEF q
<1>5. Accepted(q, n, worker_owner, worker_metadata)
  BY <1>2 DEF Accepted
<1>. QED
  BY <1>2, <1>3, <1>4, <1>5, WorkerMoves

LEMMA WorkerReadsMetadataKeeps ==
  ASSUME Nodes, NEW n \in WorkerNodes, WorkerReadsMetadata(n)
  PROVE  Nodes'
<1>. DEFINE m == worker_metadata[n]
            p == worker_node[n]
            running == [p EXCEPT !.pc = "running", !.owner = None]
<1>1. p \in Processes /\ p.uri \in Uris
  BY WorkerProcess DEF WorkerReadsMetadata
<1>2. UNCHANGED <<worker_owner, metadata, checker_node>>
  BY DEF WorkerReadsMetadata, chain, licences
<1>3. CASE m # None /\ m.delegated_to = n[2] /\ m.discovery_uri = p.uri
           /\ worker_node' = Runs(worker_node, n)
  <2>1. running \in Processes /\ running.pc = "running" /\ running.uri = p.uri
    BY <1>1, ProcessSteps
  <2>2. worker_node' = [worker_node EXCEPT ![n] = running]
    BY <1>3 DEF Runs, Nodes
  <2>. HIDE DEF running
  <2>3. Accepted(running, n, worker_owner, worker_metadata)
    BY <1>3, <2>1 DEF Accepted
  <2>. QED
    BY <1>1, <1>2, <2>1, <2>2, <2>3, WorkerMoves
<1>4. ASSUME NEW at \in {"activate", "update"}, worker_node' = Become(worker_node, n, at)
      PROVE  Nodes'
  <2>. DEFINE q == [p EXCEPT !.pc = at]
  <2>1. q \in Processes /\ q.pc = at /\ q.uri = p.uri
    BY <1>1 DEF Processes
  <2>2. worker_node' = [worker_node EXCEPT ![n] = q]
    BY <1>4 DEF Become, Nodes
  <2>. HIDE DEF q
  <2>3. Accepted(q, n, worker_owner, worker_metadata)
    BY <2>1 DEF Accepted
  <2>. QED
    BY <1>1, <1>2, <2>1, <2>2, <2>3, WorkerMoves
<1>. QED
  BY <1>3, <1>4 DEF WorkerReadsMetadata, UriCurrent

LEMMA CheckerStartsKeeps ==
  ASSUME Nodes, NEW n \in CheckerNodes, CheckerStarts(n)
  PROVE  Nodes'
<1>. DEFINE q == [checker_node[n] EXCEPT !.pc = "licence"]
<1>1. q \in Processes /\ q.pc = "licence"
  BY CheckerProcess DEF Processes
<1>2. checker_node' = [checker_node EXCEPT ![n] = q]
  BY DEF CheckerStarts, Become, Nodes
<1>3. UNCHANGED <<worker_owner, metadata, worker_node>>
  BY DEF CheckerStarts, chain, licences
<1>. HIDE DEF q
<1>4. Named(q, n, checker_metadata)
  BY <1>1 DEF Named
<1>. QED
  BY <1>1, <1>2, <1>3, <1>4, CheckerMoves

LEMMA CheckerExitsKeeps ==
  ASSUME Nodes, NEW n \in CheckerNodes, CheckerExits(n)
  PROVE  Nodes'
<1>1. Down \in Processes /\ Down.pc = "down"
  BY CheckerProcess, ProcessSteps
<1>2. checker_node' = [checker_node EXCEPT ![n] = Down]
      /\ UNCHANGED <<worker_owner, metadata, worker_node>>
  BY DEF CheckerExits, chain, licences
<1>3. Named(Down, n, checker_metadata)
  BY <1>1 DEF Named
<1>. QED
  BY <1>1, <1>2, <1>3, CheckerMoves

LEMMA CheckerReadsLicenceKeeps ==
  ASSUME Chain, Nodes, NEW n \in CheckerNodes, CheckerReadsLicence(n)
  PROVE  Nodes'
<1>. DEFINE o == checker_owner[n[1]]
            q == [checker_node[n] EXCEPT !.pc = "metadata", !.owner = o]
<1>1. o \in Owners
  BY AccountTypes, NodeParts DEF Chain
<1>2. q \in Processes /\ q.pc = "metadata"
  BY <1>1, CheckerProcess DEF Processes
<1>3. checker_node' = [checker_node EXCEPT ![n] = q]
  BY DEF CheckerReadsLicence, Nodes
<1>4. UNCHANGED <<worker_owner, metadata, worker_node>>
  BY DEF CheckerReadsLicence, chain, licences
<1>. HIDE DEF q
<1>5. Named(q, n, checker_metadata)
  BY <1>2 DEF Named
<1>. QED
  BY <1>2, <1>3, <1>4, <1>5, CheckerMoves

LEMMA CheckerReadsMetadataKeeps ==
  ASSUME Nodes, NEW n \in CheckerNodes, CheckerReadsMetadata(n)
  PROVE  Nodes'
<1>. DEFINE p == checker_node[n]
            running == [p EXCEPT !.pc = "running", !.owner = None]
            q == [p EXCEPT !.pc = "activate"]
<1>1. p \in Processes
  BY CheckerProcess
<1>2. UNCHANGED <<worker_owner, metadata, worker_node>>
  BY DEF CheckerReadsMetadata, chain, licences
<1>3. CASE checker_metadata[n] = n[2] /\ checker_node' = Runs(checker_node, n)
  <2>1. running \in Processes
    BY <1>1, ProcessSteps
  <2>2. checker_node' = [checker_node EXCEPT ![n] = running]
    BY <1>3 DEF Runs, Nodes
  <2>. HIDE DEF running
  <2>3. Named(running, n, checker_metadata)
    BY <1>3 DEF Named
  <2>. QED
    BY <1>2, <2>1, <2>2, <2>3, CheckerMoves
<1>4. CASE checker_node' = Become(checker_node, n, "activate")
  <2>1. q \in Processes /\ q.pc = "activate"
    BY <1>1, ProcessSteps
  <2>2. checker_node' = [checker_node EXCEPT ![n] = q]
    BY <1>4 DEF Become, Nodes
  <2>. HIDE DEF q
  <2>3. Named(q, n, checker_metadata)
    BY <2>1 DEF Named
  <2>. QED
    BY <1>2, <2>1, <2>2, <2>3, CheckerMoves
<1>. QED
  BY <1>3, <1>4 DEF CheckerReadsMetadata, CheckerAccepts

\* A worker node's transaction writes the present account of its licence.
LEMMA WorkerWrites ==
  ASSUME Chain, Nodes, NEW n \in WorkerNodes, WorkerSent(n), worker_node[n].pc # "down",
         NEW a, a = WorkerAccount(n[1]),
         a = n \/ worker_metadata[a].delegated_to = n[2],
         worker_metadata'[a] = [delegated_to |-> n[2], discovery_uri |-> worker_node[n].uri],
         \A b \in Workers \X Owners : b # a => worker_metadata'[b] = worker_metadata[b],
         UNCHANGED <<worker_owner, checker_metadata, checker_node>>
  PROVE  Nodes'
<1>. DEFINE p == worker_node[n]
            running == [p EXCEPT !.pc = "running", !.owner = None]
            new == [delegated_to |-> n[2], discovery_uri |-> p.uri]
<1>1. WorkersFine /\ CheckersFine
  BY NodesAreFine
<1>2. p \in Processes /\ p.uri \in Uris
  BY WorkerProcess
<1>3. new # None
  BY <1>2, NodeParts, RewardsAssumption
<1>4. ASSUME NEW m \in WorkerNodes, m # n
      PROVE  Accepted(worker_node[m], m, worker_owner, worker_metadata')
  <2>1. Accepted(worker_node[m], m, worker_owner, worker_metadata)
    BY <1>1 DEF WorkersFine
  <2>2. m \in Workers \X Owners /\ m = <<m[1], m[2]>> /\ n = <<n[1], n[2]>>
    BY NodeParts
  <2>3. CASE m # a
    BY <2>1, <2>2, <2>3 DEF Accepted
  <2>4. CASE m = a
    <3>1. m[1] = n[1] /\ worker_metadata[m].delegated_to = n[2]
      BY <1>4, <2>2, <2>4 DEF WorkerAccount
    <3>2. ~(worker_node[m].pc = "running" /\ worker_node[m].steady /\ worker_owner[m[1]] = m[2])
      BY <1>4, <2>1, <2>2, <3>1 DEF Accepted
    <3>. QED
      BY <3>2 DEF Accepted
  <2>. QED
    BY <2>3, <2>4
<1>5. ASSUME NEW q \in Processes, worker_node' = [worker_node EXCEPT ![n] = q],
             q.pc # "down" => q.uri \in Uris,
             Accepted(q, n, worker_owner, worker_metadata')
      PROVE  Nodes'
  <2>1. Accepted(q, n, worker_owner', worker_metadata')
    BY <1>5
  <2>2. WorkersFine'
    BY <1>1, <1>4, <1>5, <2>1, OneWorker
  <2>3. CheckersFine'
    BY <1>1, CheckersSame
  <2>. QED
    BY <2>2, <2>3, NodesFineNext
<1>6. CASE worker_node' = Runs(worker_node, n)
  <2>1. running \in Processes /\ running.uri = p.uri
    BY <1>2, ProcessSteps
  <2>2. worker_node' = [worker_node EXCEPT ![n] = running]
    BY <1>6 DEF Runs, Nodes
  <2>. HIDE DEF running
  <2>3. worker_owner[n[1]] = n[2] => worker_metadata'[n] = new
    BY NodeParts DEF WorkerAccount
  <2>4. new.delegated_to = n[2] /\ new.discovery_uri = p.uri
    OBVIOUS
  <2>. HIDE DEF new
  <2>5. Accepted(running, n, worker_owner, worker_metadata')
    BY <1>3, <2>1, <2>3, <2>4 DEF Accepted
  <2>. QED
    BY <1>2, <1>5, <2>1, <2>2, <2>5
<1>7. CASE worker_node' = [worker_node EXCEPT ![n] = Down]
  <2>1. Down \in Processes /\ Down.pc = "down"
    BY <1>2, ProcessSteps
  <2>2. Accepted(Down, n, worker_owner, worker_metadata')
    BY <2>1 DEF Accepted
  <2>. QED
    BY <1>5, <1>7, <2>1, <2>2
<1>. QED
  BY <1>6, <1>7 DEF WorkerSent

LEMMA WorkerActivatesKeeps ==
  ASSUME Chain, Nodes, NEW n \in WorkerNodes, WorkerActivates(n)
  PROVE  Nodes' /\ RewardsTypeOK'
<1>. DEFINE u == worker_node[n].uri
            a == WorkerAccount(n[1])
<1>1. n[1] \in Workers /\ n[2] \in Keys /\ u \in Uris /\ worker_node[n].pc # "down"
  BY NodeParts, Constants, WorkerProcess DEF WorkerActivates
<1>2. ActivateWorker(n[1], n[2], u) /\ worker_owner[n[1]] = n[2] /\ WorkerSent(n)
      /\ UNCHANGED checker_node
  BY DEF WorkerActivates, ActivateWorkerBy
<1>3. a = n
  BY <1>2, NodeParts DEF WorkerAccount
<1>. HIDE DEF u
<1>4. /\ RewardsTypeOK'
      /\ UNCHANGED <<worker_owner, checker_metadata>>
      /\ worker_metadata'[a] = [delegated_to |-> n[2], discovery_uri |-> u]
      /\ \A b \in Workers \X Owners : b # a => worker_metadata'[b] = worker_metadata[b]
  BY <1>1, <1>2, ActivateWorkerEffect DEF Chain, licences
<1>. HIDE DEF a
<1>5. a = WorkerAccount(n[1])
  BY DEF a
<1>6. worker_metadata'[a] = [delegated_to |-> n[2], discovery_uri |-> worker_node[n].uri]
  BY <1>4 DEF u
<1>7. Nodes'
  BY <1>1, <1>2, <1>3, <1>4, <1>5, <1>6, WorkerWrites
<1>. QED
  BY <1>4, <1>7

LEMMA WorkerUpdatesKeeps ==
  ASSUME Chain, Nodes, NEW n \in WorkerNodes, WorkerUpdates(n)
  PROVE  Nodes' /\ RewardsTypeOK'
<1>. DEFINE u == worker_node[n].uri
            a == WorkerAccount(n[1])
<1>1. n[1] \in Workers /\ n[2] \in Keys /\ u \in Uris /\ worker_node[n].pc # "down"
  BY NodeParts, Constants, WorkerProcess DEF WorkerUpdates
<1>2. UpdateWorkerUri(n[1], n[2], u) /\ WorkerSent(n) /\ UNCHANGED checker_node
  BY DEF WorkerUpdates, UpdateWorkerUriBy
<1>. HIDE DEF u
<1>3. /\ RewardsTypeOK'
      /\ UNCHANGED <<worker_owner, checker_metadata>>
      /\ WorkerDelegate(n[1], n[2])
      /\ worker_metadata'[a] = [delegated_to |-> n[2], discovery_uri |-> u]
      /\ \A b \in Workers \X Owners : b # a => worker_metadata'[b] = worker_metadata[b]
  BY <1>1, <1>2, UpdateWorkerUriEffect DEF Chain, licences
<1>4. worker_metadata[a].delegated_to = n[2]
  BY <1>3 DEF WorkerDelegate
<1>. HIDE DEF a
<1>5. a = WorkerAccount(n[1])
  BY DEF a
<1>6. worker_metadata'[a] = [delegated_to |-> n[2], discovery_uri |-> worker_node[n].uri]
  BY <1>3 DEF u
<1>7. Nodes'
  BY <1>1, <1>2, <1>3, <1>4, <1>5, <1>6, WorkerWrites
<1>. QED
  BY <1>3, <1>7

LEMMA CheckerActivatesKeeps ==
  ASSUME Chain, Nodes, NEW n \in CheckerNodes, CheckerActivates(n)
  PROVE  Nodes' /\ RewardsTypeOK'
<1>. DEFINE p == checker_node[n]
            running == [p EXCEPT !.pc = "running", !.owner = None]
<1>1. /\ ActivateChecker(n[1], n[2]) /\ checker_owner[n[1]] = n[2] /\ CheckerSent(n)
      /\ UNCHANGED worker_node
  BY DEF CheckerActivates, ActivateCheckerBy
<1>2. n[1] \in Checkers /\ n[2] \in Keys /\ CheckerAccount(n[1]) = n /\ p \in Processes
  BY <1>1, NodeParts, Constants, CheckerProcess DEF CheckerAccount
<1>3. /\ RewardsTypeOK'
      /\ UNCHANGED <<worker_owner, worker_metadata>>
      /\ checker_metadata'[n] = n[2]
      /\ \A b \in Checkers \X Owners : b # n => checker_metadata'[b] = checker_metadata[b]
  BY <1>1, <1>2, ActivateCheckerEffect DEF Chain, licences
<1>4. WorkersFine /\ CheckersFine
  BY NodesAreFine
<1>5. WorkersFine'
  BY <1>1, <1>3, <1>4, WorkersSame
<1>6. \A m \in CheckerNodes : m # n => checker_metadata'[m] = checker_metadata[m]
  BY <1>3, NodeParts
<1>7. ASSUME NEW q \in Processes, checker_node' = [checker_node EXCEPT ![n] = q]
      PROVE  Nodes'
  <2>1. Named(q, n, checker_metadata')
    BY <1>3 DEF Named
  <2>2. CheckersFine'
    BY <1>4, <1>6, <1>7, <2>1, OneChecker
  <2>. QED
    BY <1>5, <2>2, NodesFineNext
<1>8. CASE checker_node' = Runs(checker_node, n)
  <2>1. running \in Processes
    BY <1>2, ProcessSteps
  <2>2. checker_node' = [checker_node EXCEPT ![n] = running]
    BY <1>8 DEF Runs, Nodes
  <2>. HIDE DEF running
  <2>. QED
    BY <1>3, <1>7, <2>1, <2>2
<1>9. CASE checker_node' = [checker_node EXCEPT ![n] = Down]
  BY <1>2, <1>3, <1>7, <1>9, ProcessSteps
<1>. QED
  BY <1>1, <1>8, <1>9 DEF CheckerSent

\* What others do to a licence takes its nodes out of the promise.
OnlyOf(g, f, N, x) ==
    /\ g \in [N -> Processes]
    /\ \A n \in N : /\ g[n].pc = f[n].pc /\ g[n].uri = f[n].uri
                    /\ n[1] # x => g[n] = f[n]
                    /\ n[1] = x /\ f[n].pc = "running" => g[n].steady = FALSE

LEMMA DisturbedProcesses ==
  ASSUME NEW N, NEW f, f \in [N -> Processes], NEW x
  PROVE  OnlyOf(Disturbed(f, x), f, N, x)
<1>1. DOMAIN f = N
  OBVIOUS
<1>2. ASSUME NEW n \in N
      PROVE  /\ Disturbed(f, x)[n] \in Processes
             /\ Disturbed(f, x)[n].pc = f[n].pc /\ Disturbed(f, x)[n].uri = f[n].uri
             /\ n[1] # x => Disturbed(f, x)[n] = f[n]
             /\ n[1] = x /\ f[n].pc = "running" => Disturbed(f, x)[n].steady = FALSE
  <2>. DEFINE p == f[n]
              q == [p EXCEPT !.steady = FALSE]
  <2>1. p \in Processes
    OBVIOUS
  <2>2. q \in Processes /\ q.steady = FALSE /\ q.pc = p.pc /\ q.uri = p.uri
    BY <2>1, ProcessSteps
  <2>3. Disturbed(f, x)[n] = IF n[1] = x /\ p.pc # "down" THEN q ELSE p
    BY <1>1 DEF Disturbed
  <2>. HIDE DEF q
  <2>. QED
    BY <2>1, <2>2, <2>3
<1>3. Disturbed(f, x) = [n \in N |-> Disturbed(f, x)[n]]
  BY <1>1 DEF Disturbed
<1>4. Disturbed(f, x) \in [N -> Processes]
  BY <1>2, <1>3
<1>. QED
  BY <1>2, <1>4 DEF OnlyOf

LEMMA WorkerChangesKeeps ==
  ASSUME Chain, Nodes, NEW w \in Workers, WorkerChanges(w)
  PROVE  Nodes' /\ RewardsTypeOK' /\ UNCHANGED period
<1>1. worker_node' = Disturbed(worker_node, w) /\ UNCHANGED checker_node
  BY DEF WorkerChanges
<1>2. /\ RewardsTypeOK'
      /\ UNCHANGED <<period, checker_metadata>>
      /\ \A v \in Workers : v # w => worker_owner'[v] = worker_owner[v]
      /\ \A a \in Workers \X Owners : a[1] # w => worker_metadata'[a] = worker_metadata[a]
  <2>1. CASE \E o \in Owners : TransferWorker(w, o)
    BY <2>1, TransferWorkerEffect DEF Chain, metadata
  <2>2. CASE \E k \in Keys, u \in Uris : ActivateWorker(w, k, u)
    <3>1. WorkerAccount(w)[1] = w
      BY DEF WorkerAccount
    <3>. QED
      BY <2>2, <3>1, ActivateWorkerEffect DEF Chain, licences
  <2>. QED
    BY <2>1, <2>2 DEF WorkerChanges
<1>3. WorkersFine /\ CheckersFine
  BY NodesAreFine
<1>4. CheckersFine'
  BY <1>1, <1>2, <1>3, CheckersSame
<1>5. /\ worker_node' \in [WorkerNodes -> Processes]
      /\ \A n \in WorkerNodes :
            /\ worker_node'[n].pc = worker_node[n].pc /\ worker_node'[n].uri = worker_node[n].uri
            /\ n[1] # w => worker_node'[n] = worker_node[n]
            /\ n[1] = w /\ worker_node[n].pc = "running" => worker_node'[n].steady = FALSE
  <2>1. worker_node \in [WorkerNodes -> Processes]
    BY <1>3 DEF WorkersFine
  <2>. DEFINE g == Disturbed(worker_node, w)
  <2>2. OnlyOf(g, worker_node, WorkerNodes, w)
    BY <2>1, DisturbedProcesses
  <2>3. worker_node' = g
    BY <1>1
  <2>. HIDE DEF g
  <2>. QED
    BY <2>2, <2>3 DEF OnlyOf
<1>6. ASSUME NEW n \in WorkerNodes
      PROVE  /\ worker_node'[n].pc # "down" => worker_node'[n].uri \in Uris
             /\ Accepted(worker_node'[n], n, worker_owner', worker_metadata')
  <2>1. /\ worker_node[n].pc # "down" => worker_node[n].uri \in Uris
        /\ Accepted(worker_node[n], n, worker_owner, worker_metadata)
    BY <1>3 DEF WorkersFine
  <2>2. CASE n[1] = w
    BY <1>5, <2>1, <2>2 DEF Accepted
  <2>3. CASE n[1] # w
    <3>1. worker_node'[n] = worker_node[n] /\ worker_owner'[n[1]] = worker_owner[n[1]]
          /\ worker_metadata'[n] = worker_metadata[n]
      BY <1>2, <1>5, <2>3, NodeParts
    <3>. QED
      BY <2>1, <3>1 DEF Accepted
  <2>. QED
    BY <2>2, <2>3
<1>7. WorkersFine'
  BY <1>5, <1>6 DEF WorkersFine
<1>. QED
  BY <1>2, <1>4, <1>7, NodesFineNext

LEMMA CheckerChangesKeeps ==
  ASSUME Chain, Nodes, NEW c \in Checkers, CheckerChanges(c)
  PROVE  Nodes' /\ RewardsTypeOK' /\ UNCHANGED period
<1>1. checker_node' = Disturbed(checker_node, c) /\ UNCHANGED worker_node
  BY DEF CheckerChanges
<1>2. /\ RewardsTypeOK'
      /\ UNCHANGED <<period, worker_owner, worker_metadata>>
      /\ \A a \in Checkers \X Owners : a[1] # c => checker_metadata'[a] = checker_metadata[a]
  <2>1. CASE \E o \in Owners : TransferChecker(c, o)
    BY <2>1, TransferCheckerEffect DEF Chain, metadata
  <2>2. CASE \E k \in Keys : ActivateChecker(c, k)
    <3>1. CheckerAccount(c)[1] = c
      BY DEF CheckerAccount
    <3>. QED
      BY <2>2, <3>1, ActivateCheckerEffect DEF Chain, licences
  <2>. QED
    BY <2>1, <2>2 DEF CheckerChanges
<1>3. WorkersFine /\ CheckersFine
  BY NodesAreFine
<1>4. WorkersFine'
  BY <1>1, <1>2, <1>3, WorkersSame
<1>5. /\ checker_node' \in [CheckerNodes -> Processes]
      /\ \A n \in CheckerNodes :
            /\ checker_node'[n].pc = checker_node[n].pc
            /\ n[1] # c => checker_node'[n] = checker_node[n]
            /\ n[1] = c /\ checker_node[n].pc = "running" => checker_node'[n].steady = FALSE
  <2>1. checker_node \in [CheckerNodes -> Processes]
    BY <1>3 DEF CheckersFine
  <2>. DEFINE g == Disturbed(checker_node, c)
  <2>2. OnlyOf(g, checker_node, CheckerNodes, c)
    BY <2>1, DisturbedProcesses
  <2>3. checker_node' = g
    BY <1>1
  <2>. HIDE DEF g
  <2>. QED
    BY <2>2, <2>3 DEF OnlyOf
<1>6. ASSUME NEW n \in CheckerNodes
      PROVE  Named(checker_node'[n], n, checker_metadata')
  <2>1. Named(checker_node[n], n, checker_metadata)
    BY <1>3 DEF CheckersFine
  <2>2. CASE n[1] = c
    BY <1>5, <2>2 DEF Named
  <2>3. CASE n[1] # c
    BY <1>2, <1>5, <2>1, <2>3, NodeParts DEF Named
  <2>. QED
    BY <2>2, <2>3
<1>7. CheckersFine'
  BY <1>5, <1>6 DEF CheckersFine
<1>. QED
  BY <1>2, <1>4, <1>7, NodesFineNext

LEMMA NodesUntouched ==
  ASSUME Nodes, UNCHANGED <<worker_owner, metadata, nodes>>
  PROVE  Nodes'
<1>1. UNCHANGED <<worker_owner, worker_metadata, checker_metadata, worker_node, checker_node>>
  BY DEF metadata, nodes
<1>2. WorkersFine /\ CheckersFine
  BY NodesAreFine
<1>. QED
  BY <1>1, <1>2, WorkersSame, CheckersSame, NodesFineNext

-----------------------------------------------------------------------------
(* The requests.                                                           *)

LEMMA EventsTyped ==
  ASSUME Service, Event
  PROVE  events' \in 0..MaxEvents
BY Constants DEF Service, Event

LEMMA ServiceUntouched ==
  ASSUME Chain, Service, UNCHANGED <<posts, cache>>, events' \in 0..MaxEvents,
         now' \in Nat, now <= now'
  PROVE  Service'
<1>1. now \in Nat /\ Ttl \in Nat
  BY Constants, LastTickType DEF Chain
<1>2. RequestsTyped'
  BY DEF Service, RequestsTyped
<1>3. CacheTyped'
  BY <1>1 DEF Service, CacheTyped
<1>. QED
  BY <1>2, <1>3 DEF Service

\* What a reply or a step of the handler may make of a request.
RequestFine(r) == /\ r \in Request
                  /\ r.pc \in {"admitted", "inactive"} => r.count # None
                  /\ r.pc = "fetched" => r.copy \in Copies

LEMMA IdleFine == RequestFine(Idle)
<1>1. 0 \in Days /\ 0 \in 0..LastTick
  BY Constants, DaysType, LastTickType
<1>. QED
  BY <1>1 DEF RequestFine, Idle, Request

LEMMA RequestsFine ==
  ASSUME RequestsTyped, NEW h \in Posts
  PROVE  RequestFine(posts[h])
BY DEF RequestsTyped, RequestFine

LEMMA Answered ==
  ASSUME RequestsTyped, NEW h \in Posts, NEW r, RequestFine(r), Answer(h, r)
  PROVE  /\ RequestsTyped'
         /\ posts'[h] = r
         /\ \A g \in Posts : g # h => posts'[g] = posts[g]
<1>1. /\ posts' \in [Posts -> Request]
      /\ posts'[h] = r
      /\ \A g \in Posts : g # h => posts'[g] = posts[g]
  BY DEF Answer, RequestsTyped, RequestFine
<1>2. ASSUME NEW g \in Posts
      PROVE  RequestFine(posts'[g])
  BY <1>1, RequestsFine
<1>3. RequestsTyped'
  BY <1>1, <1>2 DEF RequestsTyped, RequestFine
<1>. QED
  BY <1>1, <1>3

\* The reply of Decide.
Decision(h, copy) ==
    LET count == copy[posts[h].day]
    IN  IF count = None THEN Idle
        ELSE [posts[h] EXCEPT !.copy = None, !.read = 0, !.count = count,
                 !.pc = IF posts[h].from[1] > count THEN "inactive" ELSE "admitted"]

LEMMA DecisionFine ==
  ASSUME RequestsTyped, NEW h \in Posts, NEW copy, copy \in Copies
  PROVE  /\ RequestFine(Decision(h, copy))
         /\ Decision(h, copy).pc \in {"idle", "admitted", "inactive"}
         /\ Decision(h, copy).pc # "idle" => Decision(h, copy).count = copy[posts[h].day]
         /\ Decide(h, copy) => Answer(h, Decision(h, copy))
<1>. DEFINE r == posts[h]
            count == copy[r.day]
            at == IF r.from[1] > count THEN "inactive" ELSE "admitted"
            new == [r EXCEPT !.copy = None, !.read = 0, !.count = count, !.pc = at]
<1>1. r \in Request
  BY DEF RequestsTyped
<1>2. count \in Counts \cup {None}
  BY <1>1 DEF Copies, Request
<1>3. at \in {"inactive", "admitted"}
  OBVIOUS
<1>4. Decision(h, copy) = IF count = None THEN Idle ELSE new
  BY DEF Decision
<1>5. Decide(h, copy) => Answer(h, Decision(h, copy))
  BY DEF Decide, Decision
<1>. HIDE DEF count, at
<1>6. /\ new \in Request /\ new.pc = at /\ new.count = count
  <2>1. 0 \in 0..LastTick
    BY LastTickType
  <2>. HIDE DEF r
  <2>. QED
    BY <1>1, <1>2, <1>3, <2>1 DEF Request
<1>. HIDE DEF new
<1>7. CASE count = None
  BY <1>4, <1>5, <1>7, IdleFine DEF Idle
<1>8. CASE count # None
  <2>1. Decision(h, copy) = new
    BY <1>4, <1>8
  <2>2. RequestFine(new)
    BY <1>3, <1>6, <1>8 DEF RequestFine
  <2>3. count = copy[posts[h].day]
    BY DEF count
  <2>. QED
    BY <1>3, <1>5, <1>6, <2>1, <2>2, <2>3
<1>. QED
  BY <1>7, <1>8

LEMMA PostKeeps ==
  ASSUME Chain, Service, NEW h \in Posts, NEW c \in Checkers, NEW k \in Keys, Post(h, c, k)
  PROVE  Service'
<1>. DEFINE r == [Idle EXCEPT !.pc = "licence", !.day = period, !.from = <<c, k>>]
<1>1. period \in Days
  BY DEF Chain, Bmb!TypeOK, Days
<1>2. RequestFine(r)
  <2>. DEFINE f == <<c, k>>
  <2>1. Idle \in Request
    BY IdleFine DEF RequestFine
  <2>2. f \in Checkers \X Keys
    OBVIOUS
  <2>. HIDE DEF f
  <2>3. [Idle EXCEPT !.pc = "licence", !.day = period, !.from = f] \in Request
    BY <1>1, <2>1, <2>2 DEF Request
  <2>4. r \in Request
    BY <2>3 DEF f
  <2>5. r.pc = "licence"
    BY DEF Idle
  <2>. QED
    BY <2>4, <2>5 DEF RequestFine
<1>3. Answer(h, r) /\ UNCHANGED <<now, cache>> /\ Event
  BY DEF Post
<1>. HIDE DEF r
<1>4. RequestsTyped'
  BY <1>2, <1>3, Answered DEF Service
<1>5. CacheTyped'
  BY <1>3 DEF Service, CacheTyped
<1>. QED
  BY <1>3, <1>4, <1>5, EventsTyped DEF Service

\* A step of a request that leaves the cache alone.
LEMMA RequestMoves ==
  ASSUME Service, NEW h \in Posts, NEW r, RequestFine(r), Answer(h, r),
         UNCHANGED <<now, cache, events>>
  PROVE  Service'
<1>1. RequestsTyped'
  BY Answered DEF Service
<1>2. CacheTyped'
  BY DEF Service, CacheTyped
<1>. QED
  BY <1>1, <1>2 DEF Service

LEMMA ValidateKeeps ==
  ASSUME Service, NEW h \in Posts, ValidateCheckerLicense(h)
  PROVE  Service'
<1>1. PICK at \in {"asset", "invalid"} : Answer(h, [posts[h] EXCEPT !.pc = at])
  BY DEF ValidateCheckerLicense
<1>2. posts[h] \in Request
  BY DEF Service, RequestsTyped
<1>. DEFINE r == [posts[h] EXCEPT !.pc = at]
<1>3. RequestFine(r)
  BY <1>2 DEF RequestFine, Request
<1>4. Answer(h, r) /\ UNCHANGED <<now, cache, events>>
  BY <1>1 DEF ValidateCheckerLicense
<1>. HIDE DEF r
<1>. QED
  BY <1>3, <1>4, RequestMoves

LEMMA CacheMissKeeps ==
  ASSUME Service, NEW h \in Posts, CacheMiss(h)
  PROVE  Service'
<1>. DEFINE r == [posts[h] EXCEPT !.pc = "fetch"]
<1>1. posts[h] \in Request
  BY DEF Service, RequestsTyped
<1>2. RequestFine(r)
  BY <1>1 DEF RequestFine, Request
<1>3. Answer(h, r) /\ UNCHANGED <<now, cache, events>>
  BY DEF CacheMiss
<1>. HIDE DEF r
<1>. QED
  BY <1>2, <1>3, RequestMoves

LEMMA CacheHitKeeps ==
  ASSUME Service, NEW h \in Posts, CacheHit(h)
  PROVE  Service'
<1>1. cache.copy \in Copies
  BY DEF CacheHit, Service, CacheTyped
<1>2. RequestFine(Decision(h, cache.copy)) /\ Answer(h, Decision(h, cache.copy))
  BY <1>1, DecisionFine DEF CacheHit, Service
<1>3. UNCHANGED <<now, cache, events>>
  BY DEF CacheHit
<1>. QED
  BY <1>2, <1>3, RequestMoves

LEMMA ReadBmbStateKeeps ==
  ASSUME Chain, Service, NEW h \in Posts, ReadBmbState(h)
  PROVE  Service'
<1>. DEFINE r == [posts[h] EXCEPT !.pc = "fetched", !.copy = Copy, !.read = now]
<1>1. posts[h] \in Request /\ Copy \in Copies /\ now \in 0..LastTick
  BY CopyType DEF Chain, Service, RequestsTyped
<1>2. RequestFine(r)
  BY <1>1 DEF RequestFine, Request
<1>3. Answer(h, r) \/ Answer(h, Idle)
  BY DEF ReadBmbState
<1>4. UNCHANGED <<now, cache, events>>
  BY DEF ReadBmbState
<1>. HIDE DEF r
<1>. QED
  BY <1>2, <1>3, <1>4, IdleFine, RequestMoves

LEMMA FetchedKeeps ==
  ASSUME Chain, Service, NEW h \in Posts, Fetched(h)
  PROVE  Service'
<1>. DEFINE copy == posts[h].copy
<1>1. copy \in Copies /\ now \in Nat /\ Ttl \in Nat
  BY Constants, LastTickType DEF Chain, Fetched, Service, RequestsTyped
<1>2. Decide(h, copy) /\ cache' = [copy |-> copy, until |-> now + Ttl]
      /\ UNCHANGED <<now, events>>
  BY DEF Fetched, Expiry
<1>. HIDE DEF copy
<1>3. RequestFine(Decision(h, copy)) /\ Answer(h, Decision(h, copy))
  BY <1>1, <1>2, DecisionFine DEF Service
<1>4. RequestsTyped'
  BY <1>3, Answered DEF Service
<1>5. CacheTyped'
  BY <1>1, <1>2 DEF CacheTyped
<1>. QED
  BY <1>2, <1>4, <1>5 DEF Service

LEMMA DoneKeeps ==
  ASSUME Service, NEW h \in Posts, Done(h)
  PROVE  Service'
BY IdleFine, RequestMoves DEF Done

LEMMA ServiceEnds ==
  ASSUME Service, NEW n \in WorkerNodes, WorkerExits(n)
  PROVE  Service'
<1>1. posts' = [h \in Posts |-> Idle] /\ cache' = Nowhere /\ UNCHANGED events
  BY DEF WorkerExits
<1>2. RequestsTyped'
  BY <1>1, IdleFine DEF RequestsTyped, RequestFine
<1>3. CacheTyped'
  BY <1>1 DEF CacheTyped
<1>. QED
  BY <1>1, <1>2, <1>3 DEF Service

-----------------------------------------------------------------------------
(* The invariant is kept, one lemma for each part of Next.                 *)

LEMMA ChainUntouched ==
  ASSUME Chain, UNCHANGED <<now, chain>>
  PROVE  Chain'
<1>1. UNCHANGED <<now, period, licences, metadata, rewards, bmb>>
  BY DEF chain
<1>2. RewardsTypeOK'
  BY <1>1, AccountTypes, AccountsTyped DEF Chain, licences, metadata
<1>. QED
  BY <1>1, <1>2, ChainSame

LEMMA SameTime ==
  ASSUME Chain, UNCHANGED now
  PROVE  now' \in Nat /\ now <= now'
BY LastTickType DEF Chain

LEMMA SameEvents ==
  ASSUME Service, UNCHANGED events
  PROVE  events' \in 0..MaxEvents
BY DEF Service

LEMMA TickKeeps ==
  ASSUME IInv, Tick
  PROVE  IInv'
<1>1. Chain' /\ now' = now + 1 /\ now' \in Nat /\ now \in Nat
  BY TickChain, LastTickType DEF IInv, Chain
<1>2. Nodes'
  BY NodesUntouched DEF IInv, Tick, licences
<1>3. Service'
  BY <1>1, ServiceUntouched, SameEvents DEF IInv, Tick
<1>. QED
  BY <1>1, <1>2, <1>3 DEF IInv

LEMMA AnnounceKeeps ==
  ASSUME IInv, NEW p \in Days, NEW c \in Counts, Announce(p, c)
  PROVE  IInv'
<1>1. Chain'
  BY AnnounceChain DEF IInv
<1>2. Nodes'
  BY NodesUntouched DEF IInv, Announce, licences
<1>3. Service'
  BY SameTime, ServiceUntouched, SameEvents DEF IInv, Announce
<1>. QED
  BY <1>1, <1>2, <1>3 DEF IInv

LEMMA ChangesKeep ==
  ASSUME IInv, (\E w \in Workers : WorkerChanges(w)) \/ (\E c \in Checkers : CheckerChanges(c))
  PROVE  IInv'
<1>1. Nodes' /\ RewardsTypeOK' /\ UNCHANGED period
  BY WorkerChangesKeeps, CheckerChangesKeeps DEF IInv
<1>2. UNCHANGED <<now, bmb, posts, cache>> /\ Event
  BY DEF WorkerChanges, CheckerChanges
<1>3. Chain'
  BY <1>1, <1>2, ChainSame DEF IInv
<1>4. Service'
  BY <1>2, SameTime, EventsTyped, ServiceUntouched DEF IInv
<1>. QED
  BY <1>1, <1>3, <1>4 DEF IInv

CheckerSteps(n) == \/ CheckerStarts(n) \/ CheckerExits(n)
                   \/ CheckerReadsLicence(n) \/ CheckerReadsMetadata(n) \/ CheckerActivates(n)

WorkerSteps(n) == \/ \E u \in Uris : WorkerStarts(n, u)
                  \/ WorkerExits(n)
                  \/ WorkerReadsLicence(n) \/ WorkerReadsMetadata(n)
                  \/ WorkerActivates(n) \/ WorkerUpdates(n)

PostSteps(h) == \/ \E c \in Checkers, k \in Keys : Post(h, c, k)
                \/ ValidateCheckerLicense(h)
                \/ CacheHit(h) \/ CacheMiss(h) \/ ReadBmbState(h) \/ Fetched(h)
                \/ Done(h)

LEMMA CheckerStepsKeep ==
  ASSUME IInv, NEW n \in CheckerNodes, CheckerSteps(n)
  PROVE  IInv'
<1>1. UNCHANGED <<now, posts, cache>> /\ (UNCHANGED events \/ Event)
  BY DEF CheckerSteps, CheckerStarts, CheckerExits, CheckerReadsLicence, CheckerReadsMetadata,
         CheckerActivates
<1>2. Service'
  BY <1>1, SameTime, SameEvents, EventsTyped, ServiceUntouched DEF IInv
<1>3. Nodes'
  BY CheckerStartsKeeps, CheckerExitsKeeps, CheckerReadsLicenceKeeps,
     CheckerReadsMetadataKeeps, CheckerActivatesKeeps DEF IInv, CheckerSteps
<1>4. Chain'
  <2>1. CASE CheckerActivates(n)
    <3>1. UNCHANGED <<now, period, bmb>>
      BY <2>1 DEF CheckerActivates, ActivateCheckerBy, ActivateChecker
    <3>. QED
      BY <2>1, <3>1, CheckerActivatesKeeps, ChainSame DEF IInv
  <2>2. CASE ~CheckerActivates(n)
    BY <2>2, ChainUntouched DEF IInv, CheckerSteps, CheckerStarts, CheckerExits,
       CheckerReadsLicence, CheckerReadsMetadata
  <2>. QED
    BY <2>1, <2>2
<1>. QED
  BY <1>2, <1>3, <1>4 DEF IInv

LEMMA WorkerStepsKeep ==
  ASSUME IInv, NEW n \in WorkerNodes, WorkerSteps(n)
  PROVE  IInv'
<1>1. Service'
  <2>1. CASE WorkerExits(n)
    BY <2>1, ServiceEnds DEF IInv
  <2>2. CASE ~WorkerExits(n)
    <3>1. UNCHANGED <<now, posts, cache>> /\ (UNCHANGED events \/ Event)
      BY <2>2 DEF WorkerSteps, WorkerStarts, WorkerReadsLicence, WorkerReadsMetadata,
                  WorkerActivates, WorkerUpdates
    <3>. QED
      BY <3>1, SameTime, SameEvents, EventsTyped, ServiceUntouched DEF IInv
  <2>. QED
    BY <2>1, <2>2
<1>2. Nodes'
  BY WorkerStartsKeeps, WorkerExitsKeeps, WorkerReadsLicenceKeeps, WorkerReadsMetadataKeeps,
     WorkerActivatesKeeps, WorkerUpdatesKeeps DEF IInv, WorkerSteps
<1>3. Chain'
  <2>1. CASE WorkerActivates(n) \/ WorkerUpdates(n)
    <3>1. UNCHANGED <<now, period, bmb>>
      BY <2>1 DEF WorkerActivates, WorkerUpdates, ActivateWorkerBy, UpdateWorkerUriBy,
                  ActivateWorker, UpdateWorkerUri
    <3>2. RewardsTypeOK'
      BY <2>1, WorkerActivatesKeeps, WorkerUpdatesKeeps DEF IInv
    <3>. QED
      BY <3>1, <3>2, ChainSame DEF IInv
  <2>2. CASE ~(WorkerActivates(n) \/ WorkerUpdates(n))
    BY <2>2, ChainUntouched DEF IInv, WorkerSteps, WorkerStarts, WorkerExits,
       WorkerReadsLicence, WorkerReadsMetadata
  <2>. QED
    BY <2>1, <2>2
<1>. QED
  BY <1>1, <1>2, <1>3 DEF IInv

LEMMA PostStepsKeep ==
  ASSUME IInv, NEW h \in Posts, PostSteps(h)
  PROVE  IInv'
<1>1. UNCHANGED <<now, chain, nodes>>
  BY DEF PostSteps, Post, ValidateCheckerLicense, CacheHit, CacheMiss, ReadBmbState, Fetched, Done
<1>2. Chain'
  BY <1>1, ChainUntouched DEF IInv
<1>3. Nodes'
  BY <1>1, NodesUntouched DEF IInv, chain, licences
<1>4. Service'
  BY PostKeeps, ValidateKeeps, CacheHitKeeps, CacheMissKeeps, ReadBmbStateKeeps, FetchedKeeps,
     DoneKeeps DEF IInv, PostSteps
<1>. QED
  BY <1>2, <1>3, <1>4 DEF IInv

LEMMA StutterKeeps ==
  ASSUME IInv, UNCHANGED vars
  PROVE  IInv'
<1>1. UNCHANGED <<now, chain, nodes, posts, cache, events>>
  BY DEF vars
<1>2. Chain'
  BY <1>1, ChainUntouched DEF IInv
<1>3. Nodes'
  BY <1>1, NodesUntouched DEF IInv, chain, licences
<1>4. Service'
  BY <1>1, SameTime, SameEvents, ServiceUntouched DEF IInv
<1>. QED
  BY <1>2, <1>3, <1>4 DEF IInv

LEMMA StepKeeps ==
  ASSUME IInv, [Next]_vars
  PROVE  IInv'
<1>1. ASSUME NEW n \in CheckerNodes,
             \/ CheckerStarts(n) \/ CheckerExits(n)
             \/ CheckerReadsLicence(n) \/ CheckerReadsMetadata(n) \/ CheckerActivates(n)
      PROVE  IInv'
  BY <1>1, CheckerStepsKeep DEF CheckerSteps
<1>2. ASSUME NEW n \in WorkerNodes,
             \/ \E u \in Uris : WorkerStarts(n, u)
             \/ WorkerExits(n)
             \/ WorkerReadsLicence(n) \/ WorkerReadsMetadata(n)
             \/ WorkerActivates(n) \/ WorkerUpdates(n)
      PROVE  IInv'
  BY <1>2, WorkerStepsKeep DEF WorkerSteps
<1>3. ASSUME NEW h \in Posts,
             \/ \E c \in Checkers, k \in Keys : Post(h, c, k)
             \/ ValidateCheckerLicense(h)
             \/ CacheHit(h) \/ CacheMiss(h) \/ ReadBmbState(h) \/ Fetched(h)
             \/ Done(h)
      PROVE  IInv'
  BY <1>3, PostStepsKeep DEF PostSteps
<1>. QED
  BY <1>1, <1>2, <1>3, TickKeeps, AnnounceKeeps, ChangesKeep, StutterKeeps DEF Next

-----------------------------------------------------------------------------
(* The beginning.                                                          *)

LEMMA FirstTick == (DayTicks - 1) \div DayTicks = 0 /\ DayTicks - 1 \in 0..LastTick
<1>. DEFINE q == (DayTicks - 1) \div DayTicks
<1>1. DayTicks \in Nat \ {0} /\ DayTicks - 1 \in Nat
  BY Constants
<1>2. q \in Nat /\ DayTicks * q <= DayTicks - 1
  BY <1>1, DivBound
<1>. HIDE DEF q
<1>3. q = 0
  <2>1. SUFFICES ASSUME 1 <= q PROVE FALSE
    BY <1>2
  <2>2. DayTicks * 1 <= DayTicks * q
    BY <1>1, <1>2, <2>1, MulMono
  <2>3. DayTicks * q \in Nat
    BY <1>1, <1>2
  <2>. QED
    BY <1>1, <1>2, <2>2, <2>3
<1>4. DayTicks * 1 <= DayTicks * (MaxPeriod + 1)
  BY <1>1, Constants, MulMono
<1>5. DayTicks - 1 <= LastTick
  <2>. DEFINE r == DayTicks * (MaxPeriod + 1)
  <2>1. LastTick \in Nat /\ LastTick + 1 = r /\ DayTicks <= r
    BY <1>1, <1>4, LastTickType
  <2>. HIDE DEF r
  <2>. QED
    BY <1>1, <2>1
<1>. QED
  BY <1>1, <1>3, <1>5, LastTickType DEF q

LEMMA InitHolds == Init => IInv
<1>. SUFFICES ASSUME Init PROVE IInv
  OBVIOUS
<1>1. RewardsTypeOK
  <2>1. worker_owner \in [Workers -> Owners] /\ checker_owner \in [Checkers -> Owners]
    BY DEF Init, RewardsInit
  <2>2. /\ worker_metadata = [a \in Workers \X Owners |-> None]
        /\ checker_metadata = [a \in Checkers \X Owners |-> None]
        /\ proofs = [a \in Workers \X ProofPeriods |-> None]
        /\ checkers = [j \in Indexes |-> 0]
        /\ paid_out = [j \in Indexes |-> 0]
    BY DEF Init, RewardsInit
  <2>3. 0 \in 0..(U32 - 1)
    BY RewardsAssumption
  <2>. QED
    BY <2>1, <2>2, <2>3 DEF RewardsTypeOK
<1>2. Bmb!TypeOK
  BY Constants DEF Init, Bmb!Init, Bmb!TypeOK, Bmb!Slots, Bmb!Periods
<1>3. Chain
  BY <1>1, <1>2, FirstTick DEF Init, Chain
<1>4. Nodes
  BY DEF Init, Nodes, Down, Processes, UrisKnown, StartedWorkerAccepted, StartedCheckerDelegated
<1>5. Service
  BY IdleFine, Constants DEF Init, Service, RequestsTyped, RequestFine, CacheTyped
<1>. QED
  BY <1>3, <1>4, <1>5 DEF IInv

(***************************************************************************)
(* The inductive invariant of admission, whatever owners, administrators   *)
(* and other machines do and however often a node is started and ended.    *)
(***************************************************************************)
THEOREM AdmissionInvariant == Spec => []IInv
BY InitHolds, StepKeeps, PTL DEF Spec

LEMMA InvTypes == IInv => TypeOK
<1>. SUFFICES ASSUME IInv PROVE TypeOK
  OBVIOUS
<1>1. Chain /\ Nodes /\ Service
  BY DEF IInv
<1>2. ASSUME NEW h \in Posts
      PROVE  /\ posts[h].pc \in {"idle", "licence", "asset", "fetch", "fetched",
                                 "admitted", "invalid", "inactive"}
             /\ posts[h].day \in Days
             /\ posts[h].from \in (Checkers \X Keys) \cup {None}
             /\ posts[h].count \in Counts \cup {None}
             /\ posts[h].pc \in {"admitted", "inactive"} => posts[h].count # None
  <2>1. RequestFine(posts[h])
    BY <1>1, RequestsFine DEF Service
  <2>. QED
    BY <2>1 DEF RequestFine, Request
<1>3. cache.until \in 0..(LastTick + Ttl)
  <2>1. CASE cache = Nowhere
    BY <2>1, LastTickType, Constants DEF Nowhere
  <2>2. CASE cache # Nowhere
    <3>1. cache.until \in Nat /\ cache.until <= now + Ttl
      BY <1>1, <2>2 DEF Service, CacheTyped
    <3>2. now \in Nat /\ now <= LastTick /\ Ttl \in Nat /\ LastTick \in Nat
      BY <1>1, LastTickType, Constants DEF Chain
    <3>. QED
      BY <3>1, <3>2
  <2>. QED
    BY <2>1, <2>2
<1>. QED
  BY <1>1, <1>2, <1>3 DEF TypeOK, Chain, Nodes, Service

(***************************************************************************)
(* Type correctness: among the rest, the day the program reads off the     *)
(* clock is the day of the present tick, and a decided request has a count.*)
(***************************************************************************)
THEOREM TypeCorrect == Spec => []TypeOK
BY AdmissionInvariant, InvTypes, PTL

(***************************************************************************)
(* A worker node that has started holds what the program asks of a         *)
(* submission and has published its present URL, unless its key is not the *)
(* holder's or others changed the licence since.                           *)
(***************************************************************************)
THEOREM StartedWorkerAcceptedHolds == Spec => []StartedWorkerAccepted
<1>1. IInv => StartedWorkerAccepted
  BY DEF IInv, Nodes
<1>. QED
  BY <1>1, AdmissionInvariant, PTL

-----------------------------------------------------------------------------
(* The steps of a request are its own.                                     *)

LEMMA AnswersOne ==
  ASSUME RequestsTyped, NEW g \in Posts, NEW r, Answer(g, r)
  PROVE  posts'[g] = r /\ \A h \in Posts : h # g => posts'[h] = posts[h]
BY DEF RequestsTyped, Answer

LEMMA PostStepAnswers ==
  ASSUME NEW g \in Posts, PostSteps(g)
  PROVE  \E r : Answer(g, r)
<1>1. CASE \E c \in Checkers, k \in Keys : Post(g, c, k)
  BY <1>1 DEF Post
<1>2. CASE ValidateCheckerLicense(g)
  BY <1>2 DEF ValidateCheckerLicense
<1>3. CASE CacheHit(g)
  BY <1>3 DEF CacheHit, Decide
<1>4. CASE CacheMiss(g)
  BY <1>4 DEF CacheMiss
<1>5. CASE ReadBmbState(g)
  BY <1>5 DEF ReadBmbState
<1>6. CASE Fetched(g)
  BY <1>6 DEF Fetched, Decide
<1>7. CASE Done(g)
  BY <1>7 DEF Done
<1>. QED
  BY <1>1, <1>2, <1>3, <1>4, <1>5, <1>6, <1>7 DEF PostSteps

LEMMA OwnStep ==
  ASSUME RequestsTyped, [Next]_vars, NEW h \in Posts, posts'[h] # posts[h], posts'[h] # Idle
  PROVE  PostSteps(h)
<1>1. ~UNCHANGED posts
  OBVIOUS
<1>2. ~UNCHANGED vars /\ ~Tick /\ ~(\E p \in Days, c \in Counts : Announce(p, c))
      /\ ~(\E w \in Workers : WorkerChanges(w)) /\ ~(\E c \in Checkers : CheckerChanges(c))
  BY <1>1 DEF vars, Tick, Announce, WorkerChanges, CheckerChanges
<1>3. ASSUME NEW n \in CheckerNodes
      PROVE  ~CheckerSteps(n)
  BY <1>1 DEF CheckerSteps, CheckerStarts, CheckerExits, CheckerReadsLicence,
              CheckerReadsMetadata, CheckerActivates
<1>4. ASSUME NEW n \in WorkerNodes
      PROVE  ~WorkerSteps(n)
  <2>1. ~WorkerExits(n)
    BY DEF WorkerExits
  <2>. QED
    BY <1>1, <2>1 DEF WorkerSteps, WorkerStarts, WorkerReadsLicence, WorkerReadsMetadata,
                      WorkerActivates, WorkerUpdates
<1>5. PICK g \in Posts : PostSteps(g)
  <2>1. ASSUME NEW n \in CheckerNodes,
               \/ CheckerStarts(n) \/ CheckerExits(n)
               \/ CheckerReadsLicence(n) \/ CheckerReadsMetadata(n) \/ CheckerActivates(n)
        PROVE  FALSE
    BY <1>3, <2>1 DEF CheckerSteps
  <2>2. ASSUME NEW n \in WorkerNodes,
               \/ \E u \in Uris : WorkerStarts(n, u)
               \/ WorkerExits(n)
               \/ WorkerReadsLicence(n) \/ WorkerReadsMetadata(n)
               \/ WorkerActivates(n) \/ WorkerUpdates(n)
        PROVE  FALSE
    BY <1>4, <2>2 DEF WorkerSteps
  <2>. QED
    BY <1>2, <2>1, <2>2 DEF Next, PostSteps
<1>6. PICK r : Answer(g, r)
  BY <1>5, PostStepAnswers
<1>7. g = h
  BY <1>6, AnswersOne
<1>. QED
  BY <1>5, <1>7

LEMMA Refused ==
  ASSUME RequestsTyped, [Next]_vars, NEW h \in Posts,
         posts[h].pc = "licence", posts'[h].pc = "invalid"
  PROVE  ~CheckerDelegated(posts[h].from)
<1>1. posts'[h] # posts[h] /\ posts'[h] # Idle
  BY DEF Idle
<1>2. PostSteps(h)
  BY <1>1, OwnStep
<1>3. ~Done(h)
  BY <1>1, AnswersOne DEF Done
<1>4. ValidateCheckerLicense(h)
  BY <1>2, <1>3 DEF PostSteps, Post, CacheHit, CacheMiss, ReadBmbState, Fetched
<1>5. SUFFICES ASSUME CheckerDelegated(posts[h].from) PROVE FALSE
  OBVIOUS
<1>. DEFINE r == [posts[h] EXCEPT !.pc = "asset"]
<1>6. r.pc = "asset"
  BY DEF RequestsTyped, Request
<1>7. Answer(h, r)
  BY <1>4, <1>5 DEF ValidateCheckerLicense
<1>. HIDE DEF r
<1>. QED
  BY <1>6, <1>7, AnswersOne

(***************************************************************************)
(* What a checker node asks of its licence to start is what workers ask of *)
(* its proofs: while others leave the licence alone none of them is refused*)
(* for it.                                                                 *)
(***************************************************************************)
THEOREM StartedCheckerAdmittedHolds == Spec => StartedCheckerAdmitted
<1>1. ASSUME IInv, [Next]_vars, NEW h \in Posts, NEW n \in CheckerNodes,
             posts[h].from = n, posts[h].pc = "licence", posts'[h].pc = "invalid"
      PROVE  ~(checker_node[n].pc = "running" /\ checker_node[n].steady)
  BY <1>1, Refused DEF IInv, Service, Nodes, StartedCheckerDelegated
<1>. DEFINE A == \A h \in Posts, n \in CheckerNodes :
                    posts[h].from = n /\ posts[h].pc = "licence" /\ posts'[h].pc = "invalid"
                    => ~(checker_node[n].pc = "running" /\ checker_node[n].steady)
<1>2. IInv /\ [Next]_vars => A
  BY <1>1
<1>3. StartedCheckerAdmitted <=> [][A]_vars
  BY DEF StartedCheckerAdmitted
<1>. HIDE DEF A
<1>. QED
  BY <1>2, <1>3, AdmissionInvariant, PTL DEF Spec

-----------------------------------------------------------------------------
(* The counts, before the ring is full.                                    *)

LEMMA RingFilledNext ==
  ASSUME Chain, RingFilled, NEW p \in Days, NEW c \in Counts, Announce(p, c)
  PROVE  RingFilled'
<1>1. /\ pushes' = pushes + 1
      /\ data'[current_index] # Bmb!Empty
      /\ \A s \in Bmb!Slots \ {current_index} : data'[s] = data[s]
      /\ current_index' = IF current_index + 1 = Capacity THEN 0 ELSE current_index + 1
  BY AnnounceEffect DEF Chain
<1>2. pushes \in Nat /\ Capacity \in Nat
  BY Constants DEF Chain, Bmb!TypeOK
<1>. SUFFICES ASSUME pushes + 1 < Capacity
              PROVE  /\ current_index' = pushes + 1
                     /\ \A s \in Bmb!Slots : data'[s] # Bmb!Empty <=> s < pushes + 1
  BY <1>1 DEF RingFilled
<1>3. current_index = pushes /\ \A s \in Bmb!Slots : data[s] # Bmb!Empty <=> s < pushes
  BY <1>2 DEF RingFilled
<1>4. current_index' = pushes + 1
  BY <1>1, <1>2, <1>3
<1>5. ASSUME NEW s \in Bmb!Slots
      PROVE  data'[s] # Bmb!Empty <=> s < pushes + 1
  <2>1. s \in Int
    BY DEF Bmb!Slots
  <2>2. CASE s = pushes
    BY <1>1, <1>2, <1>3, <2>2
  <2>3. CASE s # pushes
    BY <1>1, <1>2, <1>3, <2>1, <2>3
  <2>. QED
    BY <2>2, <2>3
<1>. QED
  BY <1>4, <1>5

\* An announcement leaves the count of every day that has begun as it was.
LEMMA CountFixed ==
  ASSUME Chain, RingFilled, pushes' < Capacity,
         NEW p \in Days, NEW c \in Counts, Announce(p, c),
         NEW d \in Days, d <= period
  PROVE  count_now(d)' = count_now(d)
<1>1. /\ pushes' = pushes + 1 /\ p > period
      /\ data'[current_index] = [period |-> p, count |-> c]
      /\ data'[current_index] # Bmb!Empty
      /\ \A s \in Bmb!Slots \ {current_index} : data'[s] = data[s]
      /\ Bmb!TypeOK'
  BY AnnounceEffect DEF Chain
<1>2. /\ pushes \in Nat /\ pushes + 1 < Capacity /\ Capacity \in Nat
      /\ period \in Nat /\ p \in Nat /\ d \in Nat
  BY <1>1, Constants, DaysType DEF Chain, Bmb!TypeOK, Bmb!Periods
<1>3. /\ current_index = pushes /\ current_index' = pushes + 1
      /\ \A s \in 0..(Capacity - 1) : data[s] # Bmb!Empty <=> s < pushes
  BY <1>1, <1>2, RingFilledNext DEF RingFilled, Bmb!Slots
<1>4. /\ data'[pushes] # Bmb!Empty /\ data'[pushes].period \in Nat /\ data'[pushes].period > d
      /\ \A s \in 0..(Capacity - 1) : s # pushes => data'[s] = data[s]
  BY <1>1, <1>2, <1>3 DEF Bmb!Slots
<1>. DEFINE k == pushes
            e == Bmb!Empty
            count == RingCount(Capacity, data, k, e, None, d)
            count2 == RingCount(Capacity, data', k + 1, e, None, d)
<1>5. count2 = count
  <2>1. k \in Nat /\ k + 1 < Capacity /\ Capacity \in Nat /\ d \in Nat
    BY <1>2
  <2>2. \A s \in 0..(Capacity - 1) : data[s] # e <=> s < k
    BY <1>3
  <2>3. /\ data'[k] # e /\ data'[k].period \in Nat /\ data'[k].period > d
        /\ \A s \in 0..(Capacity - 1) : s # k => data'[s] = data[s]
    BY <1>4
  <2>. HIDE DEF k, e
  <2>. QED
    BY <2>1, <2>2, <2>3, RingCountFixed
<1>. HIDE DEF k, e, count, count2
<1>6. count_now(d) = count
  BY <1>3, CountIsRingCount DEF count, k, e
<1>7. count_now(d)' = count2
  BY <1>3
     DEF count_now, Bmb!get_checker_count_for_period, Bmb!Hits, Bmb!WalkSlot, Bmb!Slots,
         RingCount, RingHits, RingSlot, count2, k, e
<1>. QED
  BY <1>5, <1>6, <1>7

LEMMA CurrentFixed ==
  ASSUME Chain, RingFilled, pushes' < Capacity,
         NEW p \in Days, NEW c \in Counts, Announce(p, c)
  PROVE  \A d \in Days : d <= period => Current'[d] = Current[d]
<1>1. ASSUME NEW d \in Days, d <= period
      PROVE  Current'[d] = Current[d]
  <2>1. count_now(d)' = count_now(d)
    BY <1>1, CountFixed
  <2>. QED
    BY <2>1 DEF Current, count_now
<1>. QED
  BY <1>1

LEMMA CurrentUntouched ==
  ASSUME UNCHANGED bmb
  PROVE  Current' = Current
<1>1. UNCHANGED <<data, current_index>>
  BY DEF bmb
<1>2. ASSUME NEW d \in Days
      PROVE  count_now(d)' = count_now(d)
  BY <1>1 DEF count_now, Bmb!get_checker_count_for_period, Bmb!Hits, Bmb!WalkSlot
<1>. QED
  BY <1>2 DEF Current

\* With the same counts good copies stay good.
LEMMA CacheUntouched ==
  ASSUME CacheCopies, UNCHANGED <<bmb, cache>>
  PROVE  CacheCopies'
BY CurrentUntouched DEF CacheCopies, GoodFor

LEMMA PostsUntouched ==
  ASSUME PostCopies, UNCHANGED <<bmb, now, posts>>
  PROVE  PostCopies'
BY CurrentUntouched DEF PostCopies, GoodFor

LEMMA AnnounceKeepsCopies ==
  ASSUME IInv, RingFilled, pushes' < Capacity, PostCopies, CacheCopies,
         NEW p \in Days, NEW c \in Counts, Announce(p, c)
  PROVE  PostCopies' /\ CacheCopies'
<1>1. UNCHANGED <<now, posts, cache>>
  BY DEF Announce
<1>2. Chain /\ RequestsTyped /\ CacheTyped /\ now \in Nat /\ Ttl \in Nat
  BY LastTickType, Constants DEF IInv, Service, Chain
<1>3. ASSUME NEW t \in Int, t <= now, NEW copy, GoodFor(copy, t)
      PROVE  GoodFor(copy, t)'
  <2>1. ASSUME NEW d \in Days, d * DayTicks <= t
        PROVE  copy[d] = Current'[d]
    <3>1. d * DayTicks \in Nat
      BY Constants, DaysType
    <3>2. d <= period
      BY <1>2, <1>3, <2>1, <3>1, BegunDays
    <3>3. Current'[d] = Current[d]
      BY <1>2, <3>2, CurrentFixed
    <3>. QED
      BY <1>3, <2>1, <3>3 DEF GoodFor
  <2>. QED
    BY <2>1 DEF GoodFor
<1>4. ASSUME NEW h \in Posts, posts[h].pc = "fetched"
      PROVE  GoodFor(posts[h].copy, posts[h].read)'
  <2>1. posts[h].read \in Int
    BY <1>2, RequestsFine, LastTickType DEF RequestFine, Request
  <2>. DEFINE copy == posts[h].copy
              t == posts[h].read
  <2>2. GoodFor(copy, t) /\ t <= now /\ t \in Int
    BY <1>4, <2>1 DEF PostCopies
  <2>3. posts'[h].copy = copy /\ posts'[h].read = t
    BY <1>1
  <2>. HIDE DEF copy, t
  <2>4. \A d \in Days : d * DayTicks <= t => copy[d] = Current'[d]
    BY <1>3, <2>2 DEF GoodFor
  <2>. QED
    BY <2>3, <2>4 DEF GoodFor
<1>5. PostCopies'
  BY <1>1, <1>4 DEF PostCopies
<1>6. CacheCopies'
  <2>. SUFFICES ASSUME cache # Nowhere
                PROVE  GoodFor(cache.copy, cache.until - Ttl - 1)'
    BY <1>1 DEF CacheCopies
  <2>. DEFINE copy == cache.copy
              t == cache.until - Ttl - 1
  <2>1. t \in Int /\ t <= now
    BY <1>2 DEF CacheTyped
  <2>2. GoodFor(copy, t)
    BY DEF CacheCopies
  <2>3. cache'.copy = copy /\ cache'.until - Ttl - 1 = t
    BY <1>1
  <2>. HIDE DEF copy, t
  <2>4. \A d \in Days : d * DayTicks <= t => copy[d] = Current'[d]
    BY <1>3, <2>1, <2>2 DEF GoodFor
  <2>. QED
    BY <2>3, <2>4 DEF GoodFor
<1>. QED
  BY <1>5, <1>6

LEMMA TickKeepsCopies ==
  ASSUME IInv, PostCopies, CacheCopies, Tick
  PROVE  PostCopies' /\ CacheCopies'
<1>1. /\ \A h \in Posts : posts[h].pc = "fetched" => posts[h].read = now
      /\ now' = now + 1
      /\ UNCHANGED <<bmb, posts, cache>>
  BY DEF Tick
<1>2. now \in Nat
  BY LastTickType DEF IInv, Chain
<1>3. Current' = Current
  BY <1>1, CurrentUntouched
<1>4. PostCopies'
  BY <1>1, <1>2, <1>3 DEF PostCopies, GoodFor
<1>. QED
  BY <1>1, <1>4, CacheUntouched

\* A request's step fetches nothing, unless it reads the account.
LEMMA MovesKeepCopies ==
  ASSUME RequestsTyped, PostCopies, UNCHANGED <<bmb, now>>,
         NEW h \in Posts, NEW r, r.pc # "fetched", Answer(h, r)
  PROVE  PostCopies'
<1>1. posts'[h] = r /\ \A g \in Posts : g # h => posts'[g] = posts[g]
  BY AnswersOne
<1>2. Current' = Current
  BY CurrentUntouched
<1>. QED
  BY <1>1, <1>2 DEF PostCopies, GoodFor

LEMMA ReadKeepsCopies ==
  ASSUME IInv, PostCopies, CacheCopies, NEW h \in Posts, ReadBmbState(h)
  PROVE  PostCopies' /\ CacheCopies'
<1>. DEFINE r == [posts[h] EXCEPT !.pc = "fetched", !.copy = Copy, !.read = now]
<1>1. /\ Answer(h, r) \/ Answer(h, Idle)
      /\ UNCHANGED <<bmb, now, cache>>
  BY DEF ReadBmbState, chain
<1>2. RequestsTyped /\ posts[h] \in Request /\ now \in Nat
  BY LastTickType DEF IInv, Chain, Service, RequestsTyped
<1>3. r.copy = Copy /\ r.read = now
  BY <1>2 DEF Request
<1>. HIDE DEF r
<1>4. Current' = Current
  BY <1>1, CurrentUntouched
<1>5. GoodFor(Copy, now)
  BY DEF GoodFor, Copy, Current, count_now
<1>6. CASE Answer(h, r)
  <2>1. posts'[h] = r /\ \A g \in Posts : g # h => posts'[g] = posts[g]
    BY <1>2, <1>6, AnswersOne
  <2>2. ASSUME NEW g \in Posts, posts'[g].pc = "fetched"
        PROVE  /\ posts'[g].read <= now /\ now <= posts'[g].read + 1
               /\ GoodFor(posts'[g].copy, posts'[g].read)
    BY <1>2, <1>3, <1>5, <2>1, <2>2 DEF PostCopies
  <2>3. PostCopies'
    BY <1>1, <1>4, <2>2 DEF PostCopies, GoodFor
  <2>. QED
    BY <1>1, <2>3, CacheUntouched
<1>7. CASE Answer(h, Idle)
  <2>1. PostCopies'
    BY <1>1, <1>2, <1>7, MovesKeepCopies DEF Idle
  <2>. QED
    BY <1>1, <2>1, CacheUntouched
<1>. QED
  BY <1>1, <1>6, <1>7

LEMMA FetchedKeepsCopies ==
  ASSUME IInv, PostCopies, CacheCopies, NEW h \in Posts, Fetched(h)
  PROVE  PostCopies' /\ CacheCopies'
<1>. DEFINE copy == posts[h].copy
            t == posts[h].read
<1>1. /\ Decide(h, copy)
      /\ cache' = [copy |-> copy, until |-> now + Ttl]
      /\ UNCHANGED <<bmb, now>>
      /\ posts[h].pc = "fetched"
  BY DEF Fetched, Expiry, chain
<1>2. RequestsTyped /\ copy \in Copies
  BY <1>1 DEF IInv, Service, RequestsTyped
<1>3. now \in Nat /\ Ttl \in Nat /\ t \in Int
  BY <1>2, RequestsFine, LastTickType, Constants DEF IInv, Chain, RequestFine, Request
<1>4. GoodFor(copy, t) /\ now <= t + 1
  BY <1>1 DEF PostCopies
<1>5. GoodFor(copy, now + Ttl - Ttl - 1)
  <2>1. ASSUME NEW d \in Days, d * DayTicks <= now + Ttl - Ttl - 1
        PROVE  d * DayTicks <= t
    <3>1. d * DayTicks \in Nat
      BY Constants, DaysType
    <3>. QED
      BY <1>3, <1>4, <2>1, <3>1
  <2>. QED
    BY <1>4, <2>1 DEF GoodFor
<1>6. Current' = Current
  BY <1>1, CurrentUntouched
<1>. HIDE DEF copy, t
<1>7. CacheCopies'
  <2>. DEFINE until == now + Ttl - Ttl - 1
  <2>1. cache'.copy = copy /\ cache'.until - Ttl - 1 = until
    <3>1. cache'.copy = copy /\ cache'.until = now + Ttl
      BY <1>1
    <3>. QED
      BY <1>3, <3>1
  <2>2. \A d \in Days : d * DayTicks <= until => copy[d] = Current'[d]
    BY <1>5, <1>6 DEF GoodFor
  <2>. HIDE DEF until
  <2>. QED
    BY <2>1, <2>2 DEF CacheCopies, GoodFor
<1>8. PostCopies'
  <2>. DEFINE r == Decision(h, copy)
  <2>1. r.pc # "fetched" /\ Answer(h, r)
    BY <1>1, <1>2, DecisionFine
  <2>. HIDE DEF r
  <2>. QED
    BY <1>1, <1>2, <2>1, MovesKeepCopies
<1>. QED
  BY <1>7, <1>8

LEMMA PostStepsKeepCopies ==
  ASSUME IInv, PostCopies, CacheCopies, NEW h \in Posts, PostSteps(h)
  PROVE  PostCopies' /\ CacheCopies'
<1>1. CASE ReadBmbState(h)
  BY <1>1, ReadKeepsCopies
<1>2. CASE Fetched(h)
  BY <1>2, FetchedKeepsCopies
<1>3. CASE ~ReadBmbState(h) /\ ~Fetched(h)
  <2>1. RequestsTyped /\ posts[h] \in Request
    BY DEF IInv, Service, RequestsTyped
  <2>2. PICK r : r.pc # "fetched" /\ Answer(h, r)
    <3>1. ASSUME NEW at \in {"asset", "invalid", "fetch"}
          PROVE  [posts[h] EXCEPT !.pc = at].pc # "fetched"
      BY <2>1 DEF Request
    <3>2. CASE \E c \in Checkers, k \in Keys : Post(h, c, k)
      <4>1. PICK c \in Checkers, k \in Keys : Post(h, c, k)
        BY <3>2
      <4>2. [Idle EXCEPT !.pc = "licence", !.day = period, !.from = <<c, k>>].pc # "fetched"
        BY DEF Idle
      <4>. QED
        BY <4>1, <4>2 DEF Post
    <3>3. CASE ValidateCheckerLicense(h) \/ CacheMiss(h)
      BY <3>1, <3>3 DEF ValidateCheckerLicense, CacheMiss
    <3>4. CASE CacheHit(h)
      <4>1. cache.copy \in Copies /\ Decide(h, cache.copy)
        BY <3>4 DEF CacheHit, IInv, Service, CacheTyped
      <4>. QED
        BY <2>1, <4>1, DecisionFine
    <3>5. CASE Done(h)
      BY <3>5 DEF Done, Idle
    <3>. QED
      BY <1>3, <3>2, <3>3, <3>4, <3>5 DEF PostSteps
  <2>3. UNCHANGED <<bmb, now, cache>>
    BY <1>3 DEF PostSteps, Post, ValidateCheckerLicense, CacheHit, CacheMiss, Done, chain
  <2>. QED
    BY <2>1, <2>2, <2>3, MovesKeepCopies, CacheUntouched
<1>. QED
  BY <1>1, <1>2, <1>3

\* Besides announcements nothing changes the schedule, and besides Tick the clock.
LEMMA BmbUntouched ==
  ASSUME [Next]_vars, ~Tick, ~(\E p \in Days, c \in Counts : Announce(p, c))
  PROVE  UNCHANGED <<now, period, bmb>>
<1>1. CASE UNCHANGED vars
  BY <1>1 DEF vars, chain
<1>2. ASSUME NEW w \in Workers, WorkerChanges(w)
      PROVE  UNCHANGED <<now, period, bmb>>
  BY <1>2 DEF WorkerChanges, TransferWorker, ActivateWorker
<1>3. ASSUME NEW c \in Checkers, CheckerChanges(c)
      PROVE  UNCHANGED <<now, period, bmb>>
  BY <1>3 DEF CheckerChanges, TransferChecker, ActivateChecker
<1>4. ASSUME NEW n \in CheckerNodes,
             \/ CheckerStarts(n) \/ CheckerExits(n)
             \/ CheckerReadsLicence(n) \/ CheckerReadsMetadata(n) \/ CheckerActivates(n)
      PROVE  UNCHANGED <<now, period, bmb>>
  BY <1>4 DEF CheckerStarts, CheckerExits, CheckerReadsLicence, CheckerReadsMetadata,
              CheckerActivates, ActivateCheckerBy, ActivateChecker, chain
<1>5. ASSUME NEW n \in WorkerNodes,
             \/ \E u \in Uris : WorkerStarts(n, u)
             \/ WorkerExits(n)
             \/ WorkerReadsLicence(n) \/ WorkerReadsMetadata(n)
             \/ WorkerActivates(n) \/ WorkerUpdates(n)
      PROVE  UNCHANGED <<now, period, bmb>>
  BY <1>5 DEF WorkerStarts, WorkerExits, WorkerReadsLicence, WorkerReadsMetadata,
              WorkerActivates, ActivateWorkerBy, ActivateWorker,
              WorkerUpdates, UpdateWorkerUriBy, UpdateWorkerUri, chain
<1>6. ASSUME NEW h \in Posts,
             \/ \E c \in Checkers, k \in Keys : Post(h, c, k)
             \/ ValidateCheckerLicense(h)
             \/ CacheHit(h) \/ CacheMiss(h) \/ ReadBmbState(h) \/ Fetched(h)
             \/ Done(h)
      PROVE  UNCHANGED <<now, period, bmb>>
  BY <1>6 DEF Post, ValidateCheckerLicense, CacheHit, CacheMiss, ReadBmbState, Fetched, Done,
              chain
<1>. QED
  BY <1>1, <1>2, <1>3, <1>4, <1>5, <1>6 DEF Next

LEMMA CopiesInit == Init => RingFilled /\ PostCopies /\ CacheCopies
<1>. SUFFICES ASSUME Init PROVE RingFilled /\ PostCopies /\ CacheCopies
  OBVIOUS
<1>1. RingFilled
  BY Constants DEF Init, Bmb!Init, RingFilled, Bmb!Slots
<1>2. PostCopies
  BY DEF Init, Idle, PostCopies
<1>3. CacheCopies
  BY DEF Init, CacheCopies
<1>. QED
  BY <1>1, <1>2, <1>3

LEMMA CopiesKeep ==
  ASSUME IInv, RingFilled, CopiesCurrent, [Next]_vars
  PROVE  RingFilled' /\ CopiesCurrent'
<1>1. pushes \in Nat /\ Capacity \in Nat
  BY Constants DEF IInv, Chain, Bmb!TypeOK
<1>2. ASSUME NEW p \in Days, NEW c \in Counts, Announce(p, c)
      PROVE  RingFilled' /\ CopiesCurrent'
  <2>1. RingFilled' /\ pushes' = pushes + 1
    BY <1>2, RingFilledNext, AnnounceEffect DEF IInv, Chain
  <2>2. ASSUME pushes' < Capacity
        PROVE  PostCopies' /\ CacheCopies'
    <3>1. pushes < Capacity
      BY <1>1, <2>1, <2>2
    <3>. QED
      BY <1>2, <2>2, <3>1, AnnounceKeepsCopies DEF CopiesCurrent
  <2>. QED
    BY <2>1, <2>2 DEF CopiesCurrent
<1>3. CASE Tick
  <2>1. UNCHANGED bmb
    BY <1>3 DEF Tick
  <2>2. RingFilled' /\ pushes' = pushes
    BY <2>1 DEF bmb, RingFilled
  <2>. QED
    BY <1>3, <2>2, TickKeepsCopies DEF CopiesCurrent
<1>4. CASE ~Tick /\ ~(\E p \in Days, c \in Counts : Announce(p, c))
  <2>1. UNCHANGED <<now, bmb>>
    BY <1>4, BmbUntouched
  <2>2. RingFilled' /\ pushes' = pushes
    BY <2>1 DEF bmb, RingFilled
  <2>3. ASSUME PostCopies, CacheCopies
        PROVE  PostCopies' /\ CacheCopies'
    <3>1. CASE \E h \in Posts : PostSteps(h)
      BY <2>3, <3>1, PostStepsKeepCopies
    <3>2. CASE \E n \in WorkerNodes : WorkerExits(n)
      BY <3>2 DEF WorkerExits, Idle, PostCopies, CacheCopies
    <3>3. CASE ~(\E h \in Posts : PostSteps(h)) /\ ~(\E n \in WorkerNodes : WorkerExits(n))
      <4>1. UNCHANGED <<posts, cache>>
        BY <1>4, <3>3 DEF Next, vars, PostSteps, WorkerChanges, CheckerChanges,
           CheckerStarts, CheckerExits, CheckerReadsLicence, CheckerReadsMetadata,
           CheckerActivates, WorkerStarts, WorkerReadsLicence, WorkerReadsMetadata,
           WorkerActivates, WorkerUpdates
      <4>. QED
        BY <2>1, <2>3, <4>1, CacheUntouched, PostsUntouched
    <3>. QED
      BY <3>1, <3>2, <3>3
  <2>. QED
    BY <2>2, <2>3 DEF CopiesCurrent
<1>. QED
  BY <1>2, <1>3, <1>4

\* A decision is taken with the copy at hand, cached or just fetched.
LEMMA Decided ==
  ASSUME IInv, [Next]_vars, NEW h \in Posts,
         posts[h].pc \in {"asset", "fetched"}, posts'[h].pc \in {"admitted", "inactive"}
  PROVE  \E copy \in Copies :
            /\ posts'[h].count = copy[posts[h].day]
            /\ \/ cache # Nowhere /\ now <= cache.until /\ copy = cache.copy
               \/ posts[h].pc = "fetched" /\ copy = posts[h].copy
<1>1. RequestsTyped /\ posts[h] \in Request
  BY DEF IInv, Service, RequestsTyped
<1>2. posts'[h] # posts[h] /\ posts'[h] # Idle
  BY DEF Idle
<1>3. PostSteps(h)
  BY <1>1, <1>2, OwnStep
<1>4. ~Done(h)
  BY <1>1, <1>2, AnswersOne DEF Done
<1>5. ~CacheMiss(h)
  <2>. DEFINE r == [posts[h] EXCEPT !.pc = "fetch"]
  <2>1. r.pc = "fetch"
    BY <1>1 DEF Request
  <2>2. CacheMiss(h) => Answer(h, r)
    BY DEF CacheMiss
  <2>. HIDE DEF r
  <2>. QED
    BY <1>1, <2>1, <2>2, AnswersOne
<1>6. CacheHit(h) \/ Fetched(h)
  BY <1>3, <1>4, <1>5 DEF PostSteps, Post, ValidateCheckerLicense, ReadBmbState
<1>7. ASSUME NEW copy \in Copies, Decide(h, copy)
      PROVE  posts'[h].count = copy[posts[h].day]
  <2>. DEFINE r == Decision(h, copy)
  <2>1. /\ r.pc # "idle" => r.count = copy[posts[h].day]
        /\ Answer(h, r)
    BY <1>1, <1>7, DecisionFine
  <2>. HIDE DEF r
  <2>2. posts'[h] = r
    BY <1>1, <2>1, AnswersOne
  <2>. QED
    BY <2>1, <2>2
<1>8. CASE CacheHit(h)
  BY <1>7, <1>8 DEF CacheHit, IInv, Service, CacheTyped
<1>9. CASE Fetched(h)
  BY <1>1, <1>7, <1>9 DEF Fetched, RequestsTyped
<1>. QED
  BY <1>6, <1>8, <1>9

\* What a decision after the grace time relies on.
LEMMA InForce ==
  ASSUME IInv, PostCopies, CacheCopies, [Next]_vars, NEW h \in Posts,
         posts[h].pc \in {"asset", "fetched"}, posts'[h].pc \in {"admitted", "inactive"},
         now > posts[h].day * DayTicks + Ttl
  PROVE  posts'[h].count = count_now(posts[h].day)
<1>. DEFINE d == posts[h].day
            start == d * DayTicks
<1>1. d \in Days
  BY RequestsFine DEF IInv, Service, RequestFine, Request
<1>2. start \in Nat /\ now \in Nat /\ Ttl \in Nat /\ now > start + Ttl
  BY <1>1, Constants, DaysType, LastTickType DEF IInv, Chain
<1>3. PICK copy \in Copies :
         /\ posts'[h].count = copy[d]
         /\ \/ cache # Nowhere /\ now <= cache.until /\ copy = cache.copy
            \/ posts[h].pc = "fetched" /\ copy = posts[h].copy
  BY Decided
<1>4. ASSUME NEW t \in Int, GoodFor(copy, t), start <= t
      PROVE  copy[d] = count_now(d)
  BY <1>1, <1>4 DEF GoodFor, Current
<1>. HIDE DEF d, start
<1>5. CASE cache # Nowhere /\ now <= cache.until /\ copy = cache.copy
  <2>1. cache.until \in Nat
    BY <1>5 DEF IInv, Service, CacheTyped
  <2>2. cache.until - Ttl - 1 \in Int /\ start <= cache.until - Ttl - 1
    BY <1>2, <1>5, <2>1
  <2>3. GoodFor(copy, cache.until - Ttl - 1)
    BY <1>5 DEF CacheCopies
  <2>4. copy[d] = count_now(d)
    BY <1>4, <2>2, <2>3
  <2>. QED
    BY <1>3, <2>4 DEF d
<1>6. CASE posts[h].pc = "fetched" /\ copy = posts[h].copy
  <2>1. posts[h].read \in Int
    BY RequestsFine, LastTickType DEF IInv, Service, RequestFine, Request
  <2>2. now <= posts[h].read + 1 /\ GoodFor(copy, posts[h].read)
    BY <1>6 DEF PostCopies
  <2>3. start <= posts[h].read
    BY <1>2, <2>1, <2>2
  <2>4. copy[d] = count_now(d)
    BY <1>4, <2>1, <2>2, <2>3
  <2>. QED
    BY <1>3, <2>4 DEF d
<1>. QED
  BY <1>3, <1>5, <1>6

(***************************************************************************)
(* From a cache lifetime and a fetch after midnight on, a proof is checked *)
(* with the count in force on its day, however many requests fetch at the  *)
(* same time and in whatever order their copies arrive, until the ring is  *)
(* full.                                                                   *)
(***************************************************************************)
THEOREM CountInForceHolds == Spec => CountInForce
<1>. DEFINE A == \A h \in Posts :
                    /\ pushes < Capacity
                    /\ posts[h].pc \in {"asset", "fetched"}
                    /\ posts'[h].pc \in {"admitted", "inactive"}
                    /\ now > posts[h].day * DayTicks + Ttl
                    => posts'[h].count = Bmb!get_checker_count_for_period(posts[h].day)
<1>1. IInv /\ CopiesCurrent /\ [Next]_vars => A
  BY InForce DEF count_now, CopiesCurrent
<1>2. CountInForce <=> [][A]_vars
  BY DEF CountInForce
<1>3. Init => RingFilled /\ CopiesCurrent
  BY CopiesInit DEF CopiesCurrent
<1>4. IInv /\ RingFilled /\ CopiesCurrent /\ [Next]_vars => RingFilled' /\ CopiesCurrent'
  BY CopiesKeep
<1>. HIDE DEF A
<1>. QED
  BY <1>1, <1>2, <1>3, <1>4, AdmissionInvariant, PTL DEF Spec

(***************************************************************************)
(* Admission sees the chain's schedule as BmbState describes it: ticks are *)
(* days or pass within one, and nothing but an announcement changes it.    *)
(***************************************************************************)
THEOREM AdmissionImplementsBmbState == Spec => Bmb!Spec
<1>1. Init => Bmb!Init
  BY DEF Init, Bmb!Init
<1>2. IInv /\ [Next]_vars => [Bmb!Next]_(Bmb!vars)
  <2>. SUFFICES ASSUME IInv, [Next]_vars PROVE [Bmb!Next]_(Bmb!vars)
    OBVIOUS
  <2>1. ASSUME UNCHANGED <<period, bmb>>
        PROVE  UNCHANGED Bmb!vars
    BY <2>1 DEF bmb, Bmb!vars
  <2>2. CASE Tick
    <3>1. UNCHANGED bmb
      BY <2>2 DEF Tick
    <3>2. period' \in {period, period + 1} /\ (period' # period => period < MaxPeriod)
      BY <2>2, TickChain DEF IInv
    <3>3. CASE period' = period
      BY <2>1, <3>1, <3>3
    <3>4. CASE period' # period
      BY <3>1, <3>2, <3>4 DEF bmb, Bmb!Next, Bmb!AdvancePeriod
    <3>. QED
      BY <3>3, <3>4
  <2>3. ASSUME NEW p \in Days, NEW c \in Counts, Announce(p, c)
        PROVE  Bmb!Next
    BY <2>3 DEF Announce, Bmb!Next, Days
  <2>. QED
    BY <2>1, <2>2, <2>3, BmbUntouched
<1>. QED
  BY <1>1, <1>2, AdmissionInvariant, PTL DEF Spec, Bmb!Spec

=============================================================================
