------------------------------ MODULE CheckerNode ------------------------------
(***************************************************************************)
(* The checker's CheckerService: a loop that, once per day, finds the      *)
(* workers it is drawn for, resolves their discovery documents in rounds,  *)
(* runs a health-check session for each of them and waits for the sessions *)
(* to post their proofs, under two abort timers and the ends of days.      *)
(*                                                                         *)
(* Time is counted in ticks of ten minutes.  A timer fires in the tick in  *)
(* which it is due.  Calls to the chain, fetches and checks take any       *)
(* number of ticks (they queue for a slot, hang, or trickle); what takes   *)
(* seconds takes no tick, except where a second may be the one that        *)
(* matters: a pause of a minute ends in the next tick.                     *)
(***************************************************************************)
EXTENDS Integers, FiniteSets

CONSTANTS Workers,       \* worker accounts on chain
          Trickling,     \* workers that may take as long as they like over the body of
                         \* an answer; the others answer, or fail, within the time limits
          Drawn(_, _),   \* whether BRAND draws this checker for a worker and day
          DayTicks,      \* ticks of a day
          MaxDay,        \* bound: the last day
          PageSize,      \* accounts per answer of getProgramAccounts
          MaxRestarts,   \* bound: how often the process ends and is started again
          PERIOD_END_THRESHOLD,    \* 23h50m
          PERIOD_SKIP_THRESHOLD,   \* 1h
          HEALTH_ABORT_THRESHOLD,  \* 10 min
          MAX_DELAY,               \* 1h
          RETRY_INTERVAL,          \* 30 min
          MIN_EARLY, MAX_EARLY,    \* 30 min, 4h
          MIN_INTERVAL, MAX_INTERVAL,  \* 10 min, 30 min
          PostTime       \* what the five attempts to post a proof take at most, at a
                         \* worker that does not trickle

ASSUME CheckerAssumption ==
    /\ IsFiniteSet(Workers) /\ Workers # {}
    /\ Trickling \subseteq Workers
    /\ {DayTicks, MaxDay, PageSize, RETRY_INTERVAL, MIN_INTERVAL} \subseteq Nat \ {0}
    /\ {MaxRestarts, MAX_DELAY, PostTime} \subseteq Nat
    /\ {PERIOD_END_THRESHOLD, PERIOD_SKIP_THRESHOLD, HEALTH_ABORT_THRESHOLD} \subseteq Nat
    /\ {MIN_EARLY, MAX_EARLY, MAX_INTERVAL} \subseteq Nat
    /\ MIN_INTERVAL <= MAX_INTERVAL
    /\ PostTime < HEALTH_ABORT_THRESHOLD
    /\ HEALTH_ABORT_THRESHOLD <= MIN_EARLY
    /\ MIN_EARLY <= PERIOD_SKIP_THRESHOLD /\ MIN_EARLY <= MAX_EARLY
    /\ PERIOD_SKIP_THRESHOLD + MAX_DELAY <= PERIOD_END_THRESHOLD
    /\ PERIOD_END_THRESHOLD < DayTicks
    /\ \A w \in Workers, d \in 1..MaxDay : Drawn(w, d) \in BOOLEAN

VARIABLES now,            \* the clock
          pc,             \* where the loop is
          currentPeriod,  \* CheckerService.currentPeriod
          period,         \* runLoop's local variable
          due,            \* when the sleep the loop awaits is over
          abortAt,        \* when the abort timer of the running phase is due
          left,           \* accounts getProgramAccounts has not answered yet
          eligible,       \* eligibleWorkers
          entry,          \* what is known of a worker on a day: its discovery, then its session
          awaited,        \* the sessions waitForAll has in hand
          aborted,        \* days whose health checks were aborted
          closed,         \* days whose HTTP agent was closed
          restarts        \* how often the process ended

loop == <<pc, currentPeriod, period, due, abortAt, left, eligible>>
health == <<awaited, aborted, closed>>
vars == <<now, loop, entry, health, restarts>>

Days     == 1..MaxDay
Sessions == Workers \X Days
Today    == now \div DayTicks + 1
End(d)   == d * DayTicks
LastTick == End(MaxDay) - 1

Earlier(a, b) == IF a < b THEN a ELSE b
Later(a, b)   == IF a < b THEN b ELSE a

\* Places where the loop has a day's task to finish.
Busy == {"settle", "read", "list", "discover", "pause", "health", "closing", "retry"}

\* Nothing known; the document is being fetched, or has to be fetched again; the
\* document was unusable; the session waits for its next check, checks, posts its
\* proof, or is over.
Unknown == [pc |-> "none", cutoff |-> 0, due |-> 0, sampled |-> FALSE]

TypeOK ==
    /\ now \in 0..LastTick
    /\ pc \in Busy \cup {"down", "check", "sleep"}
    /\ currentPeriod \in 0..MaxDay
    /\ period \in 0..MaxDay
    /\ due \in Nat
    /\ abortAt \in 0..LastTick
    /\ left \cup eligible \subseteq Workers
    /\ entry \in [Sessions -> [pc : {"none", "fetch", "pending", "bad",
                                     "wait", "check", "post", "ended"},
                               cutoff : 0..LastTick,
                               due : Nat,
                               sampled : BOOLEAN]]
    /\ awaited \subseteq Sessions
    /\ aborted \cup closed \subseteq Days
    /\ restarts \in 0..MaxRestarts

\* A new process, started at some time of the first day.
Init == /\ now \in 0..(DayTicks - 1)
        /\ pc = "check"
        /\ currentPeriod = 0 /\ period = 0
        /\ due = 0 /\ abortAt = 0
        /\ left = {} /\ eligible = {}
        /\ entry = [s \in Sessions |-> Unknown]
        /\ awaited = {} /\ aborted = {} /\ closed = {}
        /\ restarts = 0

\* The process ends: by a crash, or by a signal, on which main calls stop() and
\* exits without another turn of the loop.  Everything was in memory.
Exit == /\ pc # "down"
        /\ restarts < MaxRestarts
        /\ restarts' = restarts + 1
        /\ pc' = "down"
        /\ currentPeriod' = 0 /\ period' = 0
        /\ due' = 0 /\ abortAt' = 0
        /\ left' = {} /\ eligible' = {}
        /\ entry' = [s \in Sessions |-> Unknown]
        /\ awaited' = {} /\ aborted' = {} /\ closed' = {}
        /\ UNCHANGED now

\* CheckerService.start, at the end of the node's start-up.
Start == /\ pc = "down"
         /\ pc' = "check"
         /\ UNCHANGED <<now, currentPeriod, period, due, abortAt, left, eligible,
                        entry, health, restarts>>

-----------------------------------------------------------------------------
(* runLoop.                                                                *)

\* The top of the loop.  A new day is skipped in its last hour, delayed in its
\* first minutes, taken at once otherwise; a day already taken is slept through.
Check ==
    /\ pc = "check"
    /\ \/ /\ Today # currentPeriod
          /\ currentPeriod' = Today
          /\ period' = Today
          /\ LET remaining == End(Today) - now
             IN  \/ /\ remaining < PERIOD_SKIP_THRESHOLD
                    /\ UNCHANGED <<pc, due>>
                 \/ /\ remaining > PERIOD_END_THRESHOLD
                    /\ pc' = "settle"
                    /\ due' \in now..(now + MAX_DELAY)
                 \/ /\ remaining >= PERIOD_SKIP_THRESHOLD
                    /\ remaining <= PERIOD_END_THRESHOLD
                    /\ pc' = "read"
                    /\ UNCHANGED due
       \/ /\ Today = currentPeriod
          /\ pc' = "sleep"
          /\ due' = End(Today)
          /\ UNCHANGED <<currentPeriod, period>>
    /\ UNCHANGED <<now, abortAt, left, eligible, entry, health, restarts>>

\* A faulty catch: it does not look at the day.
GiveUp_Never == /\ pc' = "retry"
                /\ due' = now + 1

\* The catch of the inner loop: the task is given up when its day is over.  No
\* call it covers has a signal, so none rejects with an AbortError.
GiveUp == IF period = Today
          THEN /\ pc' = "retry"
               /\ due' = now + 1
          ELSE /\ pc' = "check"
               /\ UNCHANGED due

\* A delay is over: the task is tried, again.
DelayOver == /\ pc \in {"settle", "retry"}
             /\ now >= due
             /\ pc' = "read"
             /\ UNCHANGED <<now, currentPeriod, period, due, abortAt, left, eligible,
                            entry, health, restarts>>

Wake == /\ pc = "sleep"
        /\ now >= due
        /\ pc' = "check"
        /\ UNCHANGED <<now, currentPeriod, period, due, abortAt, left, eligible,
                       entry, health, restarts>>

-----------------------------------------------------------------------------
(* runPeriodTasks, up to the discovery.                                    *)

\* BMBState is read.  The call may fail, and so does the task as long as the day
\* has no checker count.
ReadState ==
    /\ pc = "read"
    /\ \/ /\ pc' = "list"
          /\ left' = Workers
          /\ eligible' = {}
          /\ UNCHANGED due
       \/ /\ GiveUp
          /\ UNCHANGED <<left, eligible>>
    /\ UNCHANGED <<now, currentPeriod, period, abortAt, entry, health, restarts>>

\* A timer of sleep(ms, signal) fires.
Slept(t) == now >= t

\* The workers of the accounts in active that BRAND draws this checker for.
eligibleWorkers(active) == {w \in active : Drawn(w, period)}

\* Promise.all of the round that fetches the documents of batch.
Fetching(batch) == [s \in Sessions |-> IF s \in batch THEN [Unknown EXCEPT !.pc = "fetch"]
                                                      ELSE entry[s]]

\* A page of worker accounts arrives, some of them active (not suspended, with a
\* URI, decodable); or the call fails.  Nothing to do is a task done; otherwise
\* the discovery and its abort timer start.
ListAccounts ==
    /\ pc = "list"
    /\ \/ \E page \in SUBSET left \ {{}}, active \in SUBSET Workers :
              /\ Cardinality(page) <= PageSize
              /\ active \subseteq page
              /\ left' = left \ page
              /\ eligible' = eligible \cup eligibleWorkers(active)
              /\ IF left' = {} /\ eligible' # {}
                 THEN /\ pc' = "discover"
                      /\ entry' = Fetching({<<w, period>> : w \in eligible'})
                      /\ abortAt' = Later(now, End(period) - PERIOD_SKIP_THRESHOLD)
                 ELSE /\ pc' = IF left' = {} THEN "check" ELSE "list"
                      /\ UNCHANGED <<entry, abortAt>>
              /\ UNCHANGED due
       \/ /\ GiveUp
          /\ UNCHANGED <<left, eligible, entry, abortAt>>
    /\ UNCHANGED <<now, currentPeriod, period, health, restarts>>

-----------------------------------------------------------------------------
(* The sessions.  A session is known by its worker and day.                *)

\* The session's promise is in the manager's set.
Running(e) == e.pc \in {"wait", "check", "post"}

Ended == [Unknown EXCEPT !.pc = "ended"]

\* A faulty cutoff: the minimal run goes before the end of the day.
Cutoffs_MinRunLast(d) ==
    {Later(Earlier(End(d) - MIN_EARLY, End(d) - early), now + MIN_INTERVAL) :
        early \in MIN_EARLY..MAX_EARLY}

\* calculateSessionCutoff, for each random time before the end of the day.
Cutoffs(d) ==
    {Earlier(End(d) - MIN_EARLY, Later(End(d) - early, now + MIN_INTERVAL)) :
        early \in MIN_EARLY..MAX_EARLY}

\* HealthCheckMetrics.update
Sampled(e) == [e EXCEPT !.sampled = TRUE]

\* The loop of the session is over, or was aborted: the proof is posted, if there
\* is a sample.  With a closed agent every attempt fails at once.
Finish(e, d) == IF e.sampled /\ d \notin closed
                THEN [e EXCEPT !.pc = "post", !.due = now + PostTime]
                ELSE Ended

\* A check has been counted: the loop sleeps until the next one, at the cutoff at
\* the latest, or is over.
AfterCheck(e, d) ==
    IF now < e.cutoff
    THEN {[e EXCEPT !.pc = "wait", !.due = Earlier(now + i, e.cutoff)] :
             i \in MIN_INTERVAL..MAX_INTERVAL}
    ELSE {Finish(e, d)}

\* executeHealthCheck.  Once the agent is closed a request fails at once, and is
\* counted as a failure of the worker.
Checking(e, d) == IF d \in closed THEN AfterCheck(Sampled(e), d)
                                  ELSE {[e EXCEPT !.pc = "check"]}

\* HealthCheckSession.run: without a health endpoint, after the cutoff or under an
\* aborted signal nothing is checked.
Started(d) ==
    {Ended} \cup UNION {LET e == [Unknown EXCEPT !.cutoff = c]
                        IN  IF now < c /\ d \notin aborted THEN Checking(e, d)
                                                            ELSE {Finish(e, d)} :
                        c \in Cutoffs(d)}

CheckDone(s) == /\ entry[s].pc = "check"
                /\ \E e \in AfterCheck(Sampled(entry[s]), s[2]) : entry' = [entry EXCEPT ![s] = e]
                /\ UNCHANGED <<now, loop, health, restarts>>

NextCheck(s) == /\ entry[s].pc = "wait"
                /\ Slept(entry[s].due)
                /\ \E e \in Checking(entry[s], s[2]) : entry' = [entry EXCEPT ![s] = e]
                /\ UNCHANGED <<now, loop, health, restarts>>

\* buildAndSendSignedProof is over, whether or not the worker took the proof.  No
\* signal stops a post, and the agent's time limit is one for the gaps of a body:
\* only the worker decides when a post ends.
PostDone(s) == /\ entry[s].pc = "post"
               /\ entry' = [entry EXCEPT ![s] = Ended]
               /\ UNCHANGED <<now, loop, health, restarts>>

-----------------------------------------------------------------------------
(* Discovery.                                                              *)

\* The round of day d is still awaited.
InRound(d) == pc = "discover" /\ period = d

\* A faulty snapshot: nothing is awaited.
Snapshot_None(entries) == {}

\* waitForAll takes the sessions that run now.
Snapshot(entries) == {s \in Sessions : s[2] = period /\ Running(entries[s])}

\* A faulty timer: it is set to the end of the day.
HealthAbortAt_End == End(period)

HealthAbortAt == End(period) - HEALTH_ABORT_THRESHOLD

\* The discovery is over, or rejected: the sessions it started are awaited, under
\* the second abort timer.  What was still to be retried is not.
Await(entries) ==
    LET kept == [s \in Sessions |-> IF s[2] = period /\ entries[s].pc = "pending"
                                    THEN Unknown ELSE entries[s]]
    IN  /\ pc' = "health"
        /\ entry' = kept
        /\ awaited' = Snapshot(kept)
        /\ abortAt' = Later(now, HealthAbortAt)
        /\ UNCHANGED <<now, currentPeriod, period, due, left, eligible, aborted, closed, restarts>>

\* A faulty resolve: a worker that did not answer is dropped.
NotResolved_Dropped(d) == Unknown

\* No document yet: the worker stays pending, if there is a next round.
NotResolved(d) == IF InRound(d) THEN [Unknown EXCEPT !.pc = "pending"] ELSE Unknown

\* tryFetchDiscoveryUri is answered.  A document without its worker section makes
\* onResolved throw, which rejects the discovery; the other fetches go on, also
\* when the discovery they belong to is over.
Fetched(s) ==
    /\ entry[s].pc = "fetch"
    /\ \/ /\ \E e \in Started(s[2]) \cup {NotResolved(s[2])} :
                 entry' = [entry EXCEPT ![s] = e]
          /\ UNCHANGED <<now, loop, health, restarts>>
       \/ LET bad == [entry EXCEPT ![s] = [Unknown EXCEPT !.pc = "bad"]]
          IN  IF InRound(s[2])
              THEN Await(bad)
              ELSE /\ entry' = bad
                   /\ UNCHANGED <<now, loop, health, restarts>>

OfTask(status) == {s \in Sessions : s[2] = period /\ entry[s].pc = status}

\* A faulty round: it takes up every eligible worker.
Batch_All == {<<w, period>> : w \in eligible}

\* Array.from(pending)
Batch == OfTask("pending")

\* Every fetch of the round was answered.
RoundOver ==
    /\ pc = "discover"
    /\ OfTask("fetch") = {}
    /\ IF OfTask("pending") = {}
       THEN Await(entry)
       ELSE /\ pc' = "pause"
            /\ due' = now + RETRY_INTERVAL
            /\ UNCHANGED <<now, currentPeriod, period, abortAt, left, eligible,
                           entry, health, restarts>>

NextRound == /\ pc = "pause"
             /\ Slept(due)
             /\ pc' = "discover"
             /\ entry' = Fetching(Batch)
             /\ UNCHANGED <<now, currentPeriod, period, due, abortAt, left, eligible,
                            health, restarts>>

\* The timer of resolveWorkers: fetches and the pause reject.
AbortDiscovery ==
    /\ pc \in {"discover", "pause"}
    /\ now >= abortAt
    /\ Await([s \in Sessions |-> IF s \in OfTask("fetch") THEN Unknown ELSE entry[s]])

-----------------------------------------------------------------------------
(* Waiting for the sessions.                                               *)

AwaitedRunning == \E s \in awaited : Running(entry[s])

\* A faulty test of the promise's state: the abort is for sessions that are over.
MayAbortHealth_Settled == /\ pc = "health"
                          /\ period \notin aborted
                          /\ now >= abortAt
                          /\ ~AwaitedRunning

MayAbortHealth == /\ pc = "health"
                  /\ period \notin aborted
                  /\ now >= abortAt
                  /\ AwaitedRunning

\* The timer of runPeriodTasks: the sessions stop and post what they have.  A
\* check in flight counts as a failure.
AbortHealth ==
    /\ MayAbortHealth
    /\ aborted' = aborted \cup {period}
    /\ entry' = [s \in Sessions |->
                    IF s[2] # period THEN entry[s]
                    ELSE CASE entry[s].pc = "wait"  -> Finish(entry[s], period)
                           [] entry[s].pc = "check" -> Finish(Sampled(entry[s]), period)
                           [] OTHER -> entry[s]]
    /\ UNCHANGED <<now, loop, awaited, closed, restarts>>

\* waitForAll is over, and the manager closes its agent.
CloseManager ==
    /\ pc = "health"
    /\ ~AwaitedRunning
    /\ pc' = "closing"
    /\ awaited' = {}
    /\ closed' = closed \cup {period}
    /\ UNCHANGED <<now, currentPeriod, period, due, abortAt, left, eligible,
                   entry, aborted, restarts>>

\* Requests of the day's agent are under way.
Requests == OfTask("check") \cup OfTask("post")

\* The agent closes once no request of its own is under way.
ManagerClosed == /\ pc = "closing"
                 /\ Requests = {}
                 /\ pc' = "check"
                 /\ UNCHANGED <<now, currentPeriod, period, due, abortAt, left, eligible,
                                entry, health, restarts>>

-----------------------------------------------------------------------------

Loop == \/ Check \/ DelayOver \/ Wake
        \/ ReadState \/ ListAccounts
        \/ RoundOver \/ NextRound \/ AbortDiscovery
        \/ AbortHealth \/ CloseManager \/ ManagerClosed

Session(s) == Fetched(s) \/ CheckDone(s) \/ NextCheck(s) \/ PostDone(s)

\* The session ends its sleep, or its post, when it is due.
OnTimer(s) == \/ entry[s].pc = "wait"
              \/ entry[s].pc = "post" /\ s[1] \notin Trickling

\* Nothing is due in this tick.
Quiet ==
    /\ pc # "check"
    /\ pc \in {"settle", "retry", "sleep", "pause"} => now < due
    /\ pc = "discover" => now < abortAt /\ OfTask("fetch") # {}
    /\ pc = "pause" => now < abortAt
    /\ pc = "health" => AwaitedRunning /\ ~MayAbortHealth
    /\ pc = "closing" => Requests # {}
    /\ \A s \in Sessions : OnTimer(s) => now < entry[s].due

Tick == /\ now < LastTick
        /\ Quiet
        /\ now' = now + 1
        /\ UNCHANGED <<loop, entry, health, restarts>>

Next == \/ Tick
        \/ Exit \/ Start
        \/ Loop
        \/ \E s \in Sessions : Session(s)

\* Timers fire, calls to the chain and to workers that do not trickle are answered
\* or fail, and time goes on.  Trickling workers, crashes and operators owe nothing.
Fairness == /\ WF_vars(Tick)
            /\ WF_vars(Loop)
            /\ \A s \in Sessions : WF_vars(NextCheck(s))
            /\ \A s \in (Workers \ Trickling) \X Days : WF_vars(Session(s))

Spec == Init /\ [][Next]_vars /\ Fairness

-----------------------------------------------------------------------------
(* Properties.                                                             *)

\* No document of the day made onResolved throw.
DocumentsUsable(d) == \A w \in Workers : entry[<<w, d>>].pc # "bad"

\* When the manager closes its agent every session of the day is over: none is
\* left to count the closed agent as failures of its worker.  It takes usable
\* documents, because a discovery that was rejected goes on starting sessions.
SessionsAwaited ==
    \A s \in Sessions : s[2] \in closed /\ DocumentsUsable(s[2]) => ~Running(entry[s])

\* The two abort timers leave a proof the time to be posted on its own day, at a
\* worker that answers in full.
PostsInTime ==
    \A s \in Sessions :
        entry[s].pc = "post" /\ s[1] \notin Trickling /\ DocumentsUsable(s[2])
        => now < End(s[2])

\* The discovery gives a worker up only in the last hour of the day: before, the
\* health phase begins with a session for each eligible worker.
EligibleMeasured ==
    /\ pc = "health"
    /\ now < End(period) - PERIOD_SKIP_THRESHOLD
    /\ DocumentsUsable(period)
    => \A w \in eligible : entry[<<w, period>>].pc \in {"wait", "check", "post", "ended"}

\* However late a session starts and however long its checks take, none is begun
\* in the last half hour of its day or later.
ChecksStopEarly ==
    [][\A s \in Sessions : entry[s].pc # "check" /\ entry'[s].pc = "check"
          => now <= End(s[2]) - MIN_EARLY]_vars

\* Retried tasks and repeated rounds never measure a worker twice on a day.
MeasuredOnce ==
    [][\A s \in Sessions : entry[s].pc # "fetch" /\ entry'[s].pc = "fetch"
          => entry[s].pc \in {"none", "pending"}]_vars

\* The request that keeps a session, and whoever waits for it, as long as its
\* worker likes: a post, or a check on a day whose abort timer may be gone.
Held(s) == \/ entry[s].pc = "post"
           \/ entry[s].pc = "check" /\ ~DocumentsUsable(s[2])

HeldForEver(d) == \E w \in Trickling : <>[]Held(<<w, d>>)

\* Retries, rounds and sessions do not go on for ever: a task that never ends is
\* one that waits for a worker that never ends its answer, and for a request that
\* no timer can abort.
TasksEnd ==
    \A d \in 1..(MaxDay - 1) : <>[](pc \in Busy /\ period = d) => HeldForEver(d)

\* While it runs, the node turns to every day, or to a later one, unless such a
\* worker keeps it on an earlier day.
DaysPickedUp ==
    \A d \in Days : \/ (Today = d /\ pc # "down") ~> (currentPeriod >= d \/ pc = "down")
                    \/ \E e \in 1..(d - 1) : HeldForEver(e)
=============================================================================
