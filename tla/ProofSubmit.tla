------------------------------ MODULE ProofSubmit ------------------------------
(***************************************************************************)
(* The worker's ProofSubmitService: a loop that, once per day, aggregates  *)
(* the proofs stored in S3 and submits them to the program, with retries,  *)
(* over an RPC connection that may fail, hang or lose answers, in a        *)
(* process that may be restarted.                                          *)
(*                                                                         *)
(* The chain is reduced to what it answers such a transaction: the proof   *)
(* accounts by day (the set bits of a proof are the checkers selected), and *)
(* the guards of SubmitWorkerProof that depend on the day.  The worker and *)
(* the chain read the same clock.                                          *)
(***************************************************************************)
EXTENDS Naturals

CONSTANTS MaxPeriod,    \* bound: the last day the clock reaches
          Checkers,     \* the checkers that store proofs at the worker
          Drawn(_, _),  \* whether BRAND draws a checker for the worker on a day
          MaxRetries,   \* maxRetries of runPeriodTasks (5 in the code)
          MaxRestarts,  \* bound: shutdowns and crashes
          Faults,       \* whether S3 and RPC calls may fail or hang
          None          \* no proof account

ASSUME SubmitAssumption == /\ MaxPeriod \in Nat \ {0}
                           /\ MaxRetries \in Nat \ {0}
                           /\ MaxRestarts \in Nat
                           /\ Faults \in BOOLEAN
                           /\ \A S \in SUBSET Checkers : S # None
                           /\ \A c \in Checkers, d \in 1..MaxPeriod : Drawn(c, d) \in BOOLEAN

VARIABLES clock,        \* getCurrentPeriod()
          stored,       \* the S3 objects of each day, by checker
          onChain,      \* WorkerProof of each day
          isRunning,    \* ProofSubmitService.isRunning
          currentPeriod,  \* ProofSubmitService.currentPeriod
          period,       \* runLoop's local variable
          attempt,      \* withRetry's attempt
          proof,        \* the aggregated proof about to be submitted
          pc,           \* where the loop is
          reported,     \* history: the days reported as submitted
          restarts      \* how often the process went down

loop == <<isRunning, currentPeriod, period, attempt, proof>>
vars == <<clock, stored, onChain, loop, pc, reported, restarts>>

Days == 1..MaxPeriod

\* Places where the loop has a day's task to finish.
Busy == {"settle", "attempt", "send", "backoff", "wait"}

TypeOK == /\ clock \in Days
          /\ stored \in [Days -> SUBSET Checkers]
          /\ onChain \in [Days -> {None} \cup SUBSET Checkers]
          /\ isRunning \in BOOLEAN
          /\ currentPeriod \in 0..MaxPeriod
          /\ period \in 0..MaxPeriod
          /\ attempt \in 1..MaxRetries
          /\ proof \in SUBSET Checkers
          /\ pc \in Busy \cup {"check", "sleep", "stopped"}
          /\ reported \subseteq Days
          /\ restarts \in 0..MaxRestarts

Init == /\ clock = 1
        /\ stored = [d \in Days |-> {}]
        /\ onChain = [d \in Days |-> None]
        /\ isRunning = TRUE
        /\ currentPeriod = 0
        /\ period = 0
        /\ attempt = 1
        /\ proof = {}
        /\ pc = "check"
        /\ reported = {}
        /\ restarts = 0

-----------------------------------------------------------------------------
(* The environment.                                                        *)

\* The loop is on time: it wakes up seconds after midnight, the delay after it
\* ends minutes after, a backoff and the pause between tasks are shorter than a
\* day, so that one midnight may pass in them but not another, and calls that
\* cannot hang take no day.
OnTime == \/ pc \in {"check", "settle"}
          \/ pc = "sleep" /\ currentPeriod # clock
          \/ pc \in {"backoff", "wait"} /\ clock > period
          \/ ~Faults /\ pc \in {"attempt", "send"}

AdvancePeriod == /\ clock < MaxPeriod
                 /\ ~OnTime
                 /\ clock' = clock + 1
                 /\ UNCHANGED <<stored, onChain, loop, pc, reported, restarts>>

\* The HTTP handler stores a proof of the day on which the request arrived,
\* which may be over by then.
StoreProof(c, d) == /\ d \in {clock - 1, clock}
                    /\ c \notin stored[d]
                    /\ stored' = [stored EXCEPT ![d] = @ \cup {c}]
                    /\ UNCHANGED <<clock, onChain, loop, pc, reported, restarts>>

\* stop(), called on a signal just before the process exits.
Stop == /\ restarts < MaxRestarts
        /\ isRunning
        /\ isRunning' = FALSE
        /\ UNCHANGED <<clock, stored, onChain, currentPeriod, period, attempt, proof, pc, reported, restarts>>

\* The process dies, or exits after stop(), and is started again.
Restart == /\ restarts < MaxRestarts
           /\ restarts' = restarts + 1
           /\ isRunning' = TRUE
           /\ currentPeriod' = 0
           /\ period' = 0
           /\ attempt' = 1
           /\ proof' = {}
           /\ pc' = "check"
           /\ UNCHANGED <<clock, stored, onChain, reported>>

-----------------------------------------------------------------------------
(* runLoop and withRetry.                                                  *)

\* The top of the loop: a new day starts a task, at once or, when more than
\* 23h50m of the day are left, after a random delay.
Check ==
    /\ pc = "check"
    /\ \/ /\ ~isRunning
          /\ pc' = "stopped"
          /\ UNCHANGED <<currentPeriod, period, attempt>>
       \/ /\ isRunning /\ clock # currentPeriod
          /\ currentPeriod' = clock
          /\ period' = clock
          /\ attempt' = 1
          /\ pc' \in {"settle", "attempt"}
       \/ /\ isRunning /\ clock = currentPeriod
          /\ pc' = "sleep"
          /\ UNCHANGED <<currentPeriod, period, attempt>>
    /\ UNCHANGED <<clock, stored, onChain, isRunning, proof, reported, restarts>>

\* A delay is over: the random one, the backoff, the minute after a failure.
DelayOver == /\ pc \in {"settle", "backoff", "wait"}
             /\ pc' = "attempt"
             /\ UNCHANGED <<clock, stored, onChain, loop, reported, restarts>>

\* A faulty catch: the task is never given up.
GiveUp_Never == "wait"

\* runLoop's catch: the task is given up when its day is over.
GiveUp == IF period = clock THEN "wait" ELSE "sleep"

\* A faulty count: one attempt too many.
RetriesLeft_OneMore == attempt <= MaxRetries

RetriesLeft == attempt < MaxRetries

\* An attempt threw: withRetry backs off or rethrows.
AttemptFails == \/ /\ RetriesLeft
                   /\ attempt' = attempt + 1
                   /\ pc' = "backoff"
                \/ /\ ~RetriesLeft
                   /\ attempt' = 1
                   /\ pc' = GiveUp

\* A faulty aggregation: the proofs of today, whatever the task's day.
listProofsByPeriod_Today == stored[clock]

listProofsByPeriod == stored[period]

\* The bits of the proof: checkers that are drawn and have stored something.  The
\* proofs of others are stored and listed too, but set no bit.
Bitmap(listed) == {c \in listed : Drawn(c, period)}

\* An attempt starts: getAggregatedProof reads S3.  An empty listing ends the task,
\* an empty bitmap does not; an error is retried, except the one thrown once the
\* service was stopped.
Aggregate ==
    /\ pc = "attempt"
    /\ \/ /\ ~isRunning
          /\ attempt' = 1
          /\ pc' = GiveUp
          /\ UNCHANGED proof
       \/ /\ isRunning
          /\ listProofsByPeriod = {}
          /\ pc' = "sleep"
          /\ UNCHANGED <<attempt, proof>>
       \/ /\ isRunning
          /\ listProofsByPeriod # {}
          /\ proof' = Bitmap(listProofsByPeriod)
          /\ pc' = "send"
          /\ UNCHANGED attempt
       \/ /\ isRunning /\ Faults
          /\ AttemptFails
          /\ UNCHANGED proof
    /\ UNCHANGED <<clock, stored, onChain, isRunning, currentPeriod, period, reported, restarts>>

\* A faulty program: any day may be submitted.
PreviousDay_Unchecked == TRUE

\* The program's guard on the day.
PreviousDay == period = clock - 1

\* The transaction creates the proof account, or fails and changes nothing.
Execute == onChain' = IF PreviousDay /\ onChain[period] = None
                      THEN [onChain EXCEPT ![period] = proof]
                      ELSE onChain

\* A faulty catch: every rejection counts as done.
Done_OnAnyAnswer == TRUE

\* The transaction succeeded, or failed because the account exists already.
Done == PreviousDay

\* The answer is an error, and does not say AccountAlreadyInitialized; whether
\* it does when the account exists is up to the RPC library's error texts.
Rejected == ~PreviousDay \/ onChain[period] # None

\* submitProof.  The answer may be lost after the transaction was executed, and
\* the transaction may be lost before.
Submit ==
    /\ pc = "send"
    /\ \/ /\ Execute
          /\ Done
          /\ reported' = reported \cup {period}
          /\ pc' = "sleep"
          /\ UNCHANGED attempt
       \/ /\ Execute
          /\ Rejected
          /\ AttemptFails
          /\ UNCHANGED reported
       \/ /\ Faults
          /\ Execute
          /\ AttemptFails
          /\ UNCHANGED reported
       \/ /\ Faults
          /\ AttemptFails
          /\ UNCHANGED <<onChain, reported>>
    /\ proof' = {}
    /\ UNCHANGED <<clock, stored, isRunning, currentPeriod, period, restarts>>

\* The sleep until the next day is over, or its timer ran ahead of the clock.
Wake == /\ pc = "sleep"
        /\ pc' = "check"
        /\ UNCHANGED <<clock, stored, onChain, loop, reported, restarts>>

Loop == Check \/ DelayOver \/ Aggregate \/ Submit \/ Wake

Next == \/ AdvancePeriod
        \/ \E c \in Checkers, d \in Days : StoreProof(c, d)
        \/ Stop
        \/ Restart
        \/ Loop

\* The event loop runs every continuation that is due, and days end whatever
\* the service does.  Checkers, signals and crashes owe nothing.
Fairness == WF_vars(Loop) /\ SF_vars(AdvancePeriod)

Spec == Init /\ [][Next]_vars /\ Fairness

-----------------------------------------------------------------------------
(* Properties.                                                             *)

\* A proof that reaches the chain does so on the day after its own, from a loop
\* that has not noticed that the day is over: only a retry that crosses
\* midnight lands.
OnlyLateRetriesLand ==
    [][\A d \in Days : onChain[d] = None /\ onChain'[d] # None =>
          /\ clock = d + 1
          /\ currentPeriod = d
          /\ period = d]_vars

\* Every checker a proof on chain selects has stored its proof for that very day.
SelectedHaveStored ==
    \A d \in Days : onChain[d] # None => onChain[d] \subseteq stored[d]

\* What the service reports as submitted is on chain, whatever was retried,
\* lost or executed without an answer.
ReportedIsOnChain == \A d \in reported : onChain[d] # None

\* No day's task outlives its day for ever: retries end once the day is over.
TasksEnd ==
    \A d \in 1..(MaxPeriod - 1) : (pc \in Busy /\ period = d) ~> ~(pc \in Busy /\ period = d)

\* While it runs, the service turns to every day before it ends or to a later one.
DaysPickedUp ==
    \A d \in Days : (clock = d /\ isRunning) ~> (currentPeriod >= d \/ ~isRunning)

\* A worker whose service and connections work gets the proofs that checkers store
\* on a day onto the chain, the day itself and the one after it being there for it.
ProofsReachTheChain ==
    \A d \in 1..(MaxPeriod - 1) : (clock = d /\ stored[d] # {}) ~> onChain[d] # None
=============================================================================
