--------------------------- MODULE ProofSubmitProofs ---------------------------
(***************************************************************************)
(* Proofs about ProofSubmit, for every number of days, checkers, drawing,  *)
(* attempts and restarts, with faults and without: what the service        *)
(* reports is on chain, what a proof selects was stored on its day, and    *)
(* only retries that cross midnight land.                                  *)
(*                                                                         *)
(* None of this follows from the properties alone.  A report is true       *)
(* because Done and Execute ask the same question in one step, which needs *)
(* the day of the task to be a day; what is sent was stored because        *)
(* objects are never deleted between the aggregation and the submission;   *)
(* and the task at hand is that of currentPeriod, the two variables being  *)
(* set together.                                                           *)
(***************************************************************************)
EXTENDS ProofSubmit, Integers, TLAPS

\* The task at hand is the one of the service's current day, and a day that began.
TaskOfDay == /\ period = currentPeriod
             /\ period <= clock
             /\ pc \in Busy => period \in Days

\* What is about to be sent was read from the bucket.
SentIsStored == pc = "send" => proof \subseteq stored[period]

IInv == /\ TypeOK
        /\ TaskOfDay
        /\ SentIsStored
        /\ SelectedHaveStored
        /\ ReportedIsOnChain

-----------------------------------------------------------------------------

LEMMA DayFacts == /\ MaxPeriod \in Nat \ {0}
                  /\ MaxRetries \in Nat \ {0}
                  /\ MaxRestarts \in Nat
                  /\ Days \subseteq Nat \ {0}
                  /\ 1 \in Days
BY SubmitAssumption DEF Days

LEMMA InitIInv == Init => IInv
<1>. SUFFICES ASSUME Init PROVE IInv
  OBVIOUS
<1>. USE DayFacts DEF Init
<1>1. TypeOK
  BY DEF TypeOK, Busy
<1>2. TaskOfDay
  BY DEF TaskOfDay, Busy
<1>3. SentIsStored
  BY DEF SentIsStored
<1>4. SelectedHaveStored /\ ReportedIsOnChain
  BY DEF SelectedHaveStored, ReportedIsOnChain
<1>. QED
  BY <1>1, <1>2, <1>3, <1>4 DEF IInv

\* withRetry after an error: the attempt stays in range, the task its own.
LEMMA AttemptFailsType ==
  ASSUME TypeOK, pc \in Busy, AttemptFails
  PROVE  /\ attempt' \in 1..MaxRetries
         /\ pc' \in {"backoff", "wait", "sleep"}
BY DayFacts DEF TypeOK, AttemptFails, RetriesLeft, GiveUp

\* A transaction creates the account of its day, with what was sent, or nothing.
LEMMA ExecuteResult ==
  ASSUME IInv, pc = "send", Execute
  PROVE  /\ onChain' \in [Days -> {None} \cup SUBSET Checkers]
         /\ \A d \in Days : onChain'[d] # onChain[d] =>
               /\ d = period
               /\ PreviousDay
               /\ onChain[d] = None
               /\ onChain'[d] = proof
         /\ PreviousDay => onChain'[period] # None
<1>1. period \in Days
  BY DEF IInv, TaskOfDay, Busy
<1>2. proof \in SUBSET Checkers /\ proof # None
  BY SubmitAssumption DEF IInv, TypeOK
<1>3. onChain \in [Days -> {None} \cup SUBSET Checkers]
  BY DEF IInv, TypeOK
<1>. QED
  BY <1>1, <1>2, <1>3 DEF Execute

-----------------------------------------------------------------------------

LEMMA NextTypeOK == IInv /\ [Next]_vars => TypeOK'
<1>. SUFFICES ASSUME IInv, [Next]_vars PROVE TypeOK'
  OBVIOUS
<1>. USE DayFacts DEF loop
<1>0. TypeOK
  BY DEF IInv
<1>1. CASE AdvancePeriod
  BY <1>0, <1>1 DEF AdvancePeriod, TypeOK, Days
<1>2. ASSUME NEW c \in Checkers, NEW d \in Days, StoreProof(c, d)
      PROVE  TypeOK'
  BY <1>0, <1>2 DEF StoreProof, TypeOK
<1>3. CASE Stop
  BY <1>0, <1>3 DEF Stop, TypeOK
<1>4. CASE Restart
  BY <1>0, <1>4 DEF Restart, TypeOK
<1>5. CASE Check
  BY <1>0, <1>5 DEF Check, TypeOK, Busy, Days
<1>6. CASE DelayOver
  BY <1>0, <1>6 DEF DelayOver, TypeOK, Busy
<1>7. CASE Aggregate
  <2>1. /\ attempt' \in 1..MaxRetries
        /\ pc' \in Busy \cup {"check", "sleep", "stopped"}
    BY <1>0, <1>7, AttemptFailsType DEF Aggregate, GiveUp, TypeOK, Busy
  <2>2. proof' \in SUBSET Checkers
    <3>1. CASE UNCHANGED proof
      BY <1>0, <3>1 DEF TypeOK
    <3>2. CASE proof' = Bitmap(stored[period]) /\ pc = "attempt"
      <4>1. period \in Days
        BY <3>2 DEF IInv, TaskOfDay, Busy
      <4>2. stored[period] \subseteq Checkers
        BY <1>0, <4>1 DEF TypeOK
      <4>. QED
        BY <3>2, <4>2 DEF Bitmap
    <3>. QED
      BY <1>7, <3>1, <3>2 DEF Aggregate, listProofsByPeriod
  <2>. QED
    BY <1>0, <1>7, <2>1, <2>2 DEF Aggregate, TypeOK
<1>8. CASE Submit
  <2>1. /\ attempt' \in 1..MaxRetries
        /\ pc' \in Busy \cup {"check", "sleep", "stopped"}
    BY <1>0, <1>8, AttemptFailsType DEF Submit, TypeOK, Busy
  <2>2. onChain' \in [Days -> {None} \cup SUBSET Checkers]
    BY <1>0, <1>8, ExecuteResult DEF Submit, TypeOK
  <2>3. reported' \subseteq Days
    BY <1>0, <1>8 DEF Submit, TypeOK, IInv, TaskOfDay, Busy
  <2>. QED
    BY <1>0, <1>8, <2>1, <2>2, <2>3 DEF Submit, TypeOK
<1>9. CASE Wake
  BY <1>0, <1>9 DEF Wake, TypeOK
<1>10. CASE UNCHANGED vars
  BY <1>0, <1>10 DEF vars, TypeOK
<1>. QED
  BY <1>1, <1>2, <1>3, <1>4, <1>5, <1>6, <1>7, <1>8, <1>9, <1>10 DEF Next, Loop

\* The loop's position and task.
LEMMA NextTaskOfDay == IInv /\ [Next]_vars => TaskOfDay'
<1>. SUFFICES ASSUME IInv, [Next]_vars PROVE TaskOfDay'
  OBVIOUS
<1>. USE DayFacts DEF loop, Busy
<1>0. TypeOK /\ TaskOfDay
  BY DEF IInv
<1>1. CASE AdvancePeriod
  BY <1>0, <1>1 DEF AdvancePeriod, TypeOK, TaskOfDay, Days
<1>2. ASSUME NEW c \in Checkers, NEW d \in Days, StoreProof(c, d)
      PROVE  TaskOfDay'
  BY <1>0, <1>2 DEF StoreProof, TaskOfDay
<1>3. CASE Stop
  BY <1>0, <1>3 DEF Stop, TaskOfDay
<1>4. CASE Restart
  BY <1>0, <1>4 DEF Restart, TypeOK, TaskOfDay, Days
<1>5. CASE Check
  BY <1>0, <1>5 DEF Check, TypeOK, TaskOfDay, Days
<1>6. CASE DelayOver
  BY <1>0, <1>6 DEF DelayOver, TaskOfDay
<1>7. CASE Aggregate
  BY <1>0, <1>7 DEF Aggregate, TaskOfDay
<1>8. CASE Submit
  BY <1>0, <1>8 DEF Submit, TaskOfDay
<1>9. CASE Wake
  BY <1>0, <1>9 DEF Wake, TaskOfDay
<1>10. CASE UNCHANGED vars
  BY <1>0, <1>10 DEF vars, TaskOfDay
<1>. QED
  BY <1>1, <1>2, <1>3, <1>4, <1>5, <1>6, <1>7, <1>8, <1>9, <1>10 DEF Next, Loop

\* The bucket only grows.
LEMMA StoredGrows ==
  ASSUME TypeOK, [Next]_vars
  PROVE  \A d \in Days : stored[d] \subseteq stored'[d]
<1>1. CASE UNCHANGED stored
  BY <1>1
<1>2. ASSUME NEW c \in Checkers, NEW d \in Days, StoreProof(c, d)
      PROVE  \A e \in Days : stored[e] \subseteq stored'[e]
  BY <1>2 DEF StoreProof, TypeOK
<1>. QED
  BY <1>1, <1>2 DEF Next, Loop, AdvancePeriod, Stop, Restart, Check, DelayOver,
                    Aggregate, Submit, Wake, vars

LEMMA NextSentIsStored == IInv /\ [Next]_vars => SentIsStored'
<1>. SUFFICES ASSUME IInv, [Next]_vars, pc' = "send"
              PROVE  proof' \subseteq stored'[period']
  BY DEF SentIsStored
<1>0. /\ TypeOK
      /\ pc \in Busy => period \in Days
      /\ pc = "send" => proof \subseteq stored[period]
  BY DEF IInv, TaskOfDay, SentIsStored
<1>1. CASE pc = "send" /\ UNCHANGED <<period, proof>>
  BY <1>0, <1>1, StoredGrows DEF Busy
<1>2. CASE Aggregate
  <2>1. proof' = Bitmap(stored[period]) /\ period' = period /\ stored' = stored
    BY <1>2 DEF Aggregate, listProofsByPeriod, GiveUp, AttemptFails
  <2>. QED
    BY <2>1 DEF Bitmap
<1>3. \/ pc = "send" /\ UNCHANGED <<period, proof>>
      \/ Aggregate
  BY DEF Next, Loop, AdvancePeriod, StoreProof, Stop, Restart, Check, DelayOver, Submit,
         AttemptFails, GiveUp, Wake, vars, loop
<1>. QED
  BY <1>1, <1>2, <1>3

\* Only Submit touches the chain and the reports.
LEMMA NextChain ==
  ASSUME IInv, [Next]_vars
  PROVE  /\ \A d \in Days : onChain'[d] # onChain[d] =>
               /\ pc = "send" /\ d = period /\ PreviousDay
               /\ onChain[d] = None /\ onChain'[d] = proof
         /\ \A d \in reported' : d \in reported \/ onChain'[d] # None
<1>1. CASE UNCHANGED <<onChain, reported>>
  BY <1>1
<1>2. CASE Submit
  <2>1. pc = "send"
    BY <1>2 DEF Submit
  <2>2. \/ Execute /\ Done /\ reported' = reported \cup {period}
        \/ Execute /\ reported' = reported
        \/ UNCHANGED <<onChain, reported>>
    BY <1>2 DEF Submit
  <2>. QED
    BY <2>1, <2>2, ExecuteResult DEF Done
<1>. QED
  BY <1>1, <1>2 DEF Next, Loop, AdvancePeriod, StoreProof, Stop, Restart, Check, DelayOver,
                    Aggregate, Wake, vars

LEMMA NextSelected == IInv /\ [Next]_vars => SelectedHaveStored' /\ ReportedIsOnChain'
<1>. SUFFICES ASSUME IInv, [Next]_vars PROVE SelectedHaveStored' /\ ReportedIsOnChain'
  OBVIOUS
<1>0. TypeOK /\ SentIsStored /\ SelectedHaveStored /\ ReportedIsOnChain
  BY DEF IInv
<1>1. ASSUME NEW d \in Days, onChain'[d] # None
      PROVE  onChain'[d] \subseteq stored'[d]
  <2>1. onChain'[d] \subseteq stored[d]
    BY <1>0, <1>1, NextChain DEF SentIsStored, SelectedHaveStored
  <2>. QED
    BY <1>0, <2>1, StoredGrows
<1>2. ASSUME NEW d \in reported'
      PROVE  onChain'[d] # None
  <2>1. CASE d \in reported
    <3>1. d \in Days /\ onChain[d] # None
      BY <1>0, <2>1 DEF TypeOK, ReportedIsOnChain
    <3>. QED
      BY <3>1, NextChain
  <2>. QED
    BY <1>2, <2>1, NextChain
<1>. QED
  BY <1>1, <1>2 DEF SelectedHaveStored, ReportedIsOnChain

LEMMA NextIInv == IInv /\ [Next]_vars => IInv'
BY NextTypeOK, NextTaskOfDay, NextSentIsStored, NextSelected DEF IInv

-----------------------------------------------------------------------------

(***************************************************************************)
(* The inductive invariant holds in every reachable state.                 *)
(***************************************************************************)
THEOREM SubmitInvariant == Spec => []IInv
BY InitIInv, NextIInv, PTL DEF Spec

(***************************************************************************)
(* Every variable keeps its type: retries stay within their number, tasks  *)
(* within the days.                                                        *)
(***************************************************************************)
THEOREM TypeCorrect == Spec => []TypeOK
<1>1. IInv => TypeOK
  BY DEF IInv
<1>. QED
  BY <1>1, SubmitInvariant, PTL

(***************************************************************************)
(* What submitProof reports is on chain, whatever was retried, lost or     *)
(* executed without an answer, and however often the process restarts.     *)
(***************************************************************************)
THEOREM ReportedIsOnChainHolds == Spec => []ReportedIsOnChain
<1>1. IInv => ReportedIsOnChain
  BY DEF IInv
<1>. QED
  BY <1>1, SubmitInvariant, PTL

(***************************************************************************)
(* Every checker that a proof on chain selects stored its proof that day.  *)
(***************************************************************************)
THEOREM SelectedHaveStoredHolds == Spec => []SelectedHaveStored
<1>1. IInv => SelectedHaveStored
  BY DEF IInv
<1>. QED
  BY <1>1, SubmitInvariant, PTL

(***************************************************************************)
(* A proof reaches the chain on the day after its own only, from the       *)
(* retries of a task that began before midnight.                           *)
(***************************************************************************)
THEOREM OnlyLateRetriesLandHolds == Spec => OnlyLateRetriesLand
<1>. DEFINE Late == \A d \in Days : onChain[d] = None /\ onChain'[d] # None =>
                       /\ clock = d + 1
                       /\ currentPeriod = d
                       /\ period = d
<1>1. IInv /\ [Next]_vars => [Late]_vars
  <2>. SUFFICES ASSUME IInv, [Next]_vars, NEW d \in Days,
                       onChain[d] = None, onChain'[d] # None
                PROVE  clock = d + 1 /\ currentPeriod = d /\ period = d
    OBVIOUS
  <2>1. d = period /\ period = clock - 1
    BY NextChain DEF PreviousDay
  <2>2. clock \in Nat /\ period = currentPeriod
    BY DayFacts DEF IInv, TypeOK, TaskOfDay
  <2>. QED
    BY <2>1, <2>2
<1>. QED
  BY <1>1, SubmitInvariant, PTL DEF Spec, OnlyLateRetriesLand
=============================================================================
