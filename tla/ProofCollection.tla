---------------------------- MODULE ProofCollection ----------------------------
(***************************************************************************)
(* How proofs get from the checkers into a worker's bucket, and from there *)
(* into the aggregated proof: the checkers' sessions post a proof with     *)
(* timeouts and retries, the worker handles the posts concurrently with    *)
(* awaits between its steps, the bucket has no conditional write, and the  *)
(* aggregation reads it page by page and object by object.                 *)
(*                                                                         *)
(* A proof is identified by the session that measured it: a checker that   *)
(* is restarted, or runs twice, has several sessions for one licence and   *)
(* day, with different measurements.                                       *)
(***************************************************************************)
EXTENDS Naturals, FiniteSets

CONSTANTS Checkers,     \* checker licences, by the index a proof is stored under
          MaxRuns,      \* bound: sessions of a licence
          MaxSessions,  \* bound: sessions altogether
          MaxPeriod,    \* bound: the last day the clock reaches
          MaxRetries,   \* maxRetries of buildAndSendSignedProof (5 in the code)
          None          \* no object

ASSUME CollectionAssumption == /\ IsFiniteSet(Checkers)
                               /\ MaxRuns \in Nat
                               /\ MaxSessions \in Nat
                               /\ MaxPeriod \in Nat \ {0}
                               /\ MaxRetries \in Nat \ {0}
                               /\ None \notin Nat

VARIABLES clock,     \* getCurrentPeriod(), at the checkers and at the worker
          session,   \* the sessions' buildAndSendSignedProof
          request,   \* the posts and their handlers
          objects,   \* the bucket: the run whose proof is stored, by day and licence
          listing    \* listProofsByPeriod on behalf of the aggregation

vars == <<clock, session, request, objects, listing>>

Days     == 1..MaxPeriod
Runs     == 1..MaxRuns
Sessions == Checkers \X Runs
Attempts == 1..MaxRetries
Requests == Sessions \X Attempts

\* 200, and every answer that makes the checker's attempt throw: it does not
\* tell "the proof is stored already" from any other 400.
Replies == {"ok", "refused"}

TypeOK ==
    /\ clock \in Days
    /\ session \in [Sessions -> [pc : {"idle", "waiting", "backoff", "done", "failed"},
                                 period : 0..MaxPeriod, attempt : Attempts]]
    /\ request \in [Requests -> [pc : {"none", "sent", "head", "put"} \cup Replies,
                                 arrived : 0..MaxPeriod, late : BOOLEAN]]
    /\ objects \in [Days \X Checkers -> Runs \cup {None}]
    /\ listing \in [pc : {"idle", "reading"}, period : 0..MaxPeriod,
                    left : SUBSET Checkers, keys : SUBSET Checkers,
                    got : SUBSET Checkers, owed : SUBSET Checkers]

Init == /\ clock = 1
        /\ session = [s \in Sessions |-> [pc |-> "idle", period |-> 0, attempt |-> 1]]
        /\ request = [r \in Requests |-> [pc |-> "none", arrived |-> 0, late |-> FALSE]]
        /\ objects = [k \in Days \X Checkers |-> None]
        /\ listing = [pc |-> "idle", period |-> 0, left |-> {}, keys |-> {},
                      got |-> {}, owed |-> {}]

AdvancePeriod == /\ clock < MaxPeriod
                 /\ clock' = clock + 1
                 /\ UNCHANGED <<session, request, objects, listing>>

-----------------------------------------------------------------------------
(* The checker.                                                            *)

\* The object a session's proof is stored as.
Key(s) == <<session[s].period, s[1]>>

\* A session that measured the worker on day p, today or before, signs its proof
\* and posts it.  The runs of a licence are numbered in the order they do so.
StartSession(s, p) ==
    /\ session[s].pc = "idle"
    /\ \A n \in 1..(s[2] - 1) : session[<<s[1], n>>].pc # "idle"
    /\ Cardinality({t \in Sessions : session[t].pc # "idle"}) < MaxSessions
    /\ p <= clock
    /\ session' = [session EXCEPT ![s].pc = "waiting", ![s].period = p]
    /\ request' = [request EXCEPT ![<<s, 1>>].pc = "sent"]
    /\ UNCHANGED <<clock, objects, listing>>

\* A faulty bound: one attempt too many.
RetriesLeft_OneMore(s) == session[s].attempt <= MaxRetries

RetriesLeft(s) == session[s].attempt < MaxRetries

\* An attempt threw: withRetry backs off or gives up.
AttemptFails(s) ==
    session' = IF RetriesLeft(s)
               THEN [session EXCEPT ![s].pc = "backoff", ![s].attempt = @ + 1]
               ELSE [session EXCEPT ![s].pc = "failed"]

\* The answer arrives: 200 ends the session, anything else is an error to retry.
Receive(s) ==
    LET reply == request[<<s, session[s].attempt>>].pc
    IN  /\ session[s].pc = "waiting"
        /\ reply \in Replies
        /\ \/ reply = "ok" /\ session' = [session EXCEPT ![s].pc = "done"]
           \/ reply # "ok" /\ AttemptFails(s)
        /\ UNCHANGED <<clock, request, objects, listing>>

\* The connection fails, or headersTimeout is over: the checker stops waiting,
\* which the worker does not notice.
Timeout(s) ==
    /\ session[s].pc = "waiting"
    /\ AttemptFails(s)
    /\ UNCHANGED <<clock, request, objects, listing>>

Resend(s) ==
    /\ session[s].pc = "backoff"
    /\ session' = [session EXCEPT ![s].pc = "waiting"]
    /\ request' = [request EXCEPT ![<<s, session[s].attempt>>].pc = "sent"]
    /\ UNCHANGED <<clock, objects, listing>>

Send(s) == Receive(s) \/ Timeout(s) \/ Resend(s)

-----------------------------------------------------------------------------
(* The worker's handler of POST /proof.  A post that is lost, or whose      *)
(* handler dies with its process, is one that takes no further step.        *)

Stored(s) == objects[Key(s)] # None

\* The proof is for the day on which its request arrives.
PeriodValid(s) == session[s].period = clock

\* The handler's answer; what it noted on the way is forgotten.
Reply(s, a, pc) ==
    request' = [request EXCEPT ![<<s, a>>] = [pc |-> pc, arrived |-> 0, late |-> FALSE]]

\* The handler reads the day and checks the proof, the licence and the delegate;
\* what it asks the chain for may be refused or fail.
Arrive(s, a) ==
    /\ request[<<s, a>>].pc = "sent"
    /\ \/ /\ PeriodValid(s)
          /\ request' = [request EXCEPT ![<<s, a>>] =
                            [pc |-> "head", arrived |-> clock, late |-> Stored(s)]]
       \/ Reply(s, a, "refused")
    /\ UNCHANGED <<clock, session, objects, listing>>

\* A faulty storeProof: it does not look.
Absent_Unchecked(s) == TRUE

\* HeadObject does not find the object.
Absent(s) == ~Stored(s)

\* storeProof asks for the object first.  An object that exists and a failure to
\* ask are refusals.
HeadObject(s, a) ==
    /\ request[<<s, a>>].pc = "head"
    /\ \/ /\ Absent(s)
          /\ request' = [request EXCEPT ![<<s, a>>].pc = "put"]
       \/ Reply(s, a, "refused")
    /\ UNCHANGED <<clock, session, objects, listing>>

\* A faulty storeProof: it answers without waiting for the write.
Write_NotAwaited(s) == UNCHANGED objects

Write(s) == objects' = [objects EXCEPT ![Key(s)] = s[2]]

\* ... and writes it.  A failed write may have been carried out all the same.
PutObject(s, a) ==
    /\ request[<<s, a>>].pc = "put"
    /\ \/ /\ Write(s)
          /\ Reply(s, a, "ok")
       \/ /\ \/ Write(s)
             \/ UNCHANGED objects
          /\ Reply(s, a, "refused")
    /\ UNCHANGED <<clock, session, listing>>

Handle(s, a) == Arrive(s, a) \/ HeadObject(s, a) \/ PutObject(s, a)

-----------------------------------------------------------------------------
(* listProofsByPeriod.                                                     *)

\* The licences with a session that holds a receipt of day p.
Receipted(p) == {c \in Checkers : \E n \in Runs : /\ session[<<c, n>>].pc = "done"
                                                  /\ session[<<c, n>>].period = p}

StartListing(p) ==
    /\ listing.pc = "idle"
    /\ p <= clock
    /\ listing' = [listing EXCEPT !.pc = "reading", !.period = p, !.left = Checkers,
                                  !.owed = Receipted(p)]
    /\ UNCHANGED <<clock, session, request, objects>>

\* A faulty pagination: one page only.
AfterPage_FirstOnly(page) == {}

\* What the continuation token leaves to list.
AfterPage(page) == listing.left \ page

\* ListObjectsV2: the next page of keys, once the objects of the last are read.
ListPage(page) ==
    /\ listing.pc = "reading"
    /\ listing.keys = {}
    /\ page # {}
    /\ page \subseteq listing.left
    /\ listing' = [listing EXCEPT !.left = AfterPage(page),
                                  !.keys = {c \in page : objects[<<listing.period, c>>] # None}]
    /\ UNCHANGED <<clock, session, request, objects>>

\* GetObject of a key of the page, or a failure that discards everything.
GetObject(c) ==
    /\ listing.pc = "reading"
    /\ c \in listing.keys
    /\ \/ listing' = [listing EXCEPT !.keys = @ \ {c}, !.got = @ \cup {c}]
       \/ listing' = [pc |-> "idle", period |-> 0, left |-> {}, keys |-> {},
                      got |-> {}, owed |-> {}]
    /\ UNCHANGED <<clock, session, request, objects>>

\* The aggregation has read the whole day.
Listed == listing.pc = "reading" /\ listing.left = {} /\ listing.keys = {}

List == \/ \E p \in Days : StartListing(p)
        \/ \E page \in SUBSET Checkers : ListPage(page)
        \/ \E c \in Checkers : GetObject(c)

-----------------------------------------------------------------------------

Next == \/ AdvancePeriod
        \/ \E s \in Sessions, p \in Days : StartSession(s, p)
        \/ \E s \in Sessions : Send(s)
        \/ \E s \in Sessions, a \in Attempts : Handle(s, a)
        \/ List

Spec == Init /\ [][Next]_vars

-----------------------------------------------------------------------------
(* Properties.                                                             *)

\* A checker that holds a receipt has its day's proof in the bucket, whichever
\* of its posts was answered, lost or handled after the checker gave up on it.
ReceiptsAreStored ==
    \A s \in Sessions : session[s].pc = "done" => Stored(s)

\* The aggregation finds the proof of every licence that held a receipt when the
\* listing began, although proofs arrive while it reads.
ReceiptsAggregated ==
    Listed => listing.owed \subseteq listing.got

\* The bucket changes only by a post that arrived on the day of its proof, and
\* what is stored is replaced only by a post already being handled when it was
\* stored.
WritesAreTimely ==
    [][\A d \in Days, c \in Checkers : objects'[<<d, c>>] # objects[<<d, c>>] =>
         \E n \in Runs, a \in Attempts :
             LET r == request[<<<<c, n>>, a>>]
             IN  /\ r.pc = "put"
                 /\ r.arrived = d
                 /\ objects[<<d, c>>] # None => ~r.late]_vars

\* What the error proof_already_exists says: at most one proof of a licence is
\* accepted per day.
OneReceiptPerDay ==
    \A s, t \in Sessions :
        /\ session[s].pc = "done" /\ session[t].pc = "done"
        /\ Key(s) = Key(t)
        => s = t
=============================================================================
