--------------------------- MODULE PublishOutbox ---------------------------
(***************************************************************************)
(* Publication of ledger revisions through the SQLite outbox.  Workers run  *)
(* publish_revision (store the artifacts, enqueue, process) and             *)
(* process_publish_outbox (claim what is due, hand each claim to the wiki,  *)
(* mark it).  Claiming and marking are transactions of their own; a worker  *)
(* may die between any two steps, the wiki may fail, or accept a revision   *)
(* and lose the answer.                                                     *)
(*                                                                          *)
(* Time is kept relative, which makes it unbounded in a finite model: a row *)
(* holds `wait`, the time left until next_attempt_at (0: due), and `age`,   *)
(* the time since created_at, counted up to WARNING_AFTER.  All workers     *)
(* read one clock.                                                          *)
(***************************************************************************)
EXTENDS Integers, Sequences, FiniteSets

CONSTANTS
  Revisions, Workers,
  RETRY_DELAYS,        \* backoff by attempt, the last one repeating
  WARNING_AFTER,       \* age at which a pending row is warned about
  MaxCrashes,          \* bound on worker crashes
  None

ASSUME OutboxAssumption ==
  /\ RETRY_DELAYS \in Seq(Nat \ {0}) /\ Len(RETRY_DELAYS) > 0
  /\ WARNING_AFTER \in Nat \ {0} /\ MaxCrashes \in Nat
  /\ None \notin Revisions /\ IsFiniteSet(Revisions)

VARIABLES
  stored,              \* revisions whose artifacts are in the store
  outbox,              \* wiki_publish rows, by revision (the UNIQUE key)
  warnings,            \* revisions with a buzz_warning row
  pages,               \* revisions the wiki shows
  sinkUp,              \* whether the wiki answers
  pc, job, claims,     \* a worker's step, its revision in hand, its claims left
  crashes

vars == <<stored, outbox, warnings, pages, sinkUp, pc, job, claims, crashes>>
worker == <<pc, job, claims>>

PENDING == "PUBLISH_PENDING"
PUBLISHED == "PUBLISHED"
Longest == Len(RETRY_DELAYS)
DelayBound == UNION {0..RETRY_DELAYS[i] : i \in 1..Longest}

Row == [id : Nat, status : {PENDING, PUBLISHED}, attempts : 0..Longest,
        wait : DelayBound, age : 0..WARNING_AFTER]
Claim == [rev : Revisions, lease : DelayBound]
ASSUME NoneAssumption == None \notin Row

Steps == {"idle", "enqueue", "process", "publish", "mark"}

HasRow(r) == outbox[r] # None
Pending(r) == HasRow(r) /\ outbox[r].status = PENDING

Init ==
  /\ stored = {} /\ outbox = [r \in Revisions |-> None]
  /\ warnings = {} /\ pages = {} /\ sinkUp = TRUE
  /\ pc = [w \in Workers |-> "idle"] /\ job = [w \in Workers |-> None]
  /\ claims = [w \in Workers |-> {}]
  /\ crashes = 0
-----------------------------------------------------------------------------
(* publish_revision *)

\* The two artifacts are stored before the outbox row exists.
StoreArtifacts(w, r) ==
  /\ pc[w] = "idle"
  /\ stored' = stored \union {r}
  /\ pc' = [pc EXCEPT ![w] = "enqueue"] /\ job' = [job EXCEPT ![w] = r]
  /\ UNCHANGED <<outbox, warnings, pages, sinkUp, claims, crashes>>

NewRow == [id |-> Cardinality({r \in Revisions : HasRow(r)}) + 1, status |-> PENDING,
           attempts |-> 0, wait |-> 0, age |-> 0]

\* Mutant: enqueuing again resets the row.
EnqueueReplaces(w) ==
  /\ pc[w] = "enqueue"
  /\ outbox' = [outbox EXCEPT ![job[w]] = NewRow]
  /\ pc' = [pc EXCEPT ![w] = "process"] /\ job' = [job EXCEPT ![w] = None]
  /\ UNCHANGED <<stored, warnings, pages, sinkUp, claims, crashes>>
\* enqueue_outbox; a duplicate key (IntegrityError) is passed over.
Enqueue(w) ==
  /\ pc[w] = "enqueue"
  /\ outbox' = IF HasRow(job[w]) THEN outbox ELSE [outbox EXCEPT ![job[w]] = NewRow]
  /\ pc' = [pc EXCEPT ![w] = "process"] /\ job' = [job EXCEPT ![w] = None]
  /\ UNCHANGED <<stored, warnings, pages, sinkUp, claims, crashes>>
-----------------------------------------------------------------------------
(* claim_outbox_due *)

\* Mutants: the schedule is not read; a row is given up after some attempts.
DueIgnoringSchedule(r) == Pending(r)
DueFewAttempts(r) == Pending(r) /\ outbox[r].wait = 0 /\ outbox[r].attempts < Longest
\* Pending, and its next_attempt_at has come.
Due(r) == Pending(r) /\ outbox[r].wait = 0

\* Mutants: published rows are warned about; only rows never attempted are.
LatePublishedToo(r) == HasRow(r) /\ outbox[r].age >= WARNING_AFTER /\ r \notin warnings
LateNeverAttempted(r) == Pending(r) /\ outbox[r].age >= WARNING_AFTER
                         /\ outbox[r].attempts = 0 /\ r \notin warnings
\* Rows at least WARNING_AFTER old without a warning row, claimed now or not.
Late(r) == Pending(r) /\ outbox[r].age >= WARNING_AFTER /\ r \notin warnings

\* _backoff, the attempt count saturating at the last delay.
Attempt(row) == IF row.attempts < Longest THEN row.attempts + 1 ELSE Longest
Backoff(row) == RETRY_DELAYS[Attempt(row)]

\* One transaction: every due row is claimed, every late row is warned about.
\* A worker claims after its own enqueue or when the scheduler calls it; with
\* nothing due or late a scheduled call changes nothing.
ClaimDue(w) ==
  LET due == {r \in Revisions : Due(r)}
      late == {r \in Revisions : Late(r)}
  IN /\ pc[w] = "process" \/ (pc[w] = "idle" /\ due \union late # {})
     /\ outbox' = [r \in Revisions |->
          IF r \in due THEN [outbox[r] EXCEPT !.attempts = Attempt(outbox[r]),
                                              !.wait = Backoff(outbox[r])]
                       ELSE outbox[r]]
     /\ warnings' = warnings \union late
     /\ claims' = [claims EXCEPT ![w] =
          {[rev |-> r, lease |-> Backoff(outbox[r])] : r \in due}]
     /\ pc' = [pc EXCEPT ![w] = IF due = {} THEN "idle" ELSE "publish"]
     /\ UNCHANGED <<stored, pages, sinkUp, job, crashes>>
-----------------------------------------------------------------------------
(* process_publish_outbox, one claim after the other in outbox_id order *)

NextClaim(w) ==
  CHOOSE c \in claims[w] : \A d \in claims[w] : outbox[c.rev].id <= outbox[d.rev].id

AfterClaim(w, c) ==
  /\ claims' = [claims EXCEPT ![w] = @ \ {c}]
  /\ pc' = [pc EXCEPT ![w] = IF claims[w] = {c} THEN "idle" ELSE "publish"]

\* Mutant: the claim is marked without having been sent.
PublishOkUnsent(w) ==
  /\ pc[w] = "publish" /\ sinkUp
  /\ pc' = [pc EXCEPT ![w] = "mark"] /\ job' = [job EXCEPT ![w] = NextClaim(w).rev]
  /\ UNCHANGED <<stored, outbox, warnings, pages, sinkUp, claims, crashes>>
\* The wiki shows the revision (again: same id, same page) and answers.
PublishOk(w) ==
  /\ pc[w] = "publish" /\ sinkUp
  /\ pages' = pages \union {NextClaim(w).rev}
  /\ pc' = [pc EXCEPT ![w] = "mark"] /\ job' = [job EXCEPT ![w] = NextClaim(w).rev]
  /\ UNCHANGED <<stored, outbox, warnings, sinkUp, claims, crashes>>

\* sink.publish raises, with the revision shown or not: on to the next claim.
PublishRaises(w) ==
  /\ pc[w] = "publish" /\ ~sinkUp
  /\ \E shown \in SUBSET {NextClaim(w).rev} : pages' = pages \union shown
  /\ AfterClaim(w, NextClaim(w))
  /\ UNCHANGED <<stored, outbox, warnings, sinkUp, job, crashes>>

\* mark_outbox_published: a row another worker has marked stays as it is.
Mark(w) ==
  /\ pc[w] = "mark"
  /\ outbox' = [outbox EXCEPT ![job[w]].status = PUBLISHED]
  /\ AfterClaim(w, NextClaim(w))
  /\ job' = [job EXCEPT ![w] = None]
  /\ UNCHANGED <<stored, warnings, pages, sinkUp, crashes>>
-----------------------------------------------------------------------------
(* Environment *)

\* The worker's process dies: what it holds in memory is gone.
Crash(w) ==
  /\ pc[w] # "idle" /\ crashes < MaxCrashes
  /\ crashes' = crashes + 1
  /\ pc' = [pc EXCEPT ![w] = "idle"] /\ job' = [job EXCEPT ![w] = None]
  /\ claims' = [claims EXCEPT ![w] = {}]
  /\ UNCHANGED <<stored, outbox, warnings, pages, sinkUp>>

\* The wiki goes down or comes back (external).
SinkChanges == sinkUp' = ~sinkUp
  /\ UNCHANGED <<stored, outbox, warnings, pages, worker, crashes>>

\* One unit less of a time that is left.
Less(n) == IF n > 0 THEN n - 1 ELSE 0

\* Time passes (external) for every row and every lease a worker holds.
Tick ==
  /\ outbox' = [r \in Revisions |-> IF HasRow(r)
       THEN [outbox[r] EXCEPT !.wait = Less(@),
                              !.age = IF @ < WARNING_AFTER THEN @ + 1 ELSE @]
       ELSE None]
  /\ claims' = [w \in Workers |-> {[c EXCEPT !.lease = Less(@)] : c \in claims[w]}]
  /\ UNCHANGED <<stored, warnings, pages, sinkUp, pc, job, crashes>>

WorkerStep(w) ==
  Enqueue(w) \/ ClaimDue(w) \/ PublishOk(w) \/ PublishRaises(w) \/ Mark(w)

Next ==
  \/ \E w \in Workers, r \in Revisions : StoreArtifacts(w, r)
  \/ \E w \in Workers : Enqueue(w)
  \/ \E w \in Workers : ClaimDue(w)
  \/ \E w \in Workers : PublishOk(w)
  \/ \E w \in Workers : PublishRaises(w)
  \/ \E w \in Workers : Mark(w)
  \/ \E w \in Workers : Crash(w)
  \/ SinkChanges
  \/ Tick

Spec == Init /\ [][Next]_vars

\* The scheduler keeps calling process_publish_outbox, a call runs to its end
\* unless its process dies, and time passes.  Nothing is assumed of publish_
\* revision's callers, of the wiki or of crashes.
FairSpec == Spec /\ WF_vars(Tick) /\ \A w \in Workers : WF_vars(WorkerStep(w))
-----------------------------------------------------------------------------
(* Properties *)

\* Every variable stays in its domain.
TypeOK ==
  /\ stored \subseteq Revisions /\ warnings \subseteq Revisions /\ pages \subseteq Revisions
  /\ outbox \in [Revisions -> Row \union {None}]
  /\ sinkUp \in BOOLEAN
  /\ pc \in [Workers -> Steps] /\ job \in [Workers -> Revisions \union {None}]
  /\ claims \in [Workers -> SUBSET Claim] /\ crashes \in 0..MaxCrashes

\* A row says PUBLISHED only if the wiki shows the page and the artifacts it
\* was rendered from are stored, across crashes, lost answers and two workers.
PublishedIsVisible ==
  \A r \in Revisions :
    (HasRow(r) /\ outbox[r].status = PUBLISHED) => (r \in pages /\ r \in stored)

\* The backoff written by a claim works as a lease: two workers hold the same
\* row only if the time of the earlier claim has run out.
LeaseExclusion ==
  \A v, w \in Workers : v # w =>
    \A c \in claims[v], d \in claims[w] : c.rev = d.rev => c.lease = 0 \/ d.lease = 0

\* A row in a worker's hands is never waiting for less than that worker's lease:
\* no other transaction shortens or forgets the schedule a claim was given.
LeaseIsScheduled ==
  \A w \in Workers : \A c \in claims[w] :
    HasRow(c.rev) /\ (outbox[c.rev].status = PUBLISHED \/ outbox[c.rev].wait >= c.lease)

\* A warning is written only about a row that was still pending a day after it
\* was created, and by then the row had been due for a first attempt.
WarnedLate ==
  [][\A r \in warnings' \ warnings :
       /\ Pending(r) /\ outbox[r].age >= WARNING_AFTER
       /\ outbox'[r].attempts > 0]_vars

Published(r) == HasRow(r) /\ outbox[r].status = PUBLISHED

\* Once the wiki stays up every enqueued revision is published, however often
\* it failed before and wherever workers died.
EventuallyPublished ==
  <>[]sinkUp => \A r \in Revisions : Pending(r) ~> Published(r)

\* A row still pending after a day is warned about or published, even with the
\* wiki down for good.
EventuallyWarned ==
  \A r \in Revisions :
    (Pending(r) /\ outbox[r].age >= WARNING_AFTER) ~> (r \in warnings \/ Published(r))

Wiki == INSTANCE Publication WITH
  asked <- {r \in Revisions : HasRow(r)},
  visible <- pages,
  acknowledged <- {r \in Revisions : HasRow(r) /\ outbox[r].status = PUBLISHED}

\* The outbox implements exactly-once visible publication.
ImplementsPublication == Wiki!PubSpec
=============================================================================
