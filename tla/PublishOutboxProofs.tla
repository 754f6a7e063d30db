------------------------ MODULE PublishOutboxProofs ------------------------
(***************************************************************************)
(* Proofs about PublishOutbox, for any revisions, workers, backoff sequence *)
(* and number of crashes.  IInv adds to the properties what a worker holds  *)
(* between two transactions: a worker that is about to enqueue has stored   *)
(* its artifacts, one that is about to mark has shown its page, and every   *)
(* claim is of a row that exists.                                           *)
(***************************************************************************)
EXTENDS PublishOutbox, FiniteSetTheorems, WellFoundedInduction, TLAPS

\* What a worker's step promises of its revision in hand and its claims.
HeldOK ==
  \A w \in Workers :
    /\ pc[w] \in {"enqueue", "mark"} => job[w] \in Revisions
    /\ pc[w] = "enqueue" => job[w] \in stored
    /\ pc[w] = "mark" => HasRow(job[w]) /\ job[w] \in pages
    /\ pc[w] \in {"publish", "mark"} => claims[w] # {}

\* A row is only there when its artifacts are, a page only when its row is.
StoredFirst ==
  /\ \A r \in Revisions : HasRow(r) => r \in stored
  /\ \A r \in pages : HasRow(r)

\* A row that was never claimed is due.
UntriedIsDue ==
  \A r \in Revisions : HasRow(r) /\ outbox[r].attempts = 0 => outbox[r].wait = 0

IInv ==
  /\ TypeOK /\ HeldOK /\ StoredFirst /\ UntriedIsDue
  /\ PublishedIsVisible /\ LeaseIsScheduled /\ LeaseExclusion

USE OutboxAssumption, NoneAssumption DEF OutboxAssumption, NoneAssumption
-----------------------------------------------------------------------------
(* The durations *)

LEMMA DelayFacts ==
  /\ Longest \in Nat \ {0}
  /\ DelayBound \subseteq Nat /\ 0 \in DelayBound
  /\ \A i \in 1..Longest : RETRY_DELAYS[i] \in DelayBound /\ RETRY_DELAYS[i] > 0
  <1>1. Longest \in Nat \ {0} /\ \A i \in 1..Longest : RETRY_DELAYS[i] \in Nat \ {0}
    BY DEF Longest
  <1>2. \A i \in 1..Longest : 0..RETRY_DELAYS[i] \subseteq Nat
    BY <1>1
  <1> QED BY <1>1, <1>2 DEF DelayBound

LEMMA LessFacts ==
  ASSUME NEW n \in DelayBound
  PROVE  /\ Less(n) \in DelayBound /\ Less(n) <= n
         /\ \A m \in DelayBound : n <= m => Less(n) <= Less(m)
  <1>1. PICK i \in 1..Longest : n \in 0..RETRY_DELAYS[i]
    BY DEF DelayBound
  <1>2. RETRY_DELAYS[i] \in Nat /\ n \in Nat
    BY <1>1, DelayFacts
  <1>3. Less(n) \in 0..RETRY_DELAYS[i] /\ Less(n) <= n
    BY <1>1, <1>2 DEF Less
  <1>4. \A m \in DelayBound : n <= m => Less(n) <= Less(m)
    BY <1>2, DelayFacts DEF Less
  <1> QED BY <1>1, <1>3, <1>4 DEF DelayBound

\* A claim's backoff is one of the delays, and not zero.
LEMMA BackoffFacts ==
  ASSUME NEW row \in Row
  PROVE  /\ Attempt(row) \in 1..Longest
         /\ Backoff(row) \in DelayBound /\ Backoff(row) > 0
  <1>1. row.attempts \in 0..Longest
    BY DEF Row
  <1>2. Attempt(row) \in 1..Longest
    BY <1>1, DelayFacts DEF Attempt
  <1> QED BY <1>2, DelayFacts DEF Backoff

-----------------------------------------------------------------------------
(* The claim in hand *)

LEMMA NatOrder == OpToRel(<, Nat) = {ss \in Nat \X Nat : ss[1] < ss[2]}
  BY DEF OpToRel

LEMMA LeastExists ==
  ASSUME NEW S, S \subseteq Nat, S # {}
  PROVE  \E x \in S : \A y \in S : x <= y
  <1>1. PICK m \in S : \A x \in S : ~(<<x, m>> \in OpToRel(<, Nat))
    BY NatLessThanWellFounded, WFMin
  <1>2. \A x \in S : ~(<<x, m>> \in {ss \in Nat \X Nat : ss[1] < ss[2]})
    BY <1>1, NatOrder
  <1>3. \A x \in S : ~(x < m)
    BY <1>2
  <1> QED BY <1>3

\* A worker's claims are of rows that exist.
LEMMA ClaimedRow ==
  ASSUME TypeOK, LeaseIsScheduled, NEW w \in Workers, NEW c \in claims[w]
  PROVE  /\ c.rev \in Revisions /\ c.lease \in DelayBound
         /\ HasRow(c.rev) /\ outbox[c.rev] \in Row
  <1>1. c \in Claim
    BY DEF TypeOK
  <1>2. HasRow(c.rev)
    BY DEF LeaseIsScheduled
  <1> QED BY <1>1, <1>2 DEF TypeOK, Claim, HasRow

\* The claim with the least outbox_id exists: NextClaim is one of the claims.
LEMMA NextClaimHeld ==
  ASSUME TypeOK, LeaseIsScheduled, NEW w \in Workers, claims[w] # {}
  PROVE  NextClaim(w) \in claims[w]
  <1> DEFINE ids == {outbox[c.rev].id : c \in claims[w]}
  <1>1. \A c \in claims[w] : outbox[c.rev].id \in Nat
    BY ClaimedRow DEF Row
  <1>2. ids \subseteq Nat /\ ids # {}
    BY <1>1
  <1>3. PICK m \in ids : \A x \in ids : m <= x
    <2> HIDE DEF ids
    <2> QED BY <1>2, LeastExists
  <1>4. \E c \in claims[w] : \A d \in claims[w] : outbox[c.rev].id <= outbox[d.rev].id
    BY <1>3
  <1> QED BY <1>4 DEF NextClaim
-----------------------------------------------------------------------------
(* The invariant *)

LEMMA InitIInv == Init => IInv
  BY DEF Init, IInv, TypeOK, HeldOK, StoredFirst, UntriedIsDue, PublishedIsVisible,
         LeaseIsScheduled, LeaseExclusion, HasRow, Steps

LEMMA StoreArtifactsIInv ==
  ASSUME IInv, NEW w \in Workers, NEW r \in Revisions, StoreArtifacts(w, r)
  PROVE  IInv'
  <1> USE DEF IInv, StoreArtifacts
  <1>1. TypeOK'
    BY DEF TypeOK, Steps
  <1>2. HeldOK'
    BY DEF HeldOK, TypeOK, HasRow
  <1>3. StoredFirst' /\ UntriedIsDue'
    BY DEF StoredFirst, UntriedIsDue, HasRow
  <1>4. PublishedIsVisible' /\ LeaseIsScheduled' /\ LeaseExclusion'
    BY DEF PublishedIsVisible, LeaseIsScheduled, LeaseExclusion, HasRow
  <1> QED BY <1>1, <1>2, <1>3, <1>4

LEMMA NewRowInRow == TypeOK => NewRow \in Row /\ NewRow # None
  <1> SUFFICES ASSUME TypeOK PROVE NewRow \in Row
    OBVIOUS
  <1>1. Cardinality({r \in Revisions : HasRow(r)}) \in Nat
    BY FS_Subset, FS_CardinalityType
  <1> QED BY <1>1, DelayFacts DEF NewRow, Row, PENDING

LEMMA EnqueueIInv ==
  ASSUME IInv, NEW w \in Workers, Enqueue(w)
  PROVE  IInv'
  <1>1. job[w] \in Revisions /\ job[w] \in stored
    BY DEF IInv, HeldOK, Enqueue
  <1>2. outbox' \in [Revisions -> Row \union {None}]
    BY <1>1, NewRowInRow DEF IInv, TypeOK, Enqueue
  <1>3. /\ \A r \in Revisions : HasRow(r) => HasRow(r)' /\ outbox'[r] = outbox[r]
        /\ \A r \in Revisions : HasRow(r)' /\ ~HasRow(r) => r = job[w] /\ outbox'[r] = NewRow
    BY <1>1 DEF IInv, TypeOK, Enqueue, HasRow
  <1>4. TypeOK'
    BY <1>2 DEF IInv, TypeOK, Enqueue, Steps
  <1>5. HeldOK'
    BY <1>3 DEF IInv, TypeOK, HeldOK, Enqueue
  <1>6. StoredFirst'
    BY <1>1, <1>3 DEF IInv, TypeOK, StoredFirst, Enqueue
  <1>7. UntriedIsDue' /\ PublishedIsVisible'
    BY <1>3 DEF IInv, UntriedIsDue, PublishedIsVisible, Enqueue, NewRow, PENDING, PUBLISHED
  <1>8. LeaseIsScheduled'
    BY <1>3, ClaimedRow DEF IInv, LeaseIsScheduled, Enqueue
  <1>9. LeaseExclusion'
    BY DEF IInv, LeaseExclusion, Enqueue
  <1> QED BY <1>4, <1>5, <1>6, <1>7, <1>8, <1>9 DEF IInv

\* What claiming does to a row: a due one gets its next attempt and backoff.
LEMMA ClaimedRows ==
  ASSUME IInv, NEW w \in Workers, ClaimDue(w)
  PROVE  /\ outbox' \in [Revisions -> Row \union {None}]
         /\ \A r \in Revisions : HasRow(r)' <=> HasRow(r)
         /\ \A r \in Revisions : ~Due(r) => outbox'[r] = outbox[r]
         /\ \A r \in Revisions : Due(r) =>
              /\ outbox[r] \in Row /\ outbox[r].wait = 0 /\ outbox[r].status = PENDING
              /\ outbox'[r].status = PENDING
              /\ outbox'[r].wait = Backoff(outbox[r])
              /\ outbox'[r].attempts = Attempt(outbox[r])
  <1> DEFINE Next1(r) == [outbox[r] EXCEPT !.attempts = Attempt(outbox[r]),
                                           !.wait = Backoff(outbox[r])]
  <1>1. \A r \in Revisions : HasRow(r) => outbox[r] \in Row
    BY DEF IInv, TypeOK, HasRow
  <1>2. outbox' = [r \in Revisions |-> IF Due(r) THEN Next1(r) ELSE outbox[r]]
    BY DEF ClaimDue
  <1>3. \A r \in Revisions : Due(r) =>
          /\ outbox[r] \in Row /\ outbox[r].wait = 0 /\ outbox[r].status = PENDING
    BY <1>1 DEF Due, Pending
  <1>4. \A r \in Revisions : Due(r) =>
          /\ Next1(r) \in Row /\ Next1(r).status = PENDING
          /\ Next1(r).wait = Backoff(outbox[r]) /\ Next1(r).attempts = Attempt(outbox[r])
    <2> SUFFICES ASSUME NEW r \in Revisions, Due(r)
                 PROVE  /\ Next1(r) \in Row /\ Next1(r).status = PENDING
                        /\ Next1(r).wait = Backoff(outbox[r])
                        /\ Next1(r).attempts = Attempt(outbox[r])
      OBVIOUS
    <2>1. outbox[r] \in Row /\ outbox[r].status = PENDING
      BY <1>3
    <2>2. Attempt(outbox[r]) \in 0..Longest /\ Backoff(outbox[r]) \in DelayBound
      BY <2>1, BackoffFacts, DelayFacts
    <2> QED BY <2>1, <2>2 DEF Row
  <1>5. outbox' \in [Revisions -> Row \union {None}]
    <2> HIDE DEF Next1
    <2> QED BY <1>2, <1>4 DEF IInv, TypeOK
  <1>6. \A r \in Revisions : HasRow(r)' <=> HasRow(r)
    <2> HIDE DEF Next1
    <2> QED BY <1>2, <1>4 DEF HasRow, Due, Pending
  <1> HIDE DEF Next1
  <1> QED BY <1>2, <1>3, <1>4, <1>5, <1>6

LEMMA ClaimDueIInv ==
  ASSUME IInv, NEW w \in Workers, ClaimDue(w)
  PROVE  IInv'
  <1> DEFINE taken == {[rev |-> r, lease |-> Backoff(outbox[r])] : r \in {x \in Revisions : Due(x)}}
  <1>1. claims' = [claims EXCEPT ![w] = taken]
    BY DEF ClaimDue
  <1>2. \A c \in taken :
          /\ c \in Claim /\ Due(c.rev) /\ c.lease = Backoff(outbox[c.rev])
    <2> SUFFICES ASSUME NEW r \in Revisions, Due(r)
                 PROVE  [rev |-> r, lease |-> Backoff(outbox[r])] \in Claim
      OBVIOUS
    <2> QED BY ClaimedRows, BackoffFacts DEF Claim
  <1>3. {x \in Revisions : Due(x)} # {} => taken # {}
    OBVIOUS
  <1> HIDE DEF taken
  <1>4. TypeOK'
    <2>1. claims' \in [Workers -> SUBSET Claim]
      BY <1>1, <1>2 DEF IInv, TypeOK
    <2>2. pc' \in [Workers -> Steps] /\ warnings' \subseteq Revisions
      BY DEF ClaimDue, IInv, TypeOK, Steps
    <2> QED BY <2>1, <2>2, ClaimedRows DEF ClaimDue, IInv, TypeOK
  <1>5. HeldOK'
    <2>1. \A v \in Workers : v # w => pc'[v] = pc[v] /\ claims'[v] = claims[v]
      BY <1>1 DEF ClaimDue, IInv, TypeOK
    <2>2. pc'[w] \in {"idle", "publish"} /\ (pc'[w] = "publish" => claims'[w] # {})
      BY <1>1, <1>3 DEF ClaimDue, IInv, TypeOK
    <2>3. \A v \in Workers : pc[v] = "mark" => job[v] \in Revisions /\ HasRow(job[v])'
      BY ClaimedRows DEF ClaimDue, IInv, HeldOK, HasRow
    <2> QED BY <2>1, <2>2, <2>3 DEF ClaimDue, IInv, HeldOK
  <1>6. StoredFirst'
    BY ClaimedRows DEF ClaimDue, IInv, TypeOK, StoredFirst
  <1>7. UntriedIsDue'
    <2> SUFFICES ASSUME NEW r \in Revisions, HasRow(r)', outbox'[r].attempts = 0
                 PROVE  outbox'[r].wait = 0
      BY DEF UntriedIsDue
    <2>1. ~Due(r)
      BY ClaimedRows, BackoffFacts
    <2> QED BY <2>1, ClaimedRows DEF IInv, UntriedIsDue
  <1>8. PublishedIsVisible'
    <2> SUFFICES ASSUME NEW r \in Revisions, HasRow(r)', outbox'[r].status = PUBLISHED
                 PROVE  r \in pages /\ r \in stored
      BY DEF PublishedIsVisible, ClaimDue
    <2>1. ~Due(r)
      BY ClaimedRows DEF PENDING, PUBLISHED
    <2> QED BY <2>1, ClaimedRows DEF IInv, PublishedIsVisible
  <1>9. LeaseIsScheduled'
    <2> SUFFICES ASSUME NEW v \in Workers, NEW c \in claims'[v]
                 PROVE  /\ HasRow(c.rev)'
                        /\ outbox'[c.rev].status = PUBLISHED \/ outbox'[c.rev].wait >= c.lease
      BY DEF LeaseIsScheduled
    <2>1. CASE v = w
      <3>1. c \in Claim /\ Due(c.rev) /\ c.lease = Backoff(outbox[c.rev])
        BY <2>1, <1>1, <1>2 DEF IInv, TypeOK
      <3>2. c.rev \in Revisions /\ HasRow(c.rev)
        BY <3>1 DEF Claim, Due, Pending
      <3>3. outbox'[c.rev].wait = c.lease /\ c.lease \in Nat
        BY <3>1, <3>2, ClaimedRows, BackoffFacts, DelayFacts
      <3> QED BY <3>2, <3>3, ClaimedRows
    <2>2. CASE v # w
      <3>1. c \in claims[v]
        BY <2>2, <1>1 DEF IInv, TypeOK
      <3>2. c.rev \in Revisions /\ HasRow(c.rev) /\ c.lease \in Nat
        BY <3>1, ClaimedRow, DelayFacts DEF IInv
      <3>3. outbox[c.rev].status = PUBLISHED \/ outbox[c.rev].wait >= c.lease
        BY <3>1 DEF IInv, LeaseIsScheduled
      <3>4. CASE Due(c.rev)
        <4>1. outbox[c.rev].wait = 0 /\ outbox[c.rev].status # PUBLISHED
          BY <3>2, <3>4, ClaimedRows DEF PENDING, PUBLISHED
        <4>2. c.lease = 0
          BY <3>2, <3>3, <4>1
        <4>3. outbox'[c.rev].wait \in Nat
          BY <3>2, <3>4, ClaimedRows, BackoffFacts, DelayFacts
        <4> QED BY <3>2, <4>2, <4>3, ClaimedRows
      <3>5. CASE ~Due(c.rev)
        BY <3>2, <3>3, <3>5, ClaimedRows
      <3> QED BY <3>4, <3>5
    <2> QED BY <2>1, <2>2
  <1>10. LeaseExclusion'
    \* A new lease is of a due row, and a due row's other leases have run out.
    <2>1. \A v \in Workers : \A c \in claims[v] : Due(c.rev) => c.lease = 0
      <3> SUFFICES ASSUME NEW v \in Workers, NEW c \in claims[v], Due(c.rev)
                   PROVE  c.lease = 0
        OBVIOUS
      <3>1. c.rev \in Revisions /\ c.lease \in Nat
        BY ClaimedRow, DelayFacts DEF IInv
      <3>2. outbox[c.rev].wait = 0 /\ outbox[c.rev].status # PUBLISHED
        BY <3>1, ClaimedRows DEF PENDING, PUBLISHED
      <3> QED BY <3>1, <3>2 DEF IInv, LeaseIsScheduled
    <2>2. \A v \in Workers : v # w => claims'[v] = claims[v]
      BY <1>1 DEF IInv, TypeOK
    <2>3. \A d \in claims'[w] : Due(d.rev)
      BY <1>1, <1>2 DEF IInv, TypeOK
    <2>4. \A v \in Workers : v # w =>
            \A c \in claims'[v], d \in claims'[w] : c.rev = d.rev => c.lease = 0
      BY <2>1, <2>2, <2>3
    <2> QED BY <2>2, <2>4 DEF IInv, LeaseExclusion
  <1> QED BY <1>4, <1>5, <1>6, <1>7, <1>8, <1>9, <1>10 DEF IInv

\* A worker that drops a claim, and changes no row, keeps the leases.
LEMMA FewerClaims ==
  ASSUME IInv, NEW w \in Workers, NEW rest \in SUBSET claims[w],
         claims' = [claims EXCEPT ![w] = rest],
         \A r \in Revisions : HasRow(r) => HasRow(r)' /\ outbox'[r].wait = outbox[r].wait
                                /\ (outbox[r].status = PUBLISHED => outbox'[r].status = PUBLISHED)
  PROVE  /\ claims' \in [Workers -> SUBSET Claim]
         /\ LeaseIsScheduled' /\ LeaseExclusion'
  <1>1. \A v \in Workers : claims'[v] \subseteq claims[v]
    BY DEF IInv, TypeOK
  <1>2. LeaseIsScheduled'
    BY <1>1, ClaimedRow DEF IInv, LeaseIsScheduled
  <1>3. LeaseExclusion'
    BY <1>1 DEF IInv, LeaseExclusion
  <1> QED BY <1>1, <1>2, <1>3 DEF IInv, TypeOK

LEMMA PublishOkIInv ==
  ASSUME IInv, NEW w \in Workers, PublishOk(w)
  PROVE  IInv'
  <1> DEFINE c == NextClaim(w)
  <1>1. c \in claims[w]
    BY NextClaimHeld DEF IInv, HeldOK, PublishOk
  <1>2. c.rev \in Revisions /\ HasRow(c.rev)
    BY <1>1, ClaimedRow DEF IInv
  <1>3. pages' = pages \union {c.rev} /\ pc' = [pc EXCEPT ![w] = "mark"]
        /\ job' = [job EXCEPT ![w] = c.rev] /\ claims[w] # {}
    BY <1>1 DEF PublishOk
  <1> HIDE DEF c
  <1>4. TypeOK'
    BY <1>2, <1>3 DEF PublishOk, IInv, TypeOK, Steps
  <1>5. HeldOK'
    BY <1>2, <1>3 DEF PublishOk, IInv, TypeOK, HeldOK, HasRow
  <1>6. StoredFirst' /\ UntriedIsDue' /\ PublishedIsVisible'
    BY <1>2, <1>3 DEF PublishOk, IInv, StoredFirst, UntriedIsDue, PublishedIsVisible, HasRow
  <1>7. LeaseIsScheduled' /\ LeaseExclusion'
    BY DEF PublishOk, IInv, LeaseIsScheduled, LeaseExclusion, HasRow
  <1> QED BY <1>4, <1>5, <1>6, <1>7 DEF IInv

LEMMA PublishRaisesIInv ==
  ASSUME IInv, NEW w \in Workers, PublishRaises(w)
  PROVE  IInv'
  <1> DEFINE c == NextClaim(w)
  <1>1. c \in claims[w]
    BY NextClaimHeld DEF IInv, HeldOK, PublishRaises
  <1>2. c.rev \in Revisions /\ HasRow(c.rev)
    BY <1>1, ClaimedRow DEF IInv
  <1>3. /\ claims' = [claims EXCEPT ![w] = @ \ {c}]
        /\ pc' = [pc EXCEPT ![w] = IF claims[w] = {c} THEN "idle" ELSE "publish"]
        /\ pages \subseteq pages' /\ pages' \subseteq pages \union {c.rev}
    BY DEF PublishRaises, AfterClaim
  <1> HIDE DEF c
  <1>4. claims' = [claims EXCEPT ![w] = claims[w] \ {c}]
    BY <1>3
  <1>5. /\ claims' \in [Workers -> SUBSET Claim]
        /\ LeaseIsScheduled' /\ LeaseExclusion'
    <2>1. claims[w] \ {c} \in SUBSET claims[w]
      OBVIOUS
    <2>2. \A r \in Revisions : HasRow(r) => HasRow(r)' /\ outbox'[r].wait = outbox[r].wait
                         /\ (outbox[r].status = PUBLISHED => outbox'[r].status = PUBLISHED)
      BY DEF PublishRaises, HasRow
    <2> QED BY <1>4, <2>1, <2>2, FewerClaims
  <1>6. TypeOK'
    BY <1>2, <1>3, <1>5 DEF PublishRaises, IInv, TypeOK, Steps
  <1>7. HeldOK'
    BY <1>1, <1>3 DEF PublishRaises, IInv, TypeOK, HeldOK, HasRow
  <1>8. StoredFirst' /\ UntriedIsDue' /\ PublishedIsVisible'
    BY <1>2, <1>3 DEF PublishRaises, IInv, StoredFirst, UntriedIsDue, PublishedIsVisible, HasRow
  <1> QED BY <1>5, <1>6, <1>7, <1>8 DEF IInv

LEMMA MarkIInv ==
  ASSUME IInv, NEW w \in Workers, Mark(w)
  PROVE  IInv'
  <1> DEFINE c == NextClaim(w)
             q == job[w]
  <1>1. c \in claims[w]
    BY NextClaimHeld DEF IInv, HeldOK, Mark
  <1>2. q \in Revisions /\ HasRow(q) /\ q \in pages /\ q \in stored /\ outbox[q] \in Row
    BY DEF IInv, HeldOK, StoredFirst, TypeOK, HasRow, Mark
  <1>3. /\ claims' = [claims EXCEPT ![w] = claims[w] \ {c}]
        /\ pc' = [pc EXCEPT ![w] = IF claims[w] = {c} THEN "idle" ELSE "publish"]
        /\ job' = [job EXCEPT ![w] = None]
        /\ outbox' = [outbox EXCEPT ![q] = [outbox[q] EXCEPT !.status = PUBLISHED]]
    BY DEF Mark, AfterClaim
  <1>4. [outbox[q] EXCEPT !.status = PUBLISHED] \in Row
    BY <1>2 DEF Row
  <1> HIDE DEF c, q
  <1>5. outbox' \in [Revisions -> Row \union {None}]
    BY <1>3, <1>4 DEF IInv, TypeOK
  <1>6. \A r \in Revisions :
          /\ HasRow(r)' <=> HasRow(r)
          /\ r # q => outbox'[r] = outbox[r]
    BY <1>2, <1>3, <1>4 DEF IInv, TypeOK, HasRow
  <1>7. outbox'[q].status = PUBLISHED /\ outbox'[q].wait = outbox[q].wait
        /\ outbox'[q].attempts = outbox[q].attempts
    BY <1>2, <1>3 DEF IInv, TypeOK, Row
  <1>8. /\ claims' \in [Workers -> SUBSET Claim]
        /\ LeaseIsScheduled' /\ LeaseExclusion'
    <2>1. claims[w] \ {c} \in SUBSET claims[w]
      OBVIOUS
    <2>2. \A r \in Revisions : HasRow(r) => HasRow(r)' /\ outbox'[r].wait = outbox[r].wait
                         /\ (outbox[r].status = PUBLISHED => outbox'[r].status = PUBLISHED)
      BY <1>6, <1>7
    <2> QED BY <1>3, <2>1, <2>2, FewerClaims
  <1>9. TypeOK'
    BY <1>3, <1>5, <1>8 DEF Mark, IInv, TypeOK, Steps
  <1>10. HeldOK'
    <2>1. \A v \in Workers : v # w => pc'[v] = pc[v] /\ job'[v] = job[v] /\ claims'[v] = claims[v]
      BY <1>3 DEF IInv, TypeOK
    <2>2. pc'[w] \in {"idle", "publish"} /\ (pc'[w] = "publish" => claims'[w] # {})
      BY <1>1, <1>3 DEF IInv, TypeOK
    <2>3. \A r \in Revisions : HasRow(r) => outbox'[r] # None
      BY <1>6 DEF HasRow
    <2> QED BY <2>1, <2>2, <2>3 DEF Mark, IInv, HeldOK, HasRow
  <1>11. StoredFirst' /\ UntriedIsDue' /\ PublishedIsVisible'
    BY <1>2, <1>6, <1>7
       DEF Mark, IInv, TypeOK, StoredFirst, UntriedIsDue, PublishedIsVisible
  <1> QED BY <1>8, <1>9, <1>10, <1>11 DEF IInv

LEMMA CrashIInv ==
  ASSUME IInv, NEW w \in Workers, Crash(w)
  PROVE  IInv'
  <1>1. /\ claims' \in [Workers -> SUBSET Claim]
        /\ LeaseIsScheduled' /\ LeaseExclusion'
    <2>1. {} \in SUBSET claims[w] /\ claims' = [claims EXCEPT ![w] = {}]
      BY DEF Crash
    <2>2. \A r \in Revisions : HasRow(r) => HasRow(r)' /\ outbox'[r].wait = outbox[r].wait
                         /\ (outbox[r].status = PUBLISHED => outbox'[r].status = PUBLISHED)
      BY DEF Crash, HasRow
    <2> QED BY <2>1, <2>2, FewerClaims
  <1>2. TypeOK'
    BY <1>1 DEF Crash, IInv, TypeOK, Steps
  <1>3. HeldOK'
    BY DEF Crash, IInv, TypeOK, HeldOK, HasRow
  <1>4. StoredFirst' /\ UntriedIsDue' /\ PublishedIsVisible'
    BY DEF Crash, IInv, StoredFirst, UntriedIsDue, PublishedIsVisible, HasRow
  <1> QED BY <1>1, <1>2, <1>3, <1>4 DEF IInv

LEMMA SinkChangesIInv == IInv /\ SinkChanges => IInv'
  BY DEF SinkChanges, worker, IInv, TypeOK, HeldOK, StoredFirst, UntriedIsDue,
         PublishedIsVisible, LeaseIsScheduled, LeaseExclusion, HasRow

\* Time changes neither which rows there are nor their status, and takes as much
\* from a row's wait as from a lease on it.
LEMMA TickedRows ==
  ASSUME IInv, Tick
  PROVE  /\ outbox' \in [Revisions -> Row \union {None}]
         /\ \A r \in Revisions : HasRow(r)' <=> HasRow(r)
         /\ \A r \in Revisions : HasRow(r) =>
              /\ outbox'[r].status = outbox[r].status
              /\ outbox'[r].attempts = outbox[r].attempts
              /\ outbox'[r].wait = Less(outbox[r].wait)
  <1> DEFINE Aged(row) == [row EXCEPT !.wait = Less(@),
                                      !.age = IF @ < WARNING_AFTER THEN @ + 1 ELSE @]
  <1>1. outbox' = [r \in Revisions |-> IF HasRow(r) THEN Aged(outbox[r]) ELSE None]
    BY DEF Tick
  <1>2. \A row \in Row :
          /\ Aged(row) \in Row
          /\ Aged(row).status = row.status /\ Aged(row).attempts = row.attempts
          /\ Aged(row).wait = Less(row.wait)
    <2> SUFFICES ASSUME NEW row \in Row
                 PROVE  /\ Aged(row) \in Row
                        /\ Aged(row).status = row.status /\ Aged(row).attempts = row.attempts
                        /\ Aged(row).wait = Less(row.wait)
      OBVIOUS
    <2>1. row.wait \in DelayBound /\ row.age \in 0..WARNING_AFTER
      BY DEF Row
    <2>2. Less(row.wait) \in DelayBound
      BY <2>1, LessFacts
    <2>3. (IF row.age < WARNING_AFTER THEN row.age + 1 ELSE row.age) \in 0..WARNING_AFTER
      BY <2>1
    <2> QED BY <2>2, <2>3 DEF Row
  <1> HIDE DEF Aged
  <1>3. \A r \in Revisions : HasRow(r) => outbox[r] \in Row
    BY DEF IInv, TypeOK, HasRow
  <1> QED BY <1>1, <1>2, <1>3 DEF HasRow

LEMMA TickIInv == IInv /\ Tick => IInv'
  <1> SUFFICES ASSUME IInv, Tick PROVE IInv'
    OBVIOUS
  <1> DEFINE Later(c) == [c EXCEPT !.lease = Less(@)]
  <1>1. claims' = [w \in Workers |-> {Later(c) : c \in claims[w]}]
    BY DEF Tick
  <1>2. \A c \in Claim : Later(c) \in Claim /\ Later(c).rev = c.rev
                         /\ Later(c).lease = Less(c.lease)
    BY LessFacts DEF Claim
  <1> HIDE DEF Later
  <1>3. \A w \in Workers : claims[w] \subseteq Claim
    BY DEF IInv, TypeOK
  <1>4. TypeOK'
    <2>1. claims' \in [Workers -> SUBSET Claim]
      BY <1>1, <1>2, <1>3
    <2> QED BY <2>1, TickedRows DEF Tick, IInv, TypeOK
  <1>5. HeldOK'
    <2>1. \A w \in Workers : claims[w] # {} => claims'[w] # {}
      BY <1>1
    <2>2. \A w \in Workers : pc[w] = "mark" => HasRow(job[w])'
      BY TickedRows DEF Tick, IInv, HeldOK, HasRow
    <2> QED BY <2>1, <2>2 DEF Tick, IInv, HeldOK
  <1>6. StoredFirst' /\ PublishedIsVisible'
    BY TickedRows DEF Tick, IInv, TypeOK, StoredFirst, PublishedIsVisible
  <1>7. UntriedIsDue'
    BY TickedRows DEF IInv, UntriedIsDue, Less
  <1>8. LeaseIsScheduled'
    <2> SUFFICES ASSUME NEW w \in Workers, NEW d \in claims'[w]
                 PROVE  /\ HasRow(d.rev)'
                        /\ outbox'[d.rev].status = PUBLISHED \/ outbox'[d.rev].wait >= d.lease
      BY DEF LeaseIsScheduled
    <2>1. PICK c \in claims[w] : d = Later(c)
      BY <1>1
    <2>2. d.rev = c.rev /\ d.lease = Less(c.lease)
      BY <1>2, <1>3, <2>1
    <2>3. /\ c.rev \in Revisions /\ c.lease \in DelayBound
          /\ HasRow(c.rev) /\ outbox[c.rev].wait \in DelayBound
      BY ClaimedRow DEF IInv, Row
    <2>4. outbox[c.rev].status = PUBLISHED \/ outbox[c.rev].wait >= c.lease
      BY DEF IInv, LeaseIsScheduled
    <2>5. outbox[c.rev].wait >= c.lease => Less(outbox[c.rev].wait) >= Less(c.lease)
      BY <2>3, LessFacts, DelayFacts
    <2> QED BY <2>2, <2>3, <2>4, <2>5, TickedRows
  <1>9. LeaseExclusion'
    <2> SUFFICES ASSUME NEW v \in Workers, NEW w \in Workers, v # w,
                        NEW c1 \in claims'[v], NEW d1 \in claims'[w], c1.rev = d1.rev
                 PROVE  c1.lease = 0 \/ d1.lease = 0
      BY DEF LeaseExclusion
    <2>1. PICK c \in claims[v] : c1 = Later(c)
      BY <1>1
    <2>2. PICK d \in claims[w] : d1 = Later(d)
      BY <1>1
    <2>3. c.rev = d.rev /\ c1.lease = Less(c.lease) /\ d1.lease = Less(d.lease)
      BY <1>2, <1>3, <2>1, <2>2
    <2>4. c.lease = 0 \/ d.lease = 0
      BY <2>3 DEF IInv, LeaseExclusion
    <2> QED BY <2>3, <2>4 DEF Less
  <1> QED BY <1>4, <1>5, <1>6, <1>7, <1>8, <1>9 DEF IInv

LEMMA NextIInv == IInv /\ [Next]_vars => IInv'
  <1> SUFFICES ASSUME IInv, [Next]_vars PROVE IInv'
    OBVIOUS
  <1>1. ASSUME NEW w \in Workers, NEW r \in Revisions, StoreArtifacts(w, r) PROVE IInv'
    BY <1>1, StoreArtifactsIInv
  <1>2. ASSUME NEW w \in Workers, Enqueue(w) PROVE IInv'
    BY <1>2, EnqueueIInv
  <1>3. ASSUME NEW w \in Workers, ClaimDue(w) PROVE IInv'
    BY <1>3, ClaimDueIInv
  <1>4. ASSUME NEW w \in Workers, PublishOk(w) PROVE IInv'
    BY <1>4, PublishOkIInv
  <1>5. ASSUME NEW w \in Workers, PublishRaises(w) PROVE IInv'
    BY <1>5, PublishRaisesIInv
  <1>6. ASSUME NEW w \in Workers, Mark(w) PROVE IInv'
    BY <1>6, MarkIInv
  <1>7. ASSUME NEW w \in Workers, Crash(w) PROVE IInv'
    BY <1>7, CrashIInv
  <1>8. CASE SinkChanges
    BY <1>8, SinkChangesIInv
  <1>9. CASE Tick
    BY <1>9, TickIInv
  <1>10. CASE UNCHANGED vars
    BY <1>10 DEF vars, IInv, TypeOK, HeldOK, StoredFirst, UntriedIsDue, PublishedIsVisible,
                 LeaseIsScheduled, LeaseExclusion, HasRow
  <1> QED BY <1>1, <1>2, <1>3, <1>4, <1>5, <1>6, <1>7, <1>8, <1>9, <1>10 DEF Next

\* The outbox keeps its rows, leases and pages together, whatever the schedule
\* of workers, crashes, outages and lost answers.
THEOREM InductiveInvariant == Spec => []IInv
  BY InitIInv, NextIInv, PTL DEF Spec
-----------------------------------------------------------------------------
(* What follows from it *)

\* Every variable stays in its domain: ids, attempts, waits and ages are bounded.
THEOREM TypeCorrect == Spec => []TypeOK
  <1>1. IInv => TypeOK
    BY DEF IInv
  <1> QED BY <1>1, InductiveInvariant, PTL

\* mark_outbox_published never marks a revision the wiki does not show or whose
\* artifacts are missing.
THEOREM VisibleWhenPublished == Spec => []PublishedIsVisible
  <1>1. IInv => PublishedIsVisible
    BY DEF IInv
  <1> QED BY <1>1, InductiveInvariant, PTL

\* claim_outbox_due's backoff is a lease: no other transaction shortens it.
THEOREM LeaseKept == Spec => []LeaseIsScheduled
  <1>1. IInv => LeaseIsScheduled
    BY DEF IInv
  <1> QED BY <1>1, InductiveInvariant, PTL

\* Two workers never hold one row with both leases running.
THEOREM LeasesExclude == Spec => []LeaseExclusion
  <1>1. IInv => LeaseExclusion
    BY DEF IInv
  <1> QED BY <1>1, InductiveInvariant, PTL

\* A buzz warning is only ever written about a row still pending after a day, for
\* which a first attempt has been claimed.
THEOREM WarnedOnlyLate == Spec => WarnedLate
  <1> DEFINE WarnStep == \A r \in warnings' \ warnings :
       /\ Pending(r) /\ outbox[r].age >= WARNING_AFTER
       /\ outbox'[r].attempts > 0
  <1>1. IInv /\ [Next]_vars => [WarnStep]_vars
    <2> SUFFICES ASSUME IInv, Next, NEW r \in warnings' \ warnings
                 PROVE  /\ Pending(r) /\ outbox[r].age >= WARNING_AFTER
                        /\ outbox'[r].attempts > 0
      BY DEF vars
    <2>1. PICK w \in Workers : ClaimDue(w)
      BY DEF Next, StoreArtifacts, Enqueue, PublishOk, PublishRaises, Mark, Crash,
             SinkChanges, Tick
    <2>2. r \in Revisions /\ Late(r)
      BY <2>1 DEF ClaimDue
    <2>3. HasRow(r) /\ outbox[r] \in Row
      BY <2>2 DEF IInv, TypeOK, HasRow, Late, Pending
    <2>4. outbox'[r].attempts > 0
      <3>1. CASE Due(r)
        BY <2>1, <2>2, <3>1, ClaimedRows, BackoffFacts
      <3>2. CASE ~Due(r)
        <4>1. outbox'[r] = outbox[r] /\ outbox[r].wait # 0
          BY <2>1, <2>2, <3>2, ClaimedRows DEF Due, Late
        <4>2. outbox[r].attempts \in Nat
          BY <2>3, DelayFacts DEF Row
        <4> QED BY <2>2, <2>3, <4>1, <4>2 DEF IInv, UntriedIsDue
      <3> QED BY <3>1, <3>2
    <2> QED BY <2>2, <2>4 DEF Late
  <1> QED BY <1>1, InductiveInvariant, PTL DEF Spec, WarnedLate
-----------------------------------------------------------------------------
(* Refinement *)

Asked == {r \in Revisions : HasRow(r)}
Acknowledged == {r \in Revisions : HasRow(r) /\ outbox[r].status = PUBLISHED}
WikiStep == \E r \in Revisions : Wiki!Ask(r) \/ Wiki!Show(r) \/ Wiki!Acknowledge(r)

LEMMA InitRefines == Init => Wiki!PubInit
  BY DEF Init, Wiki!PubInit, HasRow

LEMMA StepRefines == IInv /\ [Next]_vars => [WikiStep]_(Wiki!pubVars)
  <1> SUFFICES ASSUME IInv, [Next]_vars,
                      ~(Asked' = Asked /\ pages' = pages /\ Acknowledged' = Acknowledged)
               PROVE  \E r \in Revisions :
                        \/ /\ r \notin Asked /\ Asked' = Asked \union {r}
                           /\ pages' = pages /\ Acknowledged' = Acknowledged
                        \/ /\ r \in Asked \ pages /\ pages' = pages \union {r}
                           /\ Asked' = Asked /\ Acknowledged' = Acknowledged
                        \/ /\ r \in pages \ Acknowledged
                           /\ Acknowledged' = Acknowledged \union {r}
                           /\ Asked' = Asked /\ pages' = pages
    BY DEF WikiStep, Wiki!Ask, Wiki!Show, Wiki!Acknowledge, Wiki!pubVars, Asked, Acknowledged
  <1>1. ASSUME NEW w \in Workers, Enqueue(w)
        PROVE  \E r \in Revisions : /\ r \notin Asked /\ Asked' = Asked \union {r}
                                    /\ pages' = pages /\ Acknowledged' = Acknowledged
    <2>1. job[w] \in Revisions /\ ~HasRow(job[w])
      <3>1. job[w] \in Revisions
        BY <1>1 DEF IInv, HeldOK, Enqueue
      <3>2. HasRow(job[w]) => outbox' = outbox /\ pages' = pages
        BY <1>1 DEF Enqueue
      <3> QED BY <3>1, <3>2 DEF Asked, Acknowledged, HasRow
    <2>2. outbox' = [outbox EXCEPT ![job[w]] = NewRow] /\ pages' = pages
      BY <1>1, <2>1 DEF Enqueue
    <2>3. NewRow # None /\ NewRow.status # PUBLISHED
      BY NewRowInRow DEF IInv, NewRow, PENDING, PUBLISHED
    <2>4. \A r \in Revisions : r # job[w] => outbox'[r] = outbox[r]
      BY <2>1, <2>2 DEF IInv, TypeOK
    <2>5. outbox'[job[w]] = NewRow
      BY <2>1, <2>2 DEF IInv, TypeOK
    <2>6. Asked' = Asked \union {job[w]} /\ Acknowledged' = Acknowledged
      BY <2>1, <2>3, <2>4, <2>5 DEF Asked, Acknowledged, HasRow
    <2> QED BY <2>1, <2>2, <2>6 DEF Asked
  <1>2. ASSUME NEW w \in Workers, Mark(w)
        PROVE  \E r \in Revisions : /\ r \in pages \ Acknowledged
                                    /\ Acknowledged' = Acknowledged \union {r}
                                    /\ Asked' = Asked /\ pages' = pages
    <2> DEFINE q == job[w]
    <2>1. q \in Revisions /\ HasRow(q) /\ q \in pages /\ outbox[q] \in Row
      BY <1>2 DEF IInv, TypeOK, HeldOK, HasRow, Mark
    <2>2. outbox' = [outbox EXCEPT ![q] = [outbox[q] EXCEPT !.status = PUBLISHED]]
          /\ pages' = pages
      BY <1>2 DEF Mark
    <2>3. [outbox[q] EXCEPT !.status = PUBLISHED] \in Row
      BY <2>1 DEF Row
    <2> HIDE DEF q
    <2>4. /\ \A r \in Revisions : r # q => outbox'[r] = outbox[r]
          /\ outbox'[q] \in Row /\ outbox'[q].status = PUBLISHED
      BY <2>1, <2>2, <2>3 DEF IInv, TypeOK, Row
    <2>5. Asked' = Asked /\ Acknowledged' = Acknowledged \union {q}
      BY <2>1, <2>4 DEF Asked, Acknowledged, HasRow
    <2>6. q \notin Acknowledged
      BY <2>2, <2>5
    <2> QED BY <2>1, <2>2, <2>5, <2>6
  <1>3. ASSUME NEW w \in Workers, PublishOk(w) \/ PublishRaises(w)
        PROVE  \E r \in Revisions : /\ r \in Asked \ pages /\ pages' = pages \union {r}
                                    /\ Asked' = Asked /\ Acknowledged' = Acknowledged
    <2> DEFINE c == NextClaim(w)
    <2>1. c \in claims[w]
      BY <1>3, NextClaimHeld DEF IInv, HeldOK, PublishOk, PublishRaises
    <2>2. c.rev \in Revisions /\ HasRow(c.rev)
      BY <2>1, ClaimedRow DEF IInv
    <2>3. outbox' = outbox /\ (pages' = pages \/ pages' = pages \union {c.rev})
      BY <1>3 DEF PublishOk, PublishRaises
    <2> HIDE DEF c
    <2>4. Asked' = Asked /\ Acknowledged' = Acknowledged
      BY <2>3 DEF Asked, Acknowledged, HasRow
    <2> QED BY <2>2, <2>3, <2>4 DEF Asked
  \* The other steps leave rows, pages and marks alone.
  <1>4. ASSUME NEW w \in Workers, ClaimDue(w) PROVE FALSE
    <2>1. \A r \in Revisions : HasRow(r)' <=> HasRow(r)
      BY <1>4, ClaimedRows
    <2>2. \A r \in Revisions : HasRow(r) =>
            (outbox'[r].status = PUBLISHED <=> outbox[r].status = PUBLISHED)
      BY <1>4, ClaimedRows DEF PENDING, PUBLISHED
    <2>3. pages' = pages
      BY <1>4 DEF ClaimDue
    <2> QED BY <2>1, <2>2, <2>3 DEF Asked, Acknowledged
  <1>5. CASE Tick
    <2>1. pages' = pages
      BY <1>5 DEF Tick
    <2> QED BY <1>5, <2>1, TickedRows DEF Asked, Acknowledged
  <1>6. ASSUME \/ \E w \in Workers, r \in Revisions : StoreArtifacts(w, r)
               \/ \E w \in Workers : Crash(w)
               \/ SinkChanges
               \/ UNCHANGED vars
        PROVE  FALSE
    <2>1. outbox' = outbox /\ pages' = pages
      BY <1>6 DEF StoreArtifacts, Crash, SinkChanges, vars
    <2> QED BY <2>1 DEF Asked, Acknowledged, HasRow
  <1> QED BY <1>1, <1>2, <1>3, <1>4, <1>5, <1>6 DEF Next

\* The outbox implements exactly-once visible publication.
THEOREM Refinement == Spec => ImplementsPublication
  <1>1. Spec => []IInv
    BY InductiveInvariant
  <1> QED BY <1>1, InitRefines, StepRefines, PTL
       DEF Spec, ImplementsPublication, Wiki!PubSpec, WikiStep
=============================================================================
