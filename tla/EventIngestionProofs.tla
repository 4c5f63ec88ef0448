------------------------ MODULE EventIngestionProofs ------------------------
(***************************************************************************)
(* Theorems about EventIngestion, for any number of keys, of concurrent    *)
(* requests, and any limits and durations.                                 *)
(***************************************************************************)
EXTENDS EventIngestion, FiniteSetTheorems, TLAPS

-----------------------------------------------------------------------------
(* The inductive invariant                                                 *)

\* No row is locked twice, and no transaction starts in the future.
LocksExclude ==
  /\ \A p \in Procs : \A q \in Procs \ {p} : locks[p] \intersect locks[q] = {}
  /\ \A p \in Procs : started[p] <= now

\* The rows a request has claimed were expired, and its lock keeps them so.
ClaimsAreExpired ==
  \A r \in Requests : \A k \in claimed[r] :
    k \in DOMAIN expiresAt => expiresAt[k] <= now

\* The requests that have passed the check of a day and are about to add to it.
Adding(d) ==
  {r \in Requests : pc[r] = "commit" /\ claimed[r] # {} /\ Day(started[r]) = d}

Limit(n) == MaxPerDay * n

\* Each of them adds at most a day's limit, and the one that checked last
\* has seen what the day was then: together they stay within the bound.
Reserved(d) ==
  LET adding == Adding(d)
      others == (Cardinality(Requests) - Cardinality(adding)) + 1
  IN  \/ adding = {} /\ usage[d] <= Limit(Cardinality(Requests))
      \/ \E r \in adding : usage[d] + Cardinality(claimed[r]) <= Limit(others)

ChecksPassed ==
  /\ \A r \in Requests :
       pc[r] = "commit" /\ claimed[r] # {} => Cardinality(claimed[r]) <= MaxPerDay
  /\ \A d \in Days : Reserved(d)

IInv ==
  /\ TypeOK
  /\ LocksExclude
  /\ ClaimsAreExpired
  /\ ActiveRowsRemember
  /\ ChecksPassed

-----------------------------------------------------------------------------
(* Sets, sequences and numbers                                             *)

\* Batches are sequences of keys.
LEMMA BatchIsSequence ==
  ASSUME NEW batch \in SetToAllKPermutations(Keys)
  PROVE  batch \in Seq(Keys)
  <1>1. PICK S \in SUBSET Keys : batch \in SetToSeqs(S)
    BY DEF SetToAllKPermutations
  <1>2. IsFiniteSet(S)
    BY Parameters, FS_Subset
  <1>3. Cardinality(S) \in Nat
    BY <1>2, FS_CardinalityType
  <1>4. batch \in [1..Cardinality(S) -> S]
    BY <1>1 DEF SetToSeqs
  <1>5. QED
    BY <1>3, <1>4

LEMMA TailIsSequence ==
  ASSUME NEW s \in Seq(Keys), s # <<>>
  PROVE  Head(s) \in Keys /\ Tail(s) \in Seq(Keys)
  OBVIOUS

LEMMA FiniteKeys ==
  ASSUME NEW S \in SUBSET Keys
  PROVE  IsFiniteSet(S) /\ Cardinality(S) \in Nat
  BY Parameters, FS_Subset, FS_CardinalityType

LEMMA FiniteRequests ==
  ASSUME NEW S \in SUBSET Requests
  PROVE  /\ IsFiniteSet(S)
         /\ Cardinality(S) \in Nat /\ Cardinality(Requests) \in Nat
         /\ Cardinality(S) <= Cardinality(Requests)
         /\ S # {} => Cardinality(S) >= 1
  BY Parameters, FS_Subset, FS_CardinalityType, FS_EmptySet

LEMMA Limits ==
  ASSUME NEW n \in Nat, NEW m \in Nat, n <= m
  PROVE  /\ Limit(n) \in Nat
         /\ Limit(n) <= Limit(m)
         /\ Limit(n + 1) = Limit(n) + MaxPerDay
  <1>1. MaxPerDay \in Nat
    BY Parameters
  <1>2. Limit(n) \in Nat /\ Limit(n + 1) = Limit(n) + MaxPerDay
    BY <1>1 DEF Limit
  <1>3. PICK k \in Nat : m = n + k
    <2>1. m - n \in Nat /\ m = n + (m - n)
      OBVIOUS
    <2>2. QED
      BY <2>1
  <1>4. MaxPerDay * (n + k) = MaxPerDay * n + MaxPerDay * k /\ MaxPerDay * k \in Nat
    BY <1>1
  <1>5. QED
    BY <1>1, <1>2, <1>3, <1>4 DEF Limit

-----------------------------------------------------------------------------
(* Type correctness                                                        *)

LEMMA InitInv == Init => IInv
  <1> SUFFICES ASSUME Init PROVE IInv
    OBVIOUS
  <1>1. TypeOK
    <2>1. DOMAIN expiresAt = {}
      BY DEF Init
    <2>2. <<>> \in Seq(Keys)
      OBVIOUS
    <2>3. 0 \in Times /\ 0 \in 0..(MaxTime + TTL)
      BY Parameters DEF Times
    <2>4. QED
      BY <2>1, <2>2, <2>3 DEF Init, TypeOK, Labels
  <1>2. LocksExclude /\ ClaimsAreExpired
    BY DEF Init, LocksExclude, ClaimsAreExpired, Procs
  <1>3. ActiveRowsRemember
    BY DEF Init, ActiveRowsRemember
  <1>4. ChecksPassed
    <2> SUFFICES ASSUME NEW d \in Days PROVE Reserved(d)
      BY DEF Init, ChecksPassed, Procs
    <2>1. Adding(d) = {}
      BY DEF Init, Adding, Procs
    <2>2. Limit(Cardinality(Requests)) \in Nat
      BY FiniteRequests, Limits
    <2>3. usage[d] = 0
      BY DEF Init
    <2>4. QED
      BY <2>1, <2>2, <2>3 DEF Reserved
  <1>5. QED
    BY <1>1, <1>2, <1>3, <1>4 DEF IInv

-----------------------------------------------------------------------------
(* What a step of one process leaves alone                                 *)

OnlyProcess(p) ==
  \A q \in Procs \ {p} :
    /\ pc'[q] = pc[q] /\ todo'[q] = todo[q] /\ locks'[q] = locks[q]
    /\ claimed'[q] = claimed[q] /\ started'[q] = started[q] /\ expiry'[q] = expiry[q]

\* The variables of the processes keep their types.
ProcessTypes ==
  /\ pc \in [Procs -> Labels]
  /\ todo \in [Procs -> Seq(Keys)]
  /\ locks \in [Procs -> SUBSET Keys]
  /\ claimed \in [Procs -> SUBSET Keys]
  /\ \A p \in Procs : claimed[p] \subseteq locks[p]
  /\ \A p \in Procs : pc[p] = "idle" => todo[p] = <<>> /\ locks[p] = {}
  /\ started \in [Procs -> Times]
  /\ expiry \in [Procs -> 0..(MaxTime + TTL)]

LEMMA FinishedProcess ==
  ASSUME TypeOK, NEW p \in Procs, Finish(p)
  PROVE  /\ OnlyProcess(p) /\ ProcessTypes'
         /\ pc'[p] = "idle" /\ locks'[p] = {} /\ claimed'[p] = {} /\ started'[p] = 0
  <1>1. 0 \in Times /\ 0 \in 0..(MaxTime + TTL) /\ "idle" \in Labels
    BY Parameters DEF Times, Labels
  <1>2. <<>> \in Seq(Keys)
    OBVIOUS
  <1>3. /\ pc' \in [Procs -> Labels] /\ todo' \in [Procs -> Seq(Keys)]
        /\ locks' \in [Procs -> SUBSET Keys] /\ claimed' \in [Procs -> SUBSET Keys]
        /\ started' \in [Procs -> Times]
        /\ expiry' \in [Procs -> 0..(MaxTime + TTL)]
    BY <1>1, <1>2 DEF TypeOK, Finish, Goto
  <1>4. /\ pc'[p] = "idle" /\ todo'[p] = <<>> /\ locks'[p] = {} /\ claimed'[p] = {}
        /\ started'[p] = 0
    BY DEF TypeOK, Finish, Goto
  <1>5. OnlyProcess(p)
    BY DEF TypeOK, Finish, Goto, OnlyProcess
  <1>6. \A q \in Procs : /\ claimed'[q] \subseteq locks'[q]
                         /\ pc'[q] = "idle" => todo'[q] = <<>> /\ locks'[q] = {}
    <2> TAKE q \in Procs
    <2>1. CASE q = p
      BY <1>4, <2>1
    <2>2. CASE q # p
      BY <1>5, <2>2 DEF OnlyProcess, TypeOK
    <2>3. QED
      BY <2>1, <2>2
  <1>7. QED
    BY <1>3, <1>4, <1>5, <1>6 DEF ProcessTypes

LEMMA Typed ==
  ASSUME TypeOK, ProcessTypes', NoCommit, now' = now
  PROVE  TypeOK'
  BY DEF TypeOK, ProcessTypes, NoCommit

\* The next row of a statement.
LEMMA VisitedRow ==
  ASSUME TypeOK, NEW p \in Procs, NEW claims \in BOOLEAN, pc[p] # "idle",
         Visit(p, claims), UNCHANGED <<pc, started, expiry>>
  PROVE  /\ OnlyProcess(p) /\ ProcessTypes'
         /\ Head(todo[p]) \in Keys /\ ~LockedByOther(p, Head(todo[p]))
         /\ locks'[p] = locks[p] \union {Head(todo[p])}
         /\ claimed'[p] \subseteq claimed[p] \union {Head(todo[p])}
         /\ claimed[p] \subseteq claimed'[p]
         /\ ~claims => claimed'[p] = claimed[p]
  <1> DEFINE k == Head(todo[p])
  <1>1. /\ todo[p] # <<>> /\ ~LockedByOther(p, k)
        /\ todo' = [todo EXCEPT ![p] = Tail(todo[p])]
        /\ locks' = [locks EXCEPT ![p] = locks[p] \union {k}]
        /\ claimed' = [claimed EXCEPT ![p] = claimed[p] \union {j \in {k} : claims}]
    BY DEF Visit
  <1>2. todo[p] \in Seq(Keys) /\ locks[p] \in SUBSET Keys /\ claimed[p] \in SUBSET Keys
    BY DEF TypeOK
  <1>3. k \in Keys /\ Tail(todo[p]) \in Seq(Keys)
    BY <1>1, <1>2, TailIsSequence
  <1>4. /\ todo' \in [Procs -> Seq(Keys)]
        /\ locks' \in [Procs -> SUBSET Keys] /\ claimed' \in [Procs -> SUBSET Keys]
    <2>1. todo' \in [Procs -> Seq(Keys)]
      BY <1>1, <1>3 DEF TypeOK
    <2>2. locks' \in [Procs -> SUBSET Keys]
      BY <1>1, <1>2, <1>3 DEF TypeOK
    <2>3. claimed' \in [Procs -> SUBSET Keys]
      BY <1>1, <1>2, <1>3 DEF TypeOK
    <2>4. QED
      BY <2>1, <2>2, <2>3
  <1>5. /\ locks'[p] = locks[p] \union {k}
        /\ claimed'[p] = claimed[p] \union {j \in {k} : claims}
    BY <1>1 DEF TypeOK
  <1>6. OnlyProcess(p)
    BY <1>1 DEF TypeOK, OnlyProcess
  <1>7. claimed[p] \subseteq locks[p]
    BY DEF TypeOK
  <1>8. \A q \in Procs : /\ claimed'[q] \subseteq locks'[q]
                         /\ pc'[q] = "idle" => todo'[q] = <<>> /\ locks'[q] = {}
    <2> TAKE q \in Procs
    <2>1. CASE q = p
      BY <1>5, <1>7, <2>1
    <2>2. CASE q # p
      BY <1>6, <2>2 DEF OnlyProcess, TypeOK
    <2>3. QED
      BY <2>1, <2>2
  <1>9. ProcessTypes'
    BY <1>4, <1>8 DEF ProcessTypes, TypeOK
  <1>10. QED
    BY <1>1, <1>3, <1>5, <1>6, <1>9

-----------------------------------------------------------------------------
(* The locks, the claims and the rows                                      *)

LEMMA ExclusionKept ==
  ASSUME TypeOK, LocksExclude, NEW p \in Procs, OnlyProcess(p), now' = now,
         \A k \in locks'[p] : k \in locks[p] \/ ~LockedByOther(p, k),
         started'[p] <= now
  PROVE  LocksExclude'
  <1>1. \A q \in Procs \ {p} : locks'[p] \intersect locks[q] = {}
    BY DEF LocksExclude, LockedByOther
  <1>2. ASSUME NEW q \in Procs, NEW s \in Procs \ {q}
        PROVE  locks'[q] \intersect locks'[s] = {}
    <2>1. CASE q = p
      BY <1>1, <2>1 DEF OnlyProcess
    <2>2. CASE s = p
      BY <1>1, <2>2 DEF OnlyProcess
    <2>3. CASE q # p /\ s # p
      BY <2>3 DEF OnlyProcess, LocksExclude
    <2>4. QED
      BY <2>1, <2>2, <2>3
  <1>3. \A q \in Procs : started'[q] <= now'
    BY DEF OnlyProcess, LocksExclude
  <1>4. QED
    BY <1>2, <1>3 DEF LocksExclude

LEMMA ClaimsKept ==
  ASSUME ClaimsAreExpired, NEW p \in Procs, OnlyProcess(p), NoCommit, now' = now,
         p \in Requests => \A k \in claimed'[p] :
           k \in DOMAIN expiresAt => expiresAt[k] <= now
  PROVE  ClaimsAreExpired'
  <1> SUFFICES ASSUME NEW r \in Requests, NEW k \in claimed'[r], k \in DOMAIN expiresAt
               PROVE  expiresAt[k] <= now
    BY DEF ClaimsAreExpired, NoCommit
  <1>1. CASE r = p
    BY <1>1
  <1>2. CASE r # p
    BY <1>2 DEF ClaimsAreExpired, OnlyProcess, Procs
  <1>3. QED
    BY <1>1, <1>2

LEMMA RowsKept ==
  ASSUME ActiveRowsRemember, NoCommit, now' = now
  PROVE  ActiveRowsRemember'
  BY DEF ActiveRowsRemember, NoCommit

-----------------------------------------------------------------------------
(* The limit                                                               *)

\* Nobody passes the check, nobody adds.
LEMMA ChecksKept ==
  ASSUME ChecksPassed, usage' = usage,
         \A r \in Requests :
           /\ pc'[r] = "commit" <=> pc[r] = "commit"
           /\ pc[r] = "commit" => claimed'[r] = claimed[r] /\ started'[r] = started[r]
  PROVE  ChecksPassed'
  <1>1. \A d : Adding(d)' = Adding(d)
    BY DEF Adding
  <1>2. ASSUME NEW d \in Days PROVE Reserved(d)'
    <2>1. Reserved(d)
      BY DEF ChecksPassed
    <2>2. \A r \in Adding(d) : claimed'[r] = claimed[r]
      BY DEF Adding
    <2>3. QED
      BY <1>1, <2>1, <2>2 DEF Reserved
  <1>3. QED
    BY <1>2 DEF ChecksPassed

\* A request leaves, with or without having added what it claimed.
LEMMA Left ==
  ASSUME TypeOK, ChecksPassed, NEW r \in Requests, OnlyProcess(r), pc'[r] # "commit",
         \A d \in Days :
           \/ usage'[d] = usage[d]
           \/ r \in Adding(d) /\ usage'[d] = usage[d] + Cardinality(claimed[r])
  PROVE  ChecksPassed'
  <1>1. \A s \in Requests \ {r} :
          pc'[s] = pc[s] /\ claimed'[s] = claimed[s] /\ started'[s] = started[s]
    BY DEF OnlyProcess, Procs
  <1>2. \A d : Adding(d)' = Adding(d) \ {r}
    BY <1>1 DEF Adding
  <1>3. ASSUME NEW d \in Days PROVE Reserved(d)'
    <2> DEFINE N == Cardinality(Requests)
               A == Adding(d)
               n == Cardinality(A)
               B == Adding(d)'
    <2>1. /\ A \in SUBSET Requests /\ B \in SUBSET Requests
          /\ B = A \ {r} /\ \A s \in B : claimed'[s] = claimed[s]
      BY <1>1, <1>2 DEF Adding
    <2>2. usage[d] \in Nat
      BY DEF TypeOK
    <2>3. \A s \in A : Cardinality(claimed[s]) \in Nat /\ Cardinality(claimed[s]) <= MaxPerDay
      BY FiniteKeys DEF Adding, ChecksPassed, TypeOK, Procs
    <2>4. Reserved(d)
      BY DEF ChecksPassed
    <2>5. CASE r \notin A
      <3>1. B = A /\ usage'[d] = usage[d]
        BY <2>1, <2>5
      <3>2. QED
        BY <2>1, <2>4, <3>1 DEF Reserved
    <2>6. CASE r \in A
      <3> DEFINE m == Cardinality(B)
      <3>1. n \in Nat /\ m \in Nat /\ N \in Nat /\ n <= N /\ n >= 1 /\ m = n - 1
        BY <2>1, <2>6, FiniteRequests, FS_RemoveElement
      <3>2. PICK w \in A : usage[d] + Cardinality(claimed[w]) <= Limit((N - n) + 1)
        BY <2>4, <2>6 DEF Reserved
      <3>3. usage'[d] \in Nat /\ usage'[d] <= usage[d] + Cardinality(claimed[r])
        BY <2>2, <2>3, <2>6
      <3>4. (N - n) + 1 = N - m /\ N - m \in Nat
        BY <3>1
      <3>5. /\ Limit(N - m) \in Nat
            /\ Limit((N - m) + 1) = Limit(N - m) + MaxPerDay
        BY <3>4, Limits
      <3>6. CASE w = r
        <4>1. usage'[d] <= Limit(N - m)
          BY <2>2, <2>3, <3>2, <3>3, <3>4, <3>5, <3>6
        <4>2. CASE B = {}
          <5>1. m = 0
            BY <4>2, FS_EmptySet
          <5>2. usage'[d] <= Limit(N)
            BY <3>1, <4>1, <5>1
          <5>3. QED
            BY <4>2, <5>2 DEF Reserved
        <4>3. CASE B # {}
          <5>1. PICK s \in B : TRUE
            BY <4>3
          <5>2. Cardinality(claimed'[s]) \in Nat /\ Cardinality(claimed'[s]) <= MaxPerDay
            BY <2>1, <2>3, <5>1
          <5>3. usage'[d] + Cardinality(claimed'[s]) <= Limit((N - m) + 1)
            BY <3>3, <3>5, <4>1, <5>2, Parameters
          <5>4. QED
            BY <5>1, <5>3 DEF Reserved
        <4>4. QED
          BY <4>2, <4>3
      <3>7. CASE w # r
        <4>1. w \in B /\ claimed'[w] = claimed[w]
          BY <2>1, <3>2, <3>7
        <4>2. Cardinality(claimed[w]) \in Nat /\ Cardinality(claimed[r]) \in Nat
              /\ Cardinality(claimed[r]) <= MaxPerDay
          BY <2>3, <2>6, <3>2
        <4>3. usage[d] + Cardinality(claimed[w]) <= Limit(N - m)
          BY <3>2, <3>4
        <4>4. usage'[d] + Cardinality(claimed[w]) <= Limit((N - m) + 1)
          BY <2>2, <3>3, <3>5, <4>2, <4>3, Parameters
        <4>5. QED
          BY <4>1, <4>4 DEF Reserved
      <3>8. QED
        BY <3>6, <3>7
    <2>7. QED
      BY <2>5, <2>6
  <1>4. \A s \in Requests :
          pc'[s] = "commit" /\ claimed'[s] # {} => Cardinality(claimed'[s]) <= MaxPerDay
    BY <1>1 DEF ChecksPassed
  <1>5. QED
    BY <1>3, <1>4 DEF ChecksPassed

\* A request passes the check.
LEMMA Joined ==
  ASSUME TypeOK, ChecksPassed, NEW r \in Requests, pc[r] = "claim", Goto(r, "commit"),
         claimed[r] = {} \/ WithinLimit(r), UNCHANGED <<claimed, started, usage>>
  PROVE  ChecksPassed'
  <1>1. /\ \A s \in Requests \ {r} : pc'[s] = pc[s]
        /\ pc'[r] = "commit" /\ r \in Procs
    BY DEF Goto, TypeOK, Procs
  <1>2. CASE claimed[r] = {}
    <2>1. \A d : Adding(d)' = Adding(d)
      BY <1>1, <1>2 DEF Adding
    <2>2. \A d \in Days : Reserved(d)'
      BY <2>1 DEF ChecksPassed, Reserved
    <2>3. QED
      BY <1>1, <1>2, <2>2 DEF ChecksPassed
  <1>3. CASE claimed[r] # {}
    <2> DEFINE day == Day(started[r])
               c == Cardinality(claimed[r])
    <2>1. c \in Nat /\ day \in Days /\ usage[day] \in Nat
      BY <1>1, FiniteKeys DEF TypeOK, Days
    <2>2. usage[day] + c <= MaxPerDay /\ c <= MaxPerDay
      BY <1>3, <2>1, Parameters DEF WithinLimit
    <2>3. \A d : d # day => Adding(d)' = Adding(d)
      BY <1>1 DEF Adding
    <2>4. r \in Adding(day)'
      BY <1>1, <1>3 DEF Adding
    <2>5. ASSUME NEW d \in Days PROVE Reserved(d)'
      <3>1. CASE d # day
        BY <2>3, <3>1 DEF ChecksPassed, Reserved
      <3>2. CASE d = day
        <4> DEFINE N == Cardinality(Requests)
                   n == Cardinality(Adding(day)')
        <4>1. Adding(day)' \in SUBSET Requests
          BY DEF Adding
        <4>2. n \in Nat /\ N \in Nat /\ n <= N
          BY <4>1, FiniteRequests
        <4>3. (N - n) + 1 \in Nat /\ 1 <= (N - n) + 1
          BY <4>2
        <4>4. Limit(1) <= Limit((N - n) + 1) /\ Limit(1) \in Nat /\ Limit((N - n) + 1) \in Nat
          BY <4>3, Limits
        <4>5. Limit(1) = MaxPerDay
          BY Parameters DEF Limit
        <4>6. usage'[day] + Cardinality(claimed'[r]) <= Limit((N - n) + 1)
          BY <2>1, <2>2, <4>4, <4>5
        <4>7. QED
          BY <2>4, <3>2, <4>6 DEF Reserved
      <3>3. QED
        BY <3>1, <3>2
    <2>6. \A s \in Requests :
            pc'[s] = "commit" /\ claimed'[s] # {} => Cardinality(claimed'[s]) <= MaxPerDay
      BY <1>1, <2>2 DEF ChecksPassed
    <2>7. QED
      BY <2>5, <2>6 DEF ChecksPassed
  <1>4. QED
    BY <1>2, <1>3

-----------------------------------------------------------------------------
(* Every step                                                              *)

\* A process ends without a commit: a crash, a deadlock, the limit's error.
LEMMA EndInv ==
  ASSUME IInv, NEW p \in Procs, Finish(p), NoCommit, now' = now
  PROVE  IInv'
  <1> USE DEF IInv
  <1>1. /\ OnlyProcess(p) /\ ProcessTypes'
        /\ pc'[p] = "idle" /\ locks'[p] = {} /\ claimed'[p] = {} /\ started'[p] = 0
    BY FinishedProcess
  <1>2. now \in Nat
    BY Parameters DEF TypeOK, Times
  <1>3. TypeOK' /\ ActiveRowsRemember'
    BY <1>1, Typed, RowsKept
  <1>4. LocksExclude'
    BY <1>1, <1>2, ExclusionKept
  <1>5. ClaimsAreExpired'
    BY <1>1, ClaimsKept
  <1>6. ChecksPassed'
    <2>1. CASE p \in Requests
      BY <1>1, <2>1, Left DEF NoCommit
    <2>2. CASE p \notin Requests
      BY <1>1, <2>2, ChecksKept DEF OnlyProcess, NoCommit, Procs
    <2>3. QED
      BY <2>1, <2>2
  <1>7. QED
    BY <1>3, <1>4, <1>5, <1>6

\* A process goes on without touching locks and claims, and without a commit.
LEMMA AdvanceInv ==
  ASSUME IInv, NEW p \in Procs, NEW l \in Labels \ {"idle"}, Goto(p, l),
         l # "commit" /\ pc[p] # "commit",
         UNCHANGED <<now, locks, claimed>>, NoCommit,
         todo' \in [Procs -> Seq(Keys)], started' \in [Procs -> Times],
         expiry' \in [Procs -> 0..(MaxTime + TTL)],
         \A q \in Procs \ {p} :
           todo'[q] = todo[q] /\ started'[q] = started[q] /\ expiry'[q] = expiry[q],
         started'[p] <= now
  PROVE  IInv'
  <1> USE DEF IInv
  <1>1. /\ pc' \in [Procs -> Labels] /\ pc'[p] = l
        /\ \A q \in Procs \ {p} : pc'[q] = pc[q]
    BY DEF Goto, TypeOK
  <1>2. OnlyProcess(p)
    BY <1>1 DEF OnlyProcess
  <1>3. ProcessTypes'
    BY <1>1 DEF ProcessTypes, TypeOK
  <1>4. TypeOK' /\ ActiveRowsRemember'
    BY <1>3, Typed, RowsKept
  <1>5. LocksExclude'
    BY <1>2, ExclusionKept
  <1>6. ClaimsAreExpired'
    BY <1>2, ClaimsKept DEF ClaimsAreExpired
  <1>7. ChecksPassed'
    BY <1>1, <1>2, ChecksKept DEF OnlyProcess, NoCommit, Procs
  <1>8. QED
    BY <1>4, <1>5, <1>6, <1>7

LEMMA BeginIngestInv ==
  ASSUME IInv, NEW r \in Requests, BeginIngest(r)
  PROVE  IInv'
  <1>1. PICK batch \in SetToAllKPermutations(Keys) \ {<<>>} :
          /\ pc[r] = "idle" /\ Goto(r, "begin")
          /\ todo' = [todo EXCEPT ![r] = batch]
          /\ expiry' = [expiry EXCEPT ![r] = now + TTL]
          /\ UNCHANGED <<now, locks, claimed, started>> /\ NoCommit
    BY DEF BeginIngest
  <1>2. r \in Procs /\ "begin" \in Labels \ {"idle"}
    BY DEF Procs, Labels
  <1>3. now + TTL \in 0..(MaxTime + TTL)
    BY Parameters DEF IInv, TypeOK, Times
  <1>4. todo' \in [Procs -> Seq(Keys)] /\ expiry' \in [Procs -> 0..(MaxTime + TTL)]
    BY <1>1, <1>2, <1>3, BatchIsSequence DEF IInv, TypeOK
  <1>5. started' \in [Procs -> Times] /\ started'[r] <= now
    BY <1>1, <1>2 DEF IInv, TypeOK, LocksExclude
  <1>6. \A q \in Procs \ {r} :
          todo'[q] = todo[q] /\ started'[q] = started[q] /\ expiry'[q] = expiry[q]
    BY <1>1 DEF IInv, TypeOK
  <1>7. QED
    BY <1>1, <1>2, <1>4, <1>5, <1>6, AdvanceInv

LEMMA StartTransactionInv ==
  ASSUME IInv, NEW r \in Requests, StartTransaction(r)
  PROVE  IInv'
  <1>1. /\ pc[r] = "begin" /\ Goto(r, "claim")
        /\ started' = [started EXCEPT ![r] = now]
        /\ UNCHANGED <<now, todo, locks, claimed, expiry>> /\ NoCommit
    BY DEF StartTransaction
  <1>2. r \in Procs /\ "claim" \in Labels \ {"idle"}
    BY DEF Procs, Labels
  <1>3. now \in Times /\ now \in Nat
    BY Parameters DEF IInv, TypeOK, Times
  <1>4. started' \in [Procs -> Times] /\ started'[r] <= now
    BY <1>1, <1>2, <1>3 DEF IInv, TypeOK
  <1>5. /\ \A q \in Procs \ {r} :
             todo'[q] = todo[q] /\ started'[q] = started[q] /\ expiry'[q] = expiry[q]
        /\ todo' \in [Procs -> Seq(Keys)] /\ expiry' \in [Procs -> 0..(MaxTime + TTL)]
    BY <1>1 DEF IInv, TypeOK
  <1>6. QED
    BY <1>1, <1>2, <1>4, <1>5, AdvanceInv

LEMMA BeginCleanupInv ==
  ASSUME IInv, BeginCleanup
  PROVE  IInv'
  <1>1. PICK order \in SetToAllKPermutations(Keys) \ {<<>>} :
          /\ pc[Cleanup] = "idle" /\ Goto(Cleanup, "delete")
          /\ todo' = [todo EXCEPT ![Cleanup] = order]
          /\ UNCHANGED <<now, locks, claimed, started, expiry>> /\ NoCommit
    BY DEF BeginCleanup
  <1>2. Cleanup \in Procs /\ "delete" \in Labels \ {"idle"}
    BY DEF Procs, Labels
  <1>3. todo' \in [Procs -> Seq(Keys)]
    BY <1>1, <1>2, BatchIsSequence DEF IInv, TypeOK
  <1>4. /\ started' \in [Procs -> Times] /\ started'[Cleanup] <= now
        /\ expiry' \in [Procs -> 0..(MaxTime + TTL)]
    BY <1>1, <1>2 DEF IInv, TypeOK, LocksExclude
  <1>5. \A q \in Procs \ {Cleanup} :
          todo'[q] = todo[q] /\ started'[q] = started[q] /\ expiry'[q] = expiry[q]
    BY <1>1 DEF IInv, TypeOK
  <1>6. QED
    BY <1>1, <1>2, <1>3, <1>4, <1>5, AdvanceInv

\* A statement visits a row.
LEMMA VisitInv ==
  ASSUME IInv, NEW p \in Procs, NEW claims \in BOOLEAN, pc[p] \in {"claim", "delete"},
         Visit(p, claims), UNCHANGED <<now, pc, started, expiry>>, NoCommit,
         p \in Requests => claims = Claimable(p, Head(todo[p]))
  PROVE  IInv'
  <1> USE DEF IInv
  <1> DEFINE k == Head(todo[p])
  <1>1. /\ OnlyProcess(p) /\ ProcessTypes' /\ k \in Keys /\ ~LockedByOther(p, k)
        /\ locks'[p] = locks[p] \union {k}
        /\ claimed'[p] \subseteq claimed[p] \union {k}
        /\ ~claims => claimed'[p] = claimed[p]
    BY VisitedRow
  <1>2. TypeOK' /\ ActiveRowsRemember'
    BY <1>1, Typed, RowsKept
  <1>3. LocksExclude'
    BY <1>1, ExclusionKept DEF LocksExclude
  <1>4. ASSUME p \in Requests
        PROVE  \A j \in claimed'[p] : j \in DOMAIN expiresAt => expiresAt[j] <= now
    <2>1. \A j \in claimed[p] : j \in DOMAIN expiresAt => expiresAt[j] <= now
      BY <1>4 DEF ClaimsAreExpired
    <2>2. ASSUME claims, k \in DOMAIN expiresAt PROVE expiresAt[k] <= now
      <3>1. expiresAt[k] <= started[p] /\ started[p] <= now
        BY <1>4, <2>2 DEF Claimable, LocksExclude
      <3>2. expiresAt[k] \in Int /\ started[p] \in Int /\ now \in Int
        BY <2>2, Parameters DEF TypeOK, Times
      <3>3. QED
        BY <3>1, <3>2
    <2>3. QED
      BY <1>1, <2>1, <2>2
  <1>5. ClaimsAreExpired'
    BY <1>1, <1>4, ClaimsKept
  <1>6. ChecksPassed'
    BY <1>1, ChecksKept DEF OnlyProcess, NoCommit, Procs
  <1>7. QED
    BY <1>2, <1>3, <1>5, <1>6

LEMMA CheckLimitInv ==
  ASSUME IInv, NEW r \in Requests, CheckLimit(r)
  PROVE  IInv'
  <1> USE DEF IInv
  <1>1. r \in Procs /\ pc[r] = "claim" /\ now' = now /\ NoCommit
    BY DEF CheckLimit, Procs
  <1>2. CASE claimed[r] = {} \/ WithinLimit(r)
    <2>1. Goto(r, "commit") /\ UNCHANGED <<todo, locks, claimed, started, expiry>>
      BY <1>2 DEF CheckLimit
    <2>2. /\ pc' \in [Procs -> Labels] /\ pc'[r] = "commit"
          /\ \A q \in Procs \ {r} : pc'[q] = pc[q]
      BY <1>1, <2>1 DEF Goto, TypeOK, Labels
    <2>3. OnlyProcess(r) /\ ProcessTypes'
      BY <2>1, <2>2 DEF OnlyProcess, ProcessTypes, TypeOK
    <2>4. TypeOK' /\ ActiveRowsRemember'
      BY <1>1, <2>3, Typed, RowsKept
    <2>5. LocksExclude'
      BY <1>1, <2>1, <2>3, ExclusionKept DEF LocksExclude
    <2>6. ClaimsAreExpired'
      BY <1>1, <2>1, <2>3, ClaimsKept DEF ClaimsAreExpired
    <2>7. ChecksPassed'
      BY <1>1, <1>2, <2>1, Joined DEF NoCommit
    <2>8. QED
      BY <2>4, <2>5, <2>6, <2>7
  <1>3. CASE ~(claimed[r] = {} \/ WithinLimit(r))
    BY <1>1, <1>3, EndInv DEF CheckLimit
  <1>4. QED
    BY <1>2, <1>3

LEMMA CommitInv ==
  ASSUME IInv, NEW r \in Requests, Commit(r)
  PROVE  IInv'
  <1> USE DEF IInv
  <1> DEFINE new == claimed[r]
             day == Day(started[r])
  <1>1. /\ pc[r] = "commit"
        /\ expiresAt' = [k \in new \union DOMAIN expiresAt |->
                           IF k \in new THEN expiry[r] ELSE expiresAt[k]]
        /\ usage' = [usage EXCEPT ![day] = @ + Cardinality(new)]
        /\ window' = [k \in Keys |-> IF k \in new THEN expiry[r] ELSE window[k]]
        /\ robbed' = robbed \ new
        /\ Finish(r) /\ now' = now
    BY DEF Commit
  <1>2. /\ r \in Procs /\ new \in SUBSET Keys /\ expiry[r] \in 0..(MaxTime + TTL)
        /\ Cardinality(new) \in Nat
    BY FiniteKeys DEF Procs, TypeOK
  <1>3. /\ OnlyProcess(r) /\ ProcessTypes'
        /\ pc'[r] = "idle" /\ locks'[r] = {} /\ claimed'[r] = {} /\ started'[r] = 0
    BY <1>1, <1>2, FinishedProcess
  <1>4. /\ DOMAIN expiresAt' = new \union DOMAIN expiresAt
        /\ \A k \in new : expiresAt'[k] = expiry[r]
        /\ \A k \in DOMAIN expiresAt \ new : expiresAt'[k] = expiresAt[k]
    BY <1>1
  <1>5. /\ usage' \in [Days -> Nat]
        /\ \A d \in Days : usage'[d] = IF d = day THEN usage[d] + Cardinality(new)
                                                  ELSE usage[d]
    <2>1. day \in Days
      BY <1>2 DEF TypeOK, Days
    <2>2. usage[day] \in Nat /\ usage[day] + Cardinality(new) \in Nat
      BY <1>2, <2>1 DEF TypeOK
    <2>3. usage' = [usage EXCEPT ![day] = usage[day] + Cardinality(new)]
      BY <1>1
    <2>4. usage' = [d \in Days |-> IF d = day THEN usage[day] + Cardinality(new) ELSE usage[d]]
      BY <2>3 DEF TypeOK
    <2>5. QED
      BY <2>2, <2>4 DEF TypeOK
  <1>6. TypeOK'
    <2>1. DOMAIN expiresAt' \subseteq Keys
      BY <1>2, <1>4 DEF TypeOK
    <2>2. \A k \in DOMAIN expiresAt' : expiresAt'[k] \in 0..(MaxTime + TTL)
      BY <1>2, <1>4 DEF TypeOK
    <2>3. window' \in [Keys -> 0..(MaxTime + TTL)] /\ robbed' \subseteq Keys
      BY <1>1, <1>2 DEF TypeOK
    <2>4. QED
      BY <1>1, <1>3, <1>5, <2>1, <2>2, <2>3 DEF TypeOK, ProcessTypes
  <1>7. LocksExclude'
    <2>1. now \in Nat
      BY Parameters DEF TypeOK, Times
    <2>2. QED
      BY <1>1, <1>2, <1>3, <2>1, ExclusionKept
  <1>8. ClaimsAreExpired'
    <2> SUFFICES ASSUME NEW s \in Requests, NEW k \in claimed'[s], k \in DOMAIN expiresAt'
                 PROVE  expiresAt'[k] <= now
      BY <1>1 DEF ClaimsAreExpired
    <2>1. s # r /\ claimed'[s] = claimed[s] /\ s \in Procs
      BY <1>3 DEF OnlyProcess, Procs
    <2>2. k \notin new
      BY <1>2, <2>1 DEF LocksExclude, TypeOK
    <2>3. QED
      BY <1>4, <2>1, <2>2 DEF ClaimsAreExpired
  <1>9. ActiveRowsRemember'
    <2> SUFFICES ASSUME NEW k \in Keys \ robbed', window'[k] > now
                 PROVE  k \in DOMAIN expiresAt' /\ expiresAt'[k] = window'[k]
      BY <1>1 DEF ActiveRowsRemember
    <2>1. CASE k \in new
      BY <1>1, <1>4, <2>1
    <2>2. CASE k \notin new
      <3>1. window'[k] = window[k] /\ k \notin robbed
        BY <1>1, <2>2
      <3>2. QED
        BY <1>4, <2>2, <3>1 DEF ActiveRowsRemember
    <2>3. QED
      BY <2>1, <2>2
  <1>10. ChecksPassed'
    <2>1. ASSUME NEW d \in Days
          PROVE  \/ usage'[d] = usage[d]
                 \/ r \in Adding(d) /\ usage'[d] = usage[d] + Cardinality(new)
      <3>1. CASE d = day /\ new # {}
        BY <1>1, <1>5, <3>1 DEF Adding
      <3>2. CASE d # day
        BY <1>5, <3>2
      <3>3. CASE d = day /\ new = {}
        <4>1. Cardinality(new) = 0 /\ usage[d] \in Nat
          BY <3>3, FS_EmptySet DEF TypeOK
        <4>2. QED
          BY <1>5, <4>1
      <3>4. QED
        BY <3>1, <3>2, <3>3
    <2>2. QED
      BY <1>3, <2>1, Left
  <1>11. QED
    BY <1>6, <1>7, <1>8, <1>9, <1>10

LEMMA CommitCleanupInv ==
  ASSUME IInv, CommitCleanup
  PROVE  IInv'
  <1> USE DEF IInv
  <1> DEFINE gone == claimed[Cleanup]
  <1>1. /\ expiresAt' = [k \in DOMAIN expiresAt \ gone |-> expiresAt[k]]
        /\ robbed' = robbed \union {k \in gone : window[k] > now}
        /\ Finish(Cleanup) /\ pc[Cleanup] = "delete"
        /\ UNCHANGED <<now, usage, window>>
    BY DEF CommitCleanup
  <1>2. Cleanup \in Procs /\ gone \in SUBSET Keys /\ Cleanup \notin Requests
    BY Parameters DEF Procs, TypeOK
  <1>3. /\ OnlyProcess(Cleanup) /\ ProcessTypes'
        /\ pc'[Cleanup] = "idle" /\ locks'[Cleanup] = {} /\ started'[Cleanup] = 0
    BY <1>1, <1>2, FinishedProcess
  <1>4. /\ DOMAIN expiresAt' = DOMAIN expiresAt \ gone
        /\ \A k \in DOMAIN expiresAt' : expiresAt'[k] = expiresAt[k]
    BY <1>1
  <1>5. TypeOK'
    BY <1>1, <1>2, <1>3, <1>4 DEF TypeOK, ProcessTypes
  <1>6. LocksExclude'
    <2>1. now \in Nat
      BY Parameters DEF TypeOK, Times
    <2>2. QED
      BY <1>1, <1>2, <1>3, <2>1, ExclusionKept
  <1>7. ClaimsAreExpired'
    BY <1>1, <1>2, <1>3, <1>4 DEF ClaimsAreExpired, OnlyProcess, Procs
  <1>8. ActiveRowsRemember'
    BY <1>1, <1>4 DEF ActiveRowsRemember
  <1>9. ChecksPassed'
    BY <1>1, <1>2, <1>3, ChecksKept DEF OnlyProcess, Procs
  <1>10. QED
    BY <1>5, <1>6, <1>7, <1>8, <1>9

\* Time makes rows expire and windows end, never the other way round.
LEMMA TickInv ==
  ASSUME IInv, Tick
  PROVE  IInv'
  <1> USE DEF IInv
  <1>1. /\ now < MaxTime /\ now' = now + 1 /\ NoCommit
        /\ UNCHANGED <<pc, todo, locks, claimed, started, expiry>>
    BY DEF Tick
  <1>2. now \in Nat /\ now' \in Times
    BY <1>1, Parameters DEF TypeOK, Times
  <1>3. TypeOK'
    BY <1>1, <1>2 DEF TypeOK, NoCommit
  <1>4. LocksExclude'
    BY <1>1, <1>2, Parameters DEF LocksExclude, TypeOK, Times
  <1>5. ClaimsAreExpired'
    <2>1. \A k \in DOMAIN expiresAt : expiresAt[k] \in Int
      BY Parameters DEF TypeOK
    <2>2. QED
      BY <1>1, <1>2, <2>1 DEF ClaimsAreExpired, NoCommit
  <1>6. ActiveRowsRemember'
    <2>1. \A k \in Keys : window[k] \in Int
      BY Parameters DEF TypeOK
    <2>2. QED
      BY <1>1, <1>2, <2>1 DEF ActiveRowsRemember, NoCommit
  <1>7. ChecksPassed'
    BY <1>1, ChecksKept DEF NoCommit
  <1>8. QED
    BY <1>3, <1>4, <1>5, <1>6, <1>7

LEMMA NextInv == IInv /\ [Next]_vars => IInv'
  <1> SUFFICES ASSUME IInv, [Next]_vars PROVE IInv'
    OBVIOUS
  <1>1. ASSUME NEW r \in Requests, ClaimKey(r) PROVE IInv'
    <2>1. Claimable(r, Head(todo[r])) \in BOOLEAN /\ r \in Procs
      BY DEF Claimable, Procs
    <2>2. QED
      BY <1>1, <2>1, VisitInv DEF ClaimKey
  <1>2. CASE DeleteRow
    <2>1. Cleanup \in Procs /\ Cleanup \notin Requests
      BY Parameters DEF Procs
    <2>2. QED
      BY <1>2, <2>1, VisitInv DEF DeleteRow
  <1>3. ASSUME NEW p \in Procs, AbortDeadlock(p) \/ Crash(p) PROVE IInv'
    BY <1>3, EndInv DEF AbortDeadlock, Crash
  <1>4. CASE UNCHANGED vars
    <2>1. TypeOK' /\ LocksExclude' /\ ClaimsAreExpired' /\ ActiveRowsRemember'
      BY <1>4 DEF vars, IInv, TypeOK, LocksExclude, ClaimsAreExpired, ActiveRowsRemember,
           LockedByOther
    <2>2. ChecksPassed'
      BY <1>4, ChecksKept DEF vars, IInv
    <2>3. QED
      BY <2>1, <2>2 DEF IInv
  <1>5. QED
    BY <1>1, <1>2, <1>3, <1>4, BeginIngestInv, StartTransactionInv, CheckLimitInv,
       CommitInv, BeginCleanupInv, CommitCleanupInv, TickInv
       DEF Next, Ingest, Clean

-----------------------------------------------------------------------------
(* The theorems                                                            *)

\* Locks exclude each other, claims stay expired, and whoever has passed the
\* check of the limit stays within what is reserved.
THEOREM Invariance == Spec => []IInv
  <1>1. Init => IInv
    BY InitInv
  <1>2. IInv /\ [Next]_vars => IInv'
    BY NextInv
  <1>3. QED
    BY <1>1, <1>2, PTL DEF Spec

\* Keys, usage, processes and their locks keep their types.
THEOREM TypeCorrect == Spec => []TypeOK
  <1>1. IInv => TypeOK
    BY DEF IInv
  <1>2. QED
    BY <1>1, Invariance, PTL

\* A key row is there, with its expiry, as long as the window of the last
\* events it stands for, unless the cleanup robbed it.
THEOREM RowsRemember == Spec => []ActiveRowsRemember
  <1>1. IInv => ActiveRowsRemember
    BY DEF IInv
  <1>2. QED
    BY <1>1, Invariance, PTL

\* A retry inserts an event again only after the window of the first one, or
\* when the cleanup robbed the key.
THEOREM Replays == Spec => ReplaysInsertNothing
  <1>1. ASSUME IInv, NEW r \in Requests, NEW k \in claimed[r] \ robbed
        PROVE  k \in Keys => window[k] <= now
    <2>1. k \in DOMAIN expiresAt => expiresAt[k] <= now
      BY <1>1 DEF IInv, ClaimsAreExpired
    <2>2. k \in Keys => window[k] \in Int /\ now \in Int
      BY <1>1, Parameters DEF IInv, TypeOK, Times
    <2>3. k \in Keys /\ window[k] > now => k \in DOMAIN expiresAt /\ expiresAt[k] = window[k]
      BY <1>1 DEF IInv, ActiveRowsRemember
    <2>4. QED
      BY <2>1, <2>2, <2>3
  <1>2. IInv /\ [Next]_vars
          => [\A r \in Requests, k \in Keys :
                /\ pc[r] = "commit" /\ pc'[r] = "idle" /\ window' # window
                /\ k \in claimed[r] \ robbed
                => window[k] <= now]_vars
    BY <1>1
  <1>3. QED
    BY <1>2, Invariance, PTL DEF Spec, ReplaysInsertNothing

\* The daily limit is exceeded by requests that passed the check together, but
\* a day never counts more than the limit times the requests at a time.
THEOREM Overshoot == Spec => []OvershootIsBounded
  <1>1. ASSUME IInv, NEW d \in Days
        PROVE  usage[d] <= MaxPerDay * Cardinality(Requests)
    <2> DEFINE N == Cardinality(Requests)
               n == Cardinality(Adding(d))
    <2>1. Reserved(d) /\ usage[d] \in Nat
      BY <1>1 DEF IInv, ChecksPassed, TypeOK
    <2>2. CASE Adding(d) = {}
      BY <2>1, <2>2 DEF Reserved, Limit
    <2>3. CASE Adding(d) # {}
      <3>1. PICK r \in Adding(d) : usage[d] + Cardinality(claimed[r]) <= Limit((N - n) + 1)
        BY <2>1, <2>3 DEF Reserved
      <3>2. Cardinality(claimed[r]) \in Nat
        BY <1>1, FiniteKeys DEF IInv, TypeOK, Adding, Procs
      <3>3. Adding(d) \in SUBSET Requests
        BY DEF Adding
      <3>4. n \in Nat /\ N \in Nat /\ n <= N /\ n >= 1
        BY <2>3, <3>3, FiniteRequests
      <3>5. (N - n) + 1 \in Nat /\ (N - n) + 1 <= N
        BY <3>4
      <3>6. Limit((N - n) + 1) <= Limit(N) /\ Limit((N - n) + 1) \in Nat /\ Limit(N) \in Nat
        BY <3>4, <3>5, Limits
      <3>7. usage[d] <= Limit(N)
        BY <2>1, <3>1, <3>2, <3>6
      <3>8. QED
        BY <3>7 DEF Limit
    <2>4. QED
      BY <2>2, <2>3
  <1>2. IInv => OvershootIsBounded
    BY <1>1 DEF OvershootIsBounded
  <1>3. QED
    BY <1>2, Invariance, PTL

-----------------------------------------------------------------------------
(* Requests and what they have seen: the invariant of the refinement       *)

\* A request knows when it arrived, and has visited its whole batch when it commits.
RequestsTimely ==
  \A r \in Requests : pc[r] # "idle" =>
    /\ TTL <= expiry[r] /\ expiry[r] - TTL <= now
    /\ pc[r] = "begin" => locks[r] = {}
    /\ pc[r] # "begin" => expiry[r] - TTL <= started[r]
    /\ pc[r] = "commit" => todo[r] = <<>>

\* A row says when its key's window ends.
RowsAreWindows ==
  \A k \in DOMAIN expiresAt : expiresAt[k] = window[k] /\ k \notin robbed

\* What a request did not claim was active when it started, and its lock keeps it so.
SkippedAreActive ==
  \A r \in Requests : \A k \in locks[r] \ claimed[r] :
    k \in DOMAIN expiresAt /\ expiresAt[k] > started[r]

BatchInv == IInv /\ RequestsTimely /\ RowsAreWindows /\ SkippedAreActive

\* Steps that do not commit, of one process.
LEMMA QuietBatches ==
  ASSUME IInv, RowsAreWindows, SkippedAreActive, RequestsTimely,
         NEW p \in Procs, OnlyProcess(p), NoCommit, now' = now,
         p \in Requests =>
           /\ \A k \in locks'[p] \ claimed'[p] :
                k \in DOMAIN expiresAt /\ expiresAt[k] > started'[p]
           /\ pc'[p] # "idle" =>
                /\ TTL <= expiry'[p] /\ expiry'[p] - TTL <= now
                /\ pc'[p] = "begin" => locks'[p] = {}
                /\ pc'[p] # "begin" => expiry'[p] - TTL <= started'[p]
                /\ pc'[p] = "commit" => todo'[p] = <<>>
  PROVE  RequestsTimely' /\ RowsAreWindows' /\ SkippedAreActive'
  <1>1. RowsAreWindows'
    BY DEF RowsAreWindows, NoCommit
  <1>2. ASSUME NEW r \in Requests, r # p
        PROVE  /\ pc'[r] = pc[r] /\ todo'[r] = todo[r] /\ locks'[r] = locks[r]
               /\ claimed'[r] = claimed[r] /\ started'[r] = started[r]
               /\ expiry'[r] = expiry[r]
    BY <1>2 DEF OnlyProcess, Procs
  <1>3. RequestsTimely'
    BY <1>2 DEF RequestsTimely
  <1>4. SkippedAreActive'
    BY <1>2 DEF SkippedAreActive, NoCommit
  <1>5. QED
    BY <1>1, <1>3, <1>4

LEMMA EndBatch ==
  ASSUME BatchInv, NEW p \in Procs, Finish(p), NoCommit, now' = now
  PROVE  BatchInv'
  <1>1. IInv'
    BY EndInv DEF BatchInv
  <1>2. OnlyProcess(p) /\ pc'[p] = "idle" /\ locks'[p] = {}
    BY FinishedProcess DEF BatchInv, IInv
  <1>3. QED
    BY <1>1, <1>2, QuietBatches DEF BatchInv

LEMMA BeginBatch ==
  ASSUME BatchInv, NEW r \in Requests, BeginIngest(r)
  PROVE  BatchInv'
  <1>1. /\ pc[r] = "idle" /\ Goto(r, "begin") /\ expiry' = [expiry EXCEPT ![r] = now + TTL]
        /\ \E batch : todo' = [todo EXCEPT ![r] = batch]
        /\ UNCHANGED <<now, locks, claimed, started>> /\ NoCommit
    BY DEF BeginIngest
  <1>2. r \in Procs /\ now \in Nat /\ TTL \in Nat
    BY Parameters DEF Procs, BatchInv, IInv, TypeOK, Times
  <1>3. /\ OnlyProcess(r) /\ pc'[r] = "begin" /\ expiry'[r] = now + TTL
        /\ locks'[r] = {}
    BY <1>1, <1>2 DEF OnlyProcess, Goto, BatchInv, IInv, TypeOK
  <1>4. IInv'
    BY BeginIngestInv DEF BatchInv
  <1>5. RequestsTimely' /\ RowsAreWindows' /\ SkippedAreActive'
    BY <1>1, <1>2, <1>3, QuietBatches DEF BatchInv
  <1>6. QED
    BY <1>4, <1>5 DEF BatchInv

LEMMA StartBatch ==
  ASSUME BatchInv, NEW r \in Requests, StartTransaction(r)
  PROVE  BatchInv'
  <1>1. /\ pc[r] = "begin" /\ Goto(r, "claim") /\ started' = [started EXCEPT ![r] = now]
        /\ UNCHANGED <<now, todo, locks, claimed, expiry>> /\ NoCommit
    BY DEF StartTransaction
  <1>2. r \in Procs
    BY DEF Procs
  <1>3. OnlyProcess(r) /\ pc'[r] = "claim" /\ started'[r] = now
    BY <1>1, <1>2 DEF OnlyProcess, Goto, BatchInv, IInv, TypeOK
  <1>4. locks[r] = {} /\ TTL <= expiry[r] /\ expiry[r] - TTL <= now
    BY <1>1 DEF BatchInv, RequestsTimely
  <1>5. IInv'
    BY StartTransactionInv DEF BatchInv
  <1>6. RequestsTimely' /\ RowsAreWindows' /\ SkippedAreActive'
    BY <1>1, <1>2, <1>3, <1>4, QuietBatches DEF BatchInv
  <1>7. QED
    BY <1>5, <1>6 DEF BatchInv

\* The keys a statement has yet to visit or has visited stay the same.
LEMMA VisitedBatch ==
  ASSUME NEW s \in Seq(Keys), s # <<>>
  PROVE  ToSet(s) = {Head(s)} \union ToSet(Tail(s))
  <1>1. /\ Head(s) = s[1] /\ Len(s) \in Nat /\ Len(s) >= 1 /\ DOMAIN s = 1..Len(s)
        /\ Tail(s) \in Seq(Keys) /\ Len(Tail(s)) = Len(s) - 1
        /\ DOMAIN Tail(s) = 1..(Len(s) - 1)
        /\ \A i \in 1..(Len(s) - 1) : Tail(s)[i] = s[i + 1]
    OBVIOUS
  <1>2. ASSUME NEW k \in ToSet(s) PROVE k = Head(s) \/ k \in ToSet(Tail(s))
    <2>1. PICK i \in 1..Len(s) : k = s[i]
      BY <1>1 DEF ToSet
    <2>2. CASE i = 1
      BY <1>1, <2>1, <2>2
    <2>3. CASE i # 1
      <3>1. i - 1 \in 1..(Len(s) - 1) /\ (i - 1) + 1 = i
        BY <1>1, <2>3
      <3>2. Tail(s)[i - 1] = k /\ DOMAIN Tail(s) = 1..(Len(s) - 1)
        BY <1>1, <2>1, <3>1
      <3>3. QED
        BY <3>1, <3>2 DEF ToSet
    <2>4. QED
      BY <2>2, <2>3
  <1>3. Head(s) \in ToSet(s)
    BY <1>1 DEF ToSet
  <1>4. ASSUME NEW k \in ToSet(Tail(s)) PROVE k \in ToSet(s)
    <2>1. PICK i \in 1..(Len(s) - 1) : k = s[i + 1]
      BY <1>1 DEF ToSet
    <2>2. i + 1 \in 1..Len(s)
      BY <1>1
    <2>3. QED
      BY <1>1, <2>1, <2>2 DEF ToSet
  <1>5. QED
    BY <1>2, <1>3, <1>4

LEMMA VisitBatch ==
  ASSUME BatchInv, NEW p \in Procs, NEW claims \in BOOLEAN, pc[p] \in {"claim", "delete"},
         Visit(p, claims), UNCHANGED <<now, pc, started, expiry>>, NoCommit,
         p \in Requests => claims = Claimable(p, Head(todo[p]))
  PROVE  BatchInv'
  <1> DEFINE k == Head(todo[p])
  <1>1. /\ OnlyProcess(p) /\ locks'[p] = locks[p] \union {k}
        /\ claimed[p] \subseteq claimed'[p]
    BY VisitedRow DEF BatchInv, IInv
  <1>2. claims => k \in claimed'[p]
    BY DEF Visit, BatchInv, IInv, TypeOK
  <1>3. ASSUME p \in Requests, NEW j \in locks'[p] \ claimed'[p]
        PROVE  j \in DOMAIN expiresAt /\ expiresAt[j] > started[p]
    <2>1. CASE j \in locks[p] \ claimed[p]
      BY <1>3, <2>1 DEF BatchInv, SkippedAreActive
    <2>2. CASE j = k /\ ~claims
      <3>1. ~Claimable(p, k)
        BY <1>3, <2>2
      <3>2. k \in DOMAIN expiresAt /\ ~(expiresAt[k] <= started[p])
        BY <3>1 DEF Claimable
      <3>3. expiresAt[k] \in Int /\ started[p] \in Int
        BY <3>2, Parameters DEF BatchInv, IInv, TypeOK, Times
      <3>4. QED
        BY <2>2, <3>2, <3>3
    <2>3. QED
      BY <1>1, <1>2, <1>3, <2>1, <2>2
  <1>4. IInv'
    BY VisitInv DEF BatchInv
  <1>5. RequestsTimely' /\ RowsAreWindows' /\ SkippedAreActive'
    BY <1>1, <1>3, QuietBatches DEF BatchInv, RequestsTimely
  <1>6. QED
    BY <1>4, <1>5 DEF BatchInv

LEMMA CheckBatch ==
  ASSUME BatchInv, NEW r \in Requests, CheckLimit(r)
  PROVE  BatchInv'
  <1>1. r \in Procs /\ pc[r] = "claim" /\ todo[r] = <<>> /\ now' = now /\ NoCommit
    BY DEF CheckLimit, Procs
  <1>2. CASE Goto(r, "commit") /\ UNCHANGED <<todo, locks, claimed, started, expiry>>
    <2>1. OnlyProcess(r) /\ pc'[r] = "commit"
      BY <1>1, <1>2 DEF OnlyProcess, Goto, BatchInv, IInv, TypeOK
    <2>2. IInv'
      BY CheckLimitInv DEF BatchInv
    <2>3. RequestsTimely' /\ RowsAreWindows' /\ SkippedAreActive'
      BY <1>1, <1>2, <2>1, QuietBatches DEF BatchInv, RequestsTimely, SkippedAreActive
    <2>4. QED
      BY <2>2, <2>3 DEF BatchInv
  <1>3. CASE Finish(r)
    BY <1>1, <1>3, EndBatch
  <1>4. QED
    BY <1>2, <1>3 DEF CheckLimit

LEMMA CommitBatch ==
  ASSUME BatchInv, NEW r \in Requests, Commit(r)
  PROVE  BatchInv'
  <1> DEFINE new == claimed[r]
  <1>1. /\ expiresAt' = [k \in new \union DOMAIN expiresAt |->
                           IF k \in new THEN expiry[r] ELSE expiresAt[k]]
        /\ window' = [k \in Keys |-> IF k \in new THEN expiry[r] ELSE window[k]]
        /\ robbed' = robbed \ new
        /\ Finish(r) /\ now' = now
    BY DEF Commit
  <1>2. /\ r \in Procs /\ new \subseteq Keys /\ DOMAIN expiresAt \subseteq Keys
        /\ new \subseteq locks[r]
    BY DEF Procs, BatchInv, IInv, TypeOK
  <1>3. OnlyProcess(r) /\ pc'[r] = "idle" /\ locks'[r] = {}
    BY <1>1, <1>2, FinishedProcess DEF BatchInv, IInv
  <1>4. IInv'
    BY CommitInv DEF BatchInv
  <1>5. ASSUME NEW s \in Requests, s # r
        PROVE  /\ pc'[s] = pc[s] /\ todo'[s] = todo[s] /\ locks'[s] = locks[s]
               /\ claimed'[s] = claimed[s] /\ started'[s] = started[s]
               /\ expiry'[s] = expiry[s] /\ s \in Procs
    BY <1>3, <1>5 DEF OnlyProcess, Procs
  <1>6. RequestsTimely'
    BY <1>1, <1>3, <1>5 DEF BatchInv, RequestsTimely
  <1>7. RowsAreWindows'
    <2> SUFFICES ASSUME NEW k \in new \union DOMAIN expiresAt
                 PROVE  expiresAt'[k] = window'[k] /\ k \notin robbed'
      BY <1>1 DEF RowsAreWindows
    <2>1. k \in Keys
      BY <1>2
    <2>2. CASE k \in new
      BY <1>1, <2>1, <2>2
    <2>3. CASE k \notin new
      BY <1>1, <2>1, <2>3 DEF BatchInv, RowsAreWindows
    <2>4. QED
      BY <2>2, <2>3
  <1>8. SkippedAreActive'
    <2> SUFFICES ASSUME NEW s \in Requests, NEW k \in locks'[s] \ claimed'[s]
                 PROVE  k \in DOMAIN expiresAt' /\ expiresAt'[k] > started'[s]
      BY DEF SkippedAreActive
    <2>1. s # r /\ locks'[s] = locks[s] /\ claimed'[s] = claimed[s] /\ s \in Procs
          /\ started'[s] = started[s]
      BY <1>3, <1>5
    <2>2. k \notin new
      BY <1>2, <2>1 DEF BatchInv, IInv, LocksExclude
    <2>3. k \in DOMAIN expiresAt /\ expiresAt[k] > started[s]
      BY <2>1 DEF BatchInv, SkippedAreActive
    <2>4. QED
      BY <1>1, <2>1, <2>2, <2>3
  <1>9. QED
    BY <1>4, <1>6, <1>7, <1>8 DEF BatchInv

LEMMA CleanBatches ==
  ASSUME BatchInv, CommitCleanup
  PROVE  BatchInv'
  <1> DEFINE gone == claimed[Cleanup]
  <1>1. /\ expiresAt' = [k \in DOMAIN expiresAt \ gone |-> expiresAt[k]]
        /\ robbed' = robbed \union {k \in gone : window[k] > now}
        /\ Finish(Cleanup) /\ UNCHANGED <<now, usage, window>>
    BY DEF CommitCleanup
  <1>2. Cleanup \in Procs /\ Cleanup \notin Requests /\ gone \subseteq locks[Cleanup]
    BY Parameters DEF Procs, BatchInv, IInv, TypeOK
  <1>3. OnlyProcess(Cleanup)
    BY <1>1, <1>2, FinishedProcess DEF BatchInv, IInv
  <1>4. IInv'
    BY CommitCleanupInv DEF BatchInv
  <1>5. ASSUME NEW s \in Requests
        PROVE  /\ pc'[s] = pc[s] /\ todo'[s] = todo[s] /\ locks'[s] = locks[s]
               /\ claimed'[s] = claimed[s] /\ started'[s] = started[s]
               /\ expiry'[s] = expiry[s] /\ s \in Procs /\ s # Cleanup
    BY <1>2, <1>3, <1>5 DEF OnlyProcess, Procs
  <1>6. RequestsTimely'
    BY <1>1, <1>5 DEF BatchInv, RequestsTimely
  <1>7. RowsAreWindows'
    BY <1>1 DEF BatchInv, RowsAreWindows
  <1>8. SkippedAreActive'
    <2> SUFFICES ASSUME NEW s \in Requests, NEW k \in locks'[s] \ claimed'[s]
                 PROVE  k \in DOMAIN expiresAt' /\ expiresAt'[k] > started'[s]
      BY DEF SkippedAreActive
    <2>1. k \notin gone
      BY <1>2, <1>5 DEF BatchInv, IInv, LocksExclude
    <2>2. k \in DOMAIN expiresAt /\ expiresAt[k] > started[s]
      BY <1>5 DEF BatchInv, SkippedAreActive
    <2>3. QED
      BY <1>1, <1>5, <2>1, <2>2
  <1>9. QED
    BY <1>4, <1>6, <1>7, <1>8 DEF BatchInv

LEMMA CleaningBatches ==
  ASSUME BatchInv, BeginCleanup \/ Tick \/ UNCHANGED vars
  PROVE  BatchInv'
  <1>1. IInv'
    BY NextInv DEF BatchInv, Next
  <1>2. CASE BeginCleanup
    <2>1. Cleanup \in Procs /\ Cleanup \notin Requests
      BY Parameters DEF Procs
    <2>2. OnlyProcess(Cleanup) /\ NoCommit /\ now' = now
      BY <1>2, <2>1 DEF BeginCleanup, OnlyProcess, Goto, BatchInv, IInv, TypeOK
    <2>3. QED
      BY <1>1, <2>1, <2>2, QuietBatches DEF BatchInv
  <1>3. CASE Tick
    <2>1. /\ now' = now + 1 /\ now \in Int /\ TTL \in Int
          /\ \A p \in Procs : expiry[p] \in Int
          /\ UNCHANGED <<pc, todo, locks, claimed, started, expiry, expiresAt, window, robbed>>
      BY <1>3, Parameters DEF Tick, NoCommit, BatchInv, IInv, TypeOK, Times
    <2>2. RequestsTimely'
      BY <2>1 DEF BatchInv, RequestsTimely, Procs
    <2>3. RowsAreWindows' /\ SkippedAreActive'
      BY <2>1 DEF BatchInv, RowsAreWindows, SkippedAreActive
    <2>4. QED
      BY <1>1, <2>2, <2>3 DEF BatchInv
  <1>4. CASE UNCHANGED vars
    BY <1>1, <1>4 DEF vars, BatchInv, RequestsTimely, RowsAreWindows, SkippedAreActive
  <1>5. QED
    BY <1>2, <1>3, <1>4

LEMMA BatchInvariant == Spec => []BatchInv
  <1>1. Init => BatchInv
    BY InitInv DEF Init, BatchInv, RequestsTimely, RowsAreWindows, SkippedAreActive, Procs
  <1>2. BatchInv /\ [Next]_vars => BatchInv'
    <2> SUFFICES ASSUME BatchInv, [Next]_vars PROVE BatchInv'
      OBVIOUS
    <2>1. ASSUME NEW r \in Requests, ClaimKey(r) PROVE BatchInv'
      <3>1. Claimable(r, Head(todo[r])) \in BOOLEAN /\ r \in Procs
        BY DEF Claimable, Procs
      <3>2. QED
        BY <2>1, <3>1, VisitBatch DEF ClaimKey
    <2>2. CASE DeleteRow
      <3>1. Cleanup \in Procs /\ Cleanup \notin Requests
        BY Parameters DEF Procs
      <3>2. QED
        BY <2>2, <3>1, VisitBatch DEF DeleteRow
    <2>3. ASSUME NEW p \in Procs, AbortDeadlock(p) \/ Crash(p) PROVE BatchInv'
      BY <2>3, EndBatch DEF AbortDeadlock, Crash
    <2>4. QED
      BY <2>1, <2>2, <2>3, BeginBatch, StartBatch, CheckBatch, CommitBatch, CleanBatches,
         CleaningBatches DEF Next, Ingest, Clean
  <1>3. QED
    BY <1>1, <1>2, PTL DEF Spec

\* A request that is not over has a batch.
BatchesRemain == \A r \in Requests : pc[r] # "idle" => ToSet(todo[r]) \union locks[r] # {}

LEMMA BatchHasKeys ==
  ASSUME NEW batch \in SetToAllKPermutations(Keys) \ {<<>>}
  PROVE  ToSet(batch) \in (SUBSET Keys) \ {{}}
  <1>1. batch \in Seq(Keys) /\ batch # <<>>
    BY BatchIsSequence
  <1>2. Head(batch) \in ToSet(batch)
    BY <1>1, VisitedBatch
  <1>3. ToSet(batch) \subseteq Keys
    BY <1>1 DEF ToSet
  <1>4. QED
    BY <1>2, <1>3

\* The other processes keep their batches.
LEMMA OthersRemain ==
  ASSUME BatchesRemain, NEW p \in Procs, OnlyProcess(p),
         p \in Requests /\ pc'[p] # "idle" => ToSet(todo'[p]) \union locks'[p] # {}
  PROVE  BatchesRemain'
  <1>1. ASSUME NEW r \in Requests, r # p
        PROVE  pc'[r] = pc[r] /\ todo'[r] = todo[r] /\ locks'[r] = locks[r]
    BY <1>1 DEF OnlyProcess, Procs
  <1>2. QED
    BY <1>1 DEF BatchesRemain

LEMMA BatchesStay ==
  ASSUME BatchInv, BatchesRemain, [Next]_vars
  PROVE  BatchesRemain'
  <1>1. ASSUME NEW p \in Procs, Finish(p) PROVE BatchesRemain'
    <2>1. OnlyProcess(p) /\ pc'[p] = "idle"
      BY <1>1, FinishedProcess DEF BatchInv, IInv
    <2>2. QED
      BY <2>1, OthersRemain
  <1>2. ASSUME NEW p \in Procs, NEW claims \in BOOLEAN, pc[p] # "idle",
               Visit(p, claims), UNCHANGED <<now, pc, started, expiry>>
        PROVE  BatchesRemain'
    <2>1. OnlyProcess(p) /\ locks'[p] = locks[p] \union {Head(todo[p])}
      BY <1>2, VisitedRow DEF BatchInv, IInv
    <2>2. QED
      BY <2>1, OthersRemain
  <1>3. ASSUME NEW r \in Requests, BeginIngest(r) PROVE BatchesRemain'
    <2>1. PICK batch \in SetToAllKPermutations(Keys) \ {<<>>} :
            Goto(r, "begin") /\ todo' = [todo EXCEPT ![r] = batch]
            /\ expiry' = [expiry EXCEPT ![r] = now + TTL]
            /\ UNCHANGED <<now, locks, claimed, started>>
      BY <1>3 DEF BeginIngest
    <2>2. r \in Procs /\ ToSet(batch) # {}
      BY BatchHasKeys DEF Procs
    <2>3. OnlyProcess(r) /\ todo'[r] = batch
      BY <2>1, <2>2 DEF OnlyProcess, Goto, BatchInv, IInv, TypeOK
    <2>4. QED
      BY <2>2, <2>3, OthersRemain
  <1>4. ASSUME NEW r \in Requests, pc[r] # "idle", NEW label, Goto(r, label),
               UNCHANGED <<todo, locks>>
        PROVE  BatchesRemain'
    <2>1. \A s \in Requests \ {r} : pc'[s] = pc[s]
      BY <1>4 DEF Goto, BatchInv, IInv, TypeOK, Procs
    <2>2. QED
      BY <1>4, <2>1 DEF BatchesRemain
  <1>5. ASSUME NEW r \in Requests, Ingest(r) PROVE BatchesRemain'
    <2>1. r \in Procs /\ Claimable(r, Head(todo[r])) \in BOOLEAN
      BY DEF Procs, Claimable
    <2>2. QED
      BY <1>1, <1>2, <1>4, <1>5, <2>1 DEF Ingest, StartTransaction, ClaimKey, CheckLimit, Commit
  <1>6. CASE Clean
    <2>1. Cleanup \in Procs
      BY DEF Procs
    <2>2. QED
      BY <1>1, <1>2, <1>6, <2>1 DEF Clean, DeleteRow, CommitCleanup
  <1>7. CASE BeginCleanup
    <2>1. \A r \in Requests : pc'[r] = pc[r] /\ todo'[r] = todo[r] /\ locks'[r] = locks[r]
      BY <1>7, Parameters DEF BeginCleanup, Goto, BatchInv, IInv, TypeOK, Procs
    <2>2. QED
      BY <2>1 DEF BatchesRemain
  <1>8. ASSUME NEW p \in Procs, AbortDeadlock(p) \/ Crash(p) PROVE BatchesRemain'
    BY <1>1, <1>8 DEF AbortDeadlock, Crash
  <1>9. CASE Tick \/ UNCHANGED vars
    BY <1>9 DEF Tick, vars, BatchesRemain
  <1>10. QED
    BY <1>3, <1>5, <1>6, <1>7, <1>8, <1>9 DEF Next

-----------------------------------------------------------------------------
(* The refinement of Deduplication                                         *)

\* A step of one process is a step of its batch, if it has one.
LEMMA OtherBatches ==
  ASSUME NEW p \in Procs, OnlyProcess(p)
  PROVE  \A r \in Requests \ {p} : Asked'[r] = Asked[r]
  BY DEF OnlyProcess, Asked, Procs

LEMMA BatchOf ==
  ASSUME NEW r \in Requests
  PROVE  Asked[r] = IF pc[r] = "idle"
                      THEN Promise!NoBatch
                      ELSE [keys |-> ToSet(todo[r]) \union locks[r], at |-> expiry[r] - TTL]
  BY DEF Asked, Promise!NoBatch

\* Where nothing is seen from outside.
LEMMA SameBatches ==
  ASSUME \A r \in Requests : Asked'[r] = Asked[r], NoCommit, now' = now
  PROVE  UNCHANGED Promise!vars
  <1>1. Asked' = Asked
    BY DEF Asked
  <1>2. QED
    BY <1>1 DEF Promise!vars, NoCommit

LEMMA BatchEnds ==
  ASSUME BatchInv, NEW p \in Procs, Finish(p)
  PROVE  /\ p \in Requests => Asked' = [Asked EXCEPT ![p] = Promise!NoBatch]
         /\ p \notin Requests => Asked' = Asked
  <1>1. OnlyProcess(p) /\ pc'[p] = "idle"
    BY FinishedProcess DEF BatchInv, IInv
  <1>2. \A r \in Requests \ {p} : Asked'[r] = Asked[r]
    BY <1>1, OtherBatches
  <1>3. p \in Requests => Asked'[p] = Promise!NoBatch
    BY <1>1 DEF Asked, Promise!NoBatch
  <1>4. Asked = [r \in Requests |-> Asked[r]] /\ Asked' = [r \in Requests |-> Asked'[r]]
    BY DEF Asked
  <1> HIDE DEF Asked
  <1>5. QED
    BY <1>2, <1>3, <1>4

\* A request that ends without a commit, and a process that is none.
LEMMA EndRefuses ==
  ASSUME BatchInv, NEW p \in Procs, Finish(p), NoCommit, now' = now
  PROVE  [Promise!Next]_(Promise!vars)
  <1>1. CASE p \in Requests /\ Asked[p] # Promise!NoBatch
    <2>1. Promise!Refuse(p)
      BY <1>1, BatchEnds DEF Promise!Refuse, NoCommit
    <2>2. QED
      BY <1>1, <2>1 DEF Promise!Next
  <1>2. CASE p \in Requests /\ Asked[p] = Promise!NoBatch
    <2>1. \A r \in Requests : Asked'[r] = Asked[r]
      BY <1>2, BatchEnds DEF Asked
    <2>2. QED
      BY <2>1, SameBatches
  <1>3. CASE p \notin Requests
    BY <1>3, BatchEnds, SameBatches
  <1>4. QED
    BY <1>1, <1>2, <1>3

LEMMA BeginAsks ==
  ASSUME BatchInv, NEW r \in Requests, BeginIngest(r)
  PROVE  Promise!Ask(r)
  <1>1. PICK batch \in SetToAllKPermutations(Keys) \ {<<>>} :
          /\ pc[r] = "idle" /\ Goto(r, "begin")
          /\ todo' = [todo EXCEPT ![r] = batch]
          /\ expiry' = [expiry EXCEPT ![r] = now + TTL]
          /\ UNCHANGED <<now, locks, claimed, started>> /\ NoCommit
    BY DEF BeginIngest
  <1>2. r \in Procs /\ now \in Nat /\ TTL \in Nat
    BY Parameters DEF Procs, BatchInv, IInv, TypeOK, Times
  <1>3. /\ OnlyProcess(r) /\ pc'[r] = "begin" /\ todo'[r] = batch
        /\ expiry'[r] - TTL = now /\ locks'[r] = {}
    BY <1>1, <1>2 DEF OnlyProcess, Goto, BatchInv, IInv, TypeOK
  <1>4. ToSet(batch) \in (SUBSET Keys) \ {{}}
    BY BatchHasKeys
  <1>5. Asked'[r] = [keys |-> ToSet(batch), at |-> now]
    BY <1>3 DEF Asked
  <1>6. Asked[r] = Promise!NoBatch
    BY <1>1, BatchOf
  <1>7. \A s \in Requests \ {r} : Asked'[s] = Asked[s]
    BY <1>2, <1>3, OtherBatches
  <1>8. Asked = [s \in Requests |-> Asked[s]] /\ Asked' = [s \in Requests |-> Asked'[s]]
    BY DEF Asked
  <1> HIDE DEF Asked
  <1>9. Asked' = [Asked EXCEPT ![r] = [keys |-> ToSet(batch), at |-> now]]
    BY <1>5, <1>7, <1>8
  <1>10. QED
    BY <1>1, <1>4, <1>6, <1>9 DEF Promise!Ask, NoCommit

\* A commit stores what was new when its transaction started, and nothing that is
\* not new now.
LEMMA CommitStores ==
  ASSUME BatchInv, BatchesRemain, NEW r \in Requests, Commit(r)
  PROVE  Promise!Store(r)
  <1> DEFINE new == claimed[r]
             batch == Asked[r]
             t == started[r]
  <1>1. /\ pc[r] = "commit"
        /\ usage' = [usage EXCEPT ![Day(t)] = @ + Cardinality(new)]
        /\ window' = [k \in Keys |-> IF k \in new THEN expiry[r] ELSE window[k]]
        /\ robbed' = robbed \ new
        /\ Finish(r) /\ now' = now
    BY DEF Commit
  <1>2. r \in Procs /\ new \subseteq locks[r] /\ locks[r] \subseteq Keys
    BY DEF Procs, BatchInv, IInv, TypeOK
  <1>3. /\ t \in Nat /\ now \in Nat /\ TTL \in Nat /\ expiry[r] \in Nat
        /\ \A k \in Keys : window[k] \in Nat
        /\ \A k \in DOMAIN expiresAt : expiresAt[k] \in Nat
    BY <1>2, Parameters DEF BatchInv, IInv, TypeOK, Times
  <1>4. /\ TTL <= expiry[r] /\ expiry[r] - TTL <= t /\ t <= now /\ todo[r] = <<>>
    BY <1>1, <1>2 DEF BatchInv, RequestsTimely, IInv, LocksExclude
  <1>5. batch.keys = locks[r] /\ batch.at = expiry[r] - TTL /\ batch # Promise!NoBatch
    <2>1. ToSet(todo[r]) = {}
      BY <1>4 DEF ToSet
    <2>2. batch = [keys |-> locks[r], at |-> expiry[r] - TTL]
      BY <1>1, <2>1, BatchOf
    <2>3. locks[r] # {}
      BY <1>1, <2>1 DEF BatchesRemain
    <2>4. Promise!NoBatch.keys = {}
      BY DEF Promise!NoBatch
    <2> HIDE DEF batch
    <2>5. QED
      BY <2>2, <2>3, <2>4
  <1> HIDE DEF batch
  <1>6. t \in batch.at..now /\ new \in SUBSET batch.keys /\ batch.at + TTL = expiry[r]
    BY <1>2, <1>3, <1>4, <1>5
  <1>7. batch.keys \intersect Promise!Fresh(t) \subseteq new
    <2> SUFFICES ASSUME NEW k \in locks[r] \ new
                 PROVE  k \notin Promise!Fresh(t)
      BY <1>5
    <2>1. k \in DOMAIN expiresAt /\ expiresAt[k] > t
      BY DEF BatchInv, SkippedAreActive
    <2>2. window[k] = expiresAt[k] /\ k \notin robbed
      BY <2>1 DEF BatchInv, RowsAreWindows
    <2>3. QED
      BY <1>2, <1>3, <2>1, <2>2 DEF Promise!Fresh
  <1>8. new \subseteq Promise!Fresh(now)
    <2> SUFFICES ASSUME NEW k \in new, k \notin robbed, window[k] > now
                 PROVE  FALSE
      BY <1>2, <1>3 DEF Promise!Fresh
    <2>1. k \in DOMAIN expiresAt /\ expiresAt[k] = window[k]
      BY <1>2 DEF BatchInv, IInv, ActiveRowsRemember
    <2>2. expiresAt[k] <= now
      BY <2>1 DEF BatchInv, IInv, ClaimsAreExpired
    <2>3. QED
      BY <1>3, <2>1, <2>2
  <1>9. Cardinality(new) <= MaxPerDay
    <2>1. CASE new = {}
      BY <2>1, Parameters, FS_EmptySet
    <2>2. CASE new # {}
      BY <1>1, <2>2 DEF BatchInv, IInv, ChecksPassed
    <2>3. QED
      BY <2>1, <2>2
  <1>10. Asked' = [Asked EXCEPT ![r] = Promise!NoBatch]
    BY <1>1, <1>2, BatchEnds
  <1>11. /\ usage' = [usage EXCEPT ![Promise!Day(t)] = @ + Cardinality(new)]
         /\ window' = [k \in Keys |-> IF k \in new THEN batch.at + TTL ELSE window[k]]
    BY <1>1, <1>6 DEF Day, Promise!Day
  <1>12. \E u \in batch.at..now, stored \in SUBSET batch.keys :
           /\ batch.keys \intersect Promise!Fresh(u) \subseteq stored
           /\ stored \subseteq Promise!Fresh(now)
           /\ Cardinality(stored) <= MaxPerDay
           /\ usage' = [usage EXCEPT ![Promise!Day(u)] = @ + Cardinality(stored)]
           /\ window' = [k \in Keys |-> IF k \in stored THEN batch.at + TTL ELSE window[k]]
           /\ robbed' = robbed \ stored
    <2> HIDE DEF new, t
    <2> QED
      BY <1>1, <1>6, <1>7, <1>8, <1>9, <1>11
  <1>13. \A S : Promise!Cardinality(S) = Cardinality(S)
    BY DEF Promise!Cardinality, Cardinality
  <1>14. QED
    BY <1>1, <1>5, <1>10, <1>12, <1>13 DEF Promise!Store, batch

\* A row that is visited stays in the batch.
LEMMA VisitShowsNothing ==
  ASSUME BatchInv, NEW p \in Procs, NEW claims \in BOOLEAN, pc[p] # "idle",
         Visit(p, claims), UNCHANGED <<now, pc, started, expiry>>, NoCommit
  PROVE  UNCHANGED Promise!vars
  <1>1. /\ OnlyProcess(p) /\ locks'[p] = locks[p] \union {Head(todo[p])}
        /\ todo'[p] = Tail(todo[p]) /\ todo[p] \in Seq(Keys) /\ todo[p] # <<>>
    BY VisitedRow DEF BatchInv, IInv, TypeOK, Visit
  <1>2. ToSet(todo'[p]) \union locks'[p] = ToSet(todo[p]) \union locks[p]
    BY <1>1, VisitedBatch
  <1>3. ASSUME NEW r \in Requests PROVE Asked'[r] = Asked[r]
    <2>1. CASE r = p
      BY <1>2, <2>1 DEF Asked
    <2>2. CASE r # p
      BY <1>1, <2>2, OtherBatches
    <2>3. QED
      BY <2>1, <2>2
  <1>4. QED
    BY <1>3, SameBatches

LEMMA CleanupForgets ==
  ASSUME BatchInv, CommitCleanup
  PROVE  Promise!Forget
  <1>1. /\ robbed' = robbed \union {k \in claimed[Cleanup] : window[k] > now}
        /\ Finish(Cleanup) /\ UNCHANGED <<now, usage, window>>
    BY DEF CommitCleanup
  <1>2. Cleanup \in Procs /\ Cleanup \notin Requests /\ claimed[Cleanup] \subseteq Keys
    BY Parameters DEF Procs, BatchInv, IInv, TypeOK
  <1>3. Asked' = Asked
    BY <1>1, <1>2, BatchEnds
  <1>4. {k \in claimed[Cleanup] : window[k] > now} \in SUBSET {k \in Keys : window[k] > now}
    BY <1>2
  <1>5. QED
    BY <1>1, <1>3, <1>4 DEF Promise!Forget

LEMMA BatchStep == BatchInv /\ BatchesRemain /\ [Next]_vars => [Promise!Next]_(Promise!vars)
  <1> SUFFICES ASSUME BatchInv, BatchesRemain, [Next]_vars PROVE [Promise!Next]_(Promise!vars)
    OBVIOUS
  <1>1. ASSUME NEW r \in Requests, BeginIngest(r) PROVE Promise!Next
    BY <1>1, BeginAsks DEF Promise!Next
  <1>2. ASSUME NEW r \in Requests, StartTransaction(r) PROVE UNCHANGED Promise!vars
    <2>1. /\ pc[r] = "begin" /\ pc'[r] = "claim" /\ \A s \in Requests \ {r} : pc'[s] = pc[s]
          /\ UNCHANGED <<now, todo, locks, expiry>> /\ NoCommit
      BY <1>2 DEF StartTransaction, Goto, BatchInv, IInv, TypeOK, Procs
    <2>2. \A s \in Requests : Asked'[s] = Asked[s]
      BY <2>1 DEF Asked
    <2>3. QED
      BY <2>1, <2>2, SameBatches
  <1>3. ASSUME NEW r \in Requests, ClaimKey(r) PROVE UNCHANGED Promise!vars
    <2>1. Claimable(r, Head(todo[r])) \in BOOLEAN /\ r \in Procs
      BY DEF Claimable, Procs
    <2>2. QED
      BY <1>3, <2>1, VisitShowsNothing DEF ClaimKey
  <1>4. ASSUME NEW r \in Requests, CheckLimit(r) PROVE [Promise!Next]_(Promise!vars)
    <2>1. r \in Procs /\ pc[r] = "claim" /\ now' = now /\ NoCommit
      BY <1>4 DEF CheckLimit, Procs
    <2>2. CASE Goto(r, "commit") /\ UNCHANGED <<todo, locks, claimed, started, expiry>>
      <3>1. pc'[r] = "commit" /\ \A s \in Requests \ {r} : pc'[s] = pc[s]
        BY <2>1, <2>2 DEF Goto, BatchInv, IInv, TypeOK, Procs
      <3>2. \A s \in Requests : Asked'[s] = Asked[s]
        BY <2>1, <2>2, <3>1 DEF Asked
      <3>3. QED
        BY <2>1, <3>2, SameBatches
    <2>3. CASE Finish(r)
      BY <2>1, <2>3, EndRefuses
    <2>4. QED
      BY <1>4, <2>2, <2>3 DEF CheckLimit
  <1>5. ASSUME NEW r \in Requests, Commit(r) PROVE Promise!Next
    BY <1>5, CommitStores DEF Promise!Next
  <1>6. CASE BeginCleanup
    <2>1. /\ \A r \in Requests : pc'[r] = pc[r] /\ todo'[r] = todo[r]
          /\ UNCHANGED <<now, locks, expiry>> /\ NoCommit
      BY <1>6, Parameters DEF BeginCleanup, Goto, BatchInv, IInv, TypeOK, Procs
    <2>2. \A r \in Requests : Asked'[r] = Asked[r]
      BY <2>1 DEF Asked
    <2>3. QED
      BY <2>1, <2>2, SameBatches
  <1>7. CASE DeleteRow
    <2>1. Cleanup \in Procs
      BY DEF Procs
    <2>2. QED
      BY <1>7, <2>1, VisitShowsNothing DEF DeleteRow
  <1>8. CASE CommitCleanup
    BY <1>8, CleanupForgets DEF Promise!Next
  <1>9. ASSUME NEW p \in Procs, AbortDeadlock(p) \/ Crash(p)
        PROVE  [Promise!Next]_(Promise!vars)
    BY <1>9, EndRefuses DEF AbortDeadlock, Crash
  <1>10. CASE Tick
    <2>1. Asked' = Asked
      BY <1>10 DEF Tick, Asked
    <2>2. Promise!Tick
      BY <1>10, <2>1 DEF Tick, NoCommit, Promise!Tick
    <2>3. QED
      BY <2>2 DEF Promise!Next
  <1>11. CASE UNCHANGED vars
    BY <1>11 DEF vars, Asked, Promise!vars
  <1>12. QED
    BY <1>1, <1>2, <1>3, <1>4, <1>5, <1>6, <1>7, <1>8, <1>9, <1>10, <1>11
       DEF Next, Ingest, Clean

\* Whatever the row locks, the crashes, the deadlocks and the cleanup do to the requests,
\* a client sees batches stored in one step, without an event lost or doubled that
\* the cleanup did not forget.
THEOREM Deduplicates == Spec => ImplementsDeduplication
  <1>1. Init => Promise!Init
    <2> SUFFICES ASSUME Init PROVE Promise!Init
      OBVIOUS
    <2>1. Asked = [r \in Requests |-> Promise!NoBatch]
      BY DEF Init, Asked, Promise!NoBatch, Procs
    <2>2. usage = [d \in {Promise!Day(t) : t \in 0..MaxTime} |-> 0]
      BY DEF Init, Days, Day, Times, Promise!Day
    <2>3. QED
      BY <2>1, <2>2 DEF Init, Promise!Init
  <1>2. Init => BatchesRemain
    BY DEF Init, BatchesRemain, Procs
  <1>3. QED
    BY <1>1, <1>2, BatchesStay, BatchStep, BatchInvariant, PTL DEF Spec, ImplementsDeduplication, Promise!Spec

=============================================================================
