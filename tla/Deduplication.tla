---------------------------- MODULE Deduplication ----------------------------
(***************************************************************************)
(* What POST /v1/events promises a client that retries, as if every batch  *)
(* were stored in one atomic step: the abstract specification that         *)
(* EventIngestion is compared with.                                        *)
(*                                                                         *)
(* An event whose key is in the window of an earlier one is dropped, every *)
(* other one is stored: all of a batch or nothing.  A batch is judged as   *)
(* of some moment between its arrival and its answer; what has expired by  *)
(* then is new.  What the cleanup forgets too early is new as well.        *)
(***************************************************************************)
EXTENDS Naturals, FiniteSets

CONSTANTS Keys, Requests, TTL, DayLength, MaxPerDay, MaxTime

VARIABLES
  now,
  usage,     \* events stored on each day
  window,    \* until when a key is remembered
  forgotten, \* keys the cleanup has forgotten before that
  asked      \* the batch of each request, and when it arrived

vars == <<now, usage, window, forgotten, asked>>

Day(t) == t \div DayLength

NoBatch == [keys |-> {}, at |-> 0]

Init ==
  /\ now = 0
  /\ usage = [d \in {Day(t) : t \in 0..MaxTime} |-> 0]
  /\ window = [k \in Keys |-> 0]
  /\ forgotten = {}
  /\ asked = [r \in Requests |-> NoBatch]

-----------------------------------------------------------------------------

\* The keys that are new at a moment.
Fresh(t) == {k \in Keys : k \in forgotten \/ window[k] <= t}

Ask(r) ==
  /\ asked[r] = NoBatch
  /\ \E keys \in (SUBSET Keys) \ {{}} :
       asked' = [asked EXCEPT ![r] = [keys |-> keys, at |-> now]]
  /\ UNCHANGED <<now, usage, window, forgotten>>

\* Exactly what is new is stored, remembered and counted.
Store(r) ==
  LET batch == asked[r]
  IN  /\ batch # NoBatch
      /\ \E t \in batch.at..now, new \in SUBSET batch.keys :
           /\ batch.keys \intersect Fresh(t) \subseteq new
           /\ new \subseteq Fresh(now)
           /\ Cardinality(new) <= MaxPerDay
           /\ usage' = [usage EXCEPT ![Day(t)] = @ + Cardinality(new)]
           /\ window' = [k \in Keys |-> IF k \in new THEN batch.at + TTL ELSE window[k]]
           /\ forgotten' = forgotten \ new
      /\ asked' = [asked EXCEPT ![r] = NoBatch]
      /\ UNCHANGED now

\* An error, or no answer at all: nothing of the batch is stored.
Refuse(r) ==
  /\ asked[r] # NoBatch
  /\ asked' = [asked EXCEPT ![r] = NoBatch]
  /\ UNCHANGED <<now, usage, window, forgotten>>

Forget ==
  /\ \E keys \in SUBSET {k \in Keys : window[k] > now} : forgotten' = forgotten \union keys
  /\ UNCHANGED <<now, usage, window, asked>>

Tick ==
  /\ now < MaxTime
  /\ now' = now + 1
  /\ UNCHANGED <<usage, window, forgotten, asked>>

Next ==
  \/ \E r \in Requests : Ask(r) \/ Store(r) \/ Refuse(r)
  \/ Forget
  \/ Tick

Spec == Init /\ [][Next]_vars

=============================================================================
