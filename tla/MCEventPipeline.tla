--------------------------- MODULE MCEventPipeline ---------------------------
(* EventPipeline on a small instance.                                      *)
EXTENDS EventPipeline, FiniteSetsExt, TLC

Event(name, properties, time, day, user) ==
  [name |-> name, properties |-> properties, isObject |-> TRUE, time |-> time,
   day |-> day, user |-> user]

Signup(day) == Event("user_signup", [email |-> "string"], "given", day, "u")

BadSignup == Event("user_signup", [created |-> "boolean"], "absent", 0, "u")

View == Event("view", [x |-> "number"], "absent", 0, "v")

Body(shape, batch) ==
  [header |-> TRUE, tooLarge |-> FALSE, shape |-> shape, events |-> batch]

\* A good event of yesterday, one of now that has no schema, and a bad batch.
SomeBodies == {Body("single", <<Signup(0)>>), Body("array", <<View>>),
               Body("events", <<Signup(0), BadSignup>>)}

\* A range, a single day whose day before is a range of its own, and nonsense.
SomeAsked == {[names |-> EventNames, from |-> 0, to |-> 1],
              [names |-> {"user_signup"}, from |-> 2, to |-> 2],
              [names |-> EventNames, from |-> 2, to |-> 1]}

\* Two requests race, and keys are revoked, on the first day and before anything
\* is aggregated; afterwards one request at a time brings events, and metrics are
\* read while none does.
InFlight == {r \in Requests : keyPc[r] # "idle"}

Bounded ==
  \/ today = 1 /\ next = 1 /\ \A q \in Readers : readers[q].op = "none"
  \/ /\ \A k \in Keys : keys[k].state = "active" => keys[k].permissions = Permissions
     /\ \A k \in Keys : keys[k].state # "revoked"
     /\ \A r \in InFlight : keyPc[r] \notin {"findById", "revoke"}
     /\ Cardinality(InFlight) <= 1
     /\ InFlight = {} \/ \A q \in Readers : readers[q].op = "none"

Symmetry == Permutations(Keys) \union Permutations(Requests) \union Permutations(Jobs)
              \union Permutations(Workspaces) \union Permutations(EventIds)

\* Total is the sum of its rows.
ASSUME TotalIsSum ==
  \A n \in [1..3 -> 0..3], rows \in SUBSET (1..3) :
    Daily!Total(rows, n) = MapThenSumSet(LAMBDA b : n[b], rows)

=============================================================================
