---------------------------- MODULE MCTrafficGen ----------------------------
(***************************************************************************)
(* The load generator, and a client that reads accounts while the          *)
(* generator creates its own and others create theirs.  The load neither   *)
(* reads nor changes an account: it begins where nobody else was there.    *)
(***************************************************************************)
EXTENDS TrafficGen

CONSTANTS a1, a2, a3

MCWanted == [a \in Acct |-> IF a = a1 THEN <<"USD", "EUR">> ELSE <<"USD">>]
MCKindOf == [a \in Acct |-> "asset"]
MCSeeds  == <<a2, a3>>

ReadOf(id, currency, limit) ==
  [id |-> id, kind |-> AnyValue, currency |-> currency, limit |-> limit]

MCReads == {ReadOf(AnyValue, AnyValue, 1), ReadOf(AnyValue, "USD", 0)}

Init == AcctInit /\ LoadInit

Seeding == producer = "seed"

\* Bounds: the load begins where nothing but the seeding has happened, no
\* account is read or changed any more once it has begun, and the metadata of
\* one account is changed.
Undisturbed ==
  /\ clock = 0 /\ walk = NoWalk
  /\ \A a \in Acct \ Range(Seeds) : creation[a].pc = "none"

Next ==
  \/ LoadStep /\ (Seeding => Undisturbed \/ producer' # "select")
  \/ /\ Seeding /\ AccountsStep
     /\ \A a \in accounts \ {a2} : updatedAt'[a] = updatedAt[a]

Spec == Init /\ [][Next]_allVars /\ LoadFairness
=============================================================================
