------------------------------ MODULE MCOutbox ------------------------------
(* Small instances of Outbox for TLC. *)
EXTENDS Outbox, TLC

CONSTANTS creator, reminder1, reminder2, reader, rule1

\* What the rows report, and to whom, as a configuration chooses.
ClaimRows == [r \in Rows |-> IF r = 1 THEN "payment" ELSE "claimable"]
ResultRows == [r \in Rows |-> "result"]
OfCreator == [r \in Rows |-> creator]
OfReader == [r \in Rows |-> IF r = 1 THEN reminder1 ELSE reminder2]
OneReader == [s \in Subscriptions |-> reader]
AllMatch == [r \in Rows |-> Rules]

Symmetric == Permutations(Workers) \cup Permutations(Handlers)
=============================================================================
