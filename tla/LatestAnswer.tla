---------------------------- MODULE LatestAnswer ----------------------------
(***************************************************************************)
(* gui/ChronoMock.App LatestAnswer.cs: which question the panel has asked, *)
(* whether it is answered, and the one run whose answer it would take.  A  *)
(* run holds a ticket, a record with the number of the run and the         *)
(* generation it was begun for.                                            *)
(*                                                                         *)
(* Everything that calls it runs on the window's thread, so each operation *)
(* is one step of its caller.                                              *)
(***************************************************************************)
EXTENDS Naturals

NothingAsked == [asked |-> 0, answered |-> 0, running |-> 0, begun |-> 0, put |-> {}]

IsCurrent(a) == a.answered = a.asked

\* Mutant: no look whether there is a run.
PutAny(a) == a.put \cup {a.running}

\* `Put`: the run that had the answer is cancelled.
Put(a) == a.put \cup ({a.running} \ {0})

Change(a, answered) ==
    [a EXCEPT !.asked = @ + 1, !.answered = IF answered THEN a.asked + 1 ELSE @,
              !.running = 0, !.put = Put(a)]

Ask(a) == Change(a, FALSE)
Settle(a) == Change(a, TRUE)

\* Asked for only of a question without its answer.
Begin(a) == [a EXCEPT !.begun = @ + 1, !.running = a.begun + 1, !.put = Put(a)]
Ticket(a) == [run |-> a.running, generation |-> a.asked]

Cancelled(a, ticket) == ticket.run \in a.put

\* Mutant: an answer is taken whatever was asked since.
AcceptsAny(a, ticket) == TRUE

Accepts(a, ticket) == ticket.generation = a.asked /\ ~Cancelled(a, ticket)

Release(a, ticket, accepted) ==
    [a EXCEPT !.answered = IF accepted /\ ticket.generation = a.asked THEN a.asked ELSE @,
              !.running = IF @ = ticket.run THEN 0 ELSE @]

Abandon(a) == [a EXCEPT !.running = 0, !.put = Put(a)]

\* Mutant: only an answer of the user's own ends the waits.
WakesOnSettle(before, after) == after.asked # before.asked /\ IsCurrent(after)

\* The change that makes the question answered ends every wait for it.
Wakes(before, after) == ~IsCurrent(before) /\ IsCurrent(after)
=============================================================================
