------------------------- MODULE WeightedRoundRobin -------------------------
(***************************************************************************)
(* src/sched/wrr.rs over src/sync/ring.rs: the scheduler that picks the    *)
(* backend of each forwarded request.  The cycle of backends is computed   *)
(* once, and concurrent requests walk it through one Ring.                 *)
(***************************************************************************)
EXTENDS Ring, SequencesExt, FiniteSetsExt

CONSTANT BackendLists   \* the `backends` of a forward action to consider

VARIABLES
  backends,   \* the configuration, a sequence of [address, weight]
  answers     \* history: how many calls each address was returned to

vars == <<ringVars, backends, answers>>

Addresses == {backends[i].address : i \in DOMAIN backends}

\* Mutant: the last request of each weight is left out.
RepeatMutant(b) == [i \in 1..(b.weight - 1) |-> b.address]
\* The inner loop of WeightedRoundRobin::new.
Repeat(b) == [i \in 1..b.weight |-> b.address]

\* Mutant: backends are put in front of the cycle.
CycleMutant(bs) == FoldLeft(LAMBDA cycle, b : Repeat(b) \o cycle, <<>>, bs)
\* The outer loop of WeightedRoundRobin::new.
Cycle(bs) == FoldLeft(LAMBDA cycle, b : cycle \o Repeat(b), <<>>, bs)

\* The configuration gives every backend a weight that is not negative; and a
\* cycle is the contents of a Vec, whose length is a usize.
ASSUME BackendListsAssumption ==
  /\ BackendLists \subseteq Seq([address : Elements, weight : Nat])
  /\ \A bs \in BackendLists : Len(Cycle(bs)) < UsizeModulus

TypeOK ==
  /\ RingTypeOK
  /\ backends \in BackendLists
  /\ answers \in [Addresses -> Nat]

\* A list without any weight does not get here: Ring::new panics while the
\* configuration is read.
Init ==
  /\ backends \in BackendLists
  /\ NewRing(Cycle(backends))
  /\ answers = [a \in Addresses |-> 0]

\* The first half of next_server.
Call(t) == TakeTicket(t) /\ UNCHANGED <<backends, answers>>

\* next_server returns the address.
Answer(t) ==
  /\ Return(t)
  /\ answers' = [answers EXCEPT ![Entry(t)] = @ + 1]
  /\ UNCHANGED backends

\* All calls that the bound allows have been answered.
Exhausted ==
  /\ Len(calls) = MaxCalls
  /\ \A t \in Threads : ticket[t] = NoTicket
  /\ UNCHANGED vars

Next ==
  \/ \E t \in Threads : Call(t) \/ Answer(t)
  \/ Exhausted

Spec == Init /\ [][Next]_vars

-----------------------------------------------------------------------------
(* The weight an address has in the configuration, all its entries added.  *)
Weight(a) ==
  MapThenSumSet(LAMBDA i : backends[i].weight,
                {i \in DOMAIN backends : backends[i].address = a})

ServerOf(k) == values[Index(calls[k])]

\* How many of the calls numbered from i to j are for address a.
Share(a, i, j) == Cardinality({k \in i..j : ServerOf(k) = a})

(* Each turn of the ring serves every backend exactly as often as its      *)
(* weight says, wherever the turn starts, as long as the counter does not  *)
(* wrap around inside it.                                                  *)
TurnsFollowWeights ==
  \A i \in 1..(Len(calls) - Len(values) + 1) :
    LET j == i + Len(values) - 1 IN
      NoWrap(i, j) => \A a \in Addresses : Share(a, i, j) = Weight(a)

(* The wrap-around, which cuts a turn short when the cycle's length does   *)
(* not divide 2^w, starves nobody: within twice a turn less one call every *)
(* backend is served at least as often as its weight says.                 *)
NobodyStarves ==
  \A i \in 1..(Len(calls) - 2 * Len(values) + 2) :
    \A a \in Addresses : Share(a, i, i + 2 * Len(values) - 2) >= Weight(a)

(* Concurrent callers get what their own tickets stand for, in whatever    *)
(* order they go on: once everyone has an answer, the answers are those of *)
(* the tickets that were taken.                                            *)
AnswersMatchTickets ==
  (\A t \in Threads : ticket[t] = NoTicket) =>
    \A a \in Addresses : answers[a] = Share(a, 1, Len(calls))

(* The order that the type's comment and its test give: the first turn     *)
(* serves the backends in configuration order, one weight after the other. *)
FirstTurnInConfigOrder ==
  \A k \in 1..Min({Len(calls), Len(values)}) :
    \E i \in DOMAIN backends :
      LET before == MapThenSumSet(LAMBDA j : backends[j].weight, 1..(i - 1)) IN
        /\ k \in (before + 1)..(before + backends[i].weight)
        /\ ServerOf(k) = backends[i].address

=============================================================================
