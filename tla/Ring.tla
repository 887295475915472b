-------------------------------- MODULE Ring --------------------------------
(***************************************************************************)
(* src/sync/ring.rs: circular access to the values of a vector through an  *)
(* atomic counter that all threads share.                                  *)
(*                                                                         *)
(* fetch_add is one atomic step and hands out a ticket; what follows, the  *)
(* remainder and the read of the vector, is local to the calling thread.   *)
(* So a call is two steps, and calls may overtake one another between      *)
(* them.  The counter is a usize, and wraps around.                        *)
(***************************************************************************)
EXTENDS Naturals, Sequences

CONSTANTS
  Elements,       \* what a ring may hold
  Threads,        \* threads that use the ring
  UsizeModulus,   \* number of values of usize: the counter wraps there
  MaxCalls        \* bound of the model: calls made

ASSUME UsizeAssumption == UsizeModulus \in Nat \ {0, 1}

VARIABLES
  values,     \* Ring::values
  next,       \* Ring::next, an AtomicUsize
  ticket,     \* what fetch_add returned to each thread, or NoTicket
  calls       \* history: the tickets in the order they were taken

ringVars == <<values, next, ticket, calls>>

Usize == 0..(UsizeModulus - 1)
NoTicket == UsizeModulus

RingTypeOK ==
  /\ values \in Seq(Elements) /\ values # <<>>
  /\ next \in Usize
  /\ ticket \in [Threads -> Usize \cup {NoTicket}]
  /\ calls \in Seq(Usize)

\* Ring::new, which panics when there are no values.
NewRing(vs) ==
  /\ vs # <<>>
  /\ values = vs
  /\ next = 0
  /\ ticket = [t \in Threads |-> NoTicket]
  /\ calls = <<>>

\* Mutant: the counter saturates instead of wrapping around.
FetchAddMutant(n) == IF n = UsizeModulus - 1 THEN n ELSE n + 1
\* Mutant: the counter has no width.
UnboundedFetchAddMutant(n) == n + 1
\* Mutant: every call takes two tickets.
DoubleFetchAddMutant(n) == (n + 2) % UsizeModulus
FetchAdd(n) == (n + 1) % UsizeModulus

\* Ring::next_index up to fetch_add; with one value the counter is not used.
TakeTicket(t) ==
  /\ ticket[t] = NoTicket
  /\ Len(calls) < MaxCalls
  /\ LET n == IF Len(values) = 1 THEN 0 ELSE next IN
       /\ ticket' = [ticket EXCEPT ![t] = n]
       /\ calls' = Append(calls, n)
  /\ next' = IF Len(values) = 1 THEN next ELSE FetchAdd(next)
  /\ UNCHANGED values

\* The entry of ticket n; sequences start at 1, vectors at 0.
Index(n) == 1 + (n % Len(values))

\* Mutant: the counter is read again instead of using what fetch_add returned.
EntryMutant(t) == values[Index((next + UsizeModulus - 1) % UsizeModulus)]
\* Ring::next_as_ref: the value at the index.
Entry(t) == values[Index(ticket[t])]

\* next_as_owned returns Entry(t).
Return(t) ==
  /\ ticket[t] # NoTicket
  /\ ticket' = [ticket EXCEPT ![t] = NoTicket]
  /\ UNCHANGED <<values, next, calls>>

RingInit == \E vs \in Seq(Elements) : NewRing(vs)
RingNext == \E t \in Threads : TakeTicket(t) \/ Return(t)
RingSpec == RingInit /\ [][RingNext]_ringVars

-----------------------------------------------------------------------------
\* The calls numbered from i to j were made without the counter wrapping.
NoWrap(i, j) == \A k \in i..(j - 1) : calls[k] <= calls[k + 1]

(* As many calls in a row as the ring has values, by whichever threads,    *)
(* get that many different entries: none is skipped and none is handed out *)
(* twice in a turn, wherever the turn starts, unless the counter wraps     *)
(* around inside it.                                                       *)
TurnsVisitEveryEntry ==
  \A i, j \in 1..Len(calls) :
    (i < j /\ j - i < Len(values) /\ NoWrap(i, j))
      => Index(calls[i]) # Index(calls[j])

=============================================================================
