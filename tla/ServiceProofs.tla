---------------------------- MODULE ServiceProofs ----------------------------
(***************************************************************************)
(* Proofs about module Service, for any set of requests (an infinite one   *)
(* too), any patterns and cycles, and any headers.                         *)
(***************************************************************************)
EXTENDS Service, InductionLemmas

-----------------------------------------------------------------------------
(* Sequences.                                                              *)

LEMMA FrontAndLastOfAppend ==
  ASSUME NEW S, NEW s \in Seq(S), NEW e
  PROVE  Front(Append(s, e)) = s /\ Last(Append(s, e)) = e
<1>1. /\ Len(Append(s, e)) = Len(s) + 1 /\ Len(s) \in Nat
      /\ Append(s, e)[Len(s) + 1] = e
      /\ \A i \in 1..Len(s) : Append(s, e)[i] = s[i]
  OBVIOUS
<1>2. SubSeq(Append(s, e), 1, Len(s)) = s
  BY <1>1
<1> QED
  BY <1>1, <1>2 DEF Front, Last

LEMMA PrefixOfConcat ==
  ASSUME NEW S, NEW s \in Seq(S), NEW t \in Seq(S), NEW u \in Seq(S), IsPrefix(s, t)
  PROVE  IsPrefix(s, t \o u)
<1>1. Len(s) \in Nat /\ Len(t) \in Nat /\ Len(u) \in Nat /\ Len(s) <= Len(t)
  BY DEF IsPrefix
<1>2. Len(t \o u) = Len(t) + Len(u)
  OBVIOUS
<1>3. ASSUME NEW i \in 1..Len(s)
      PROVE  SubSeq(t \o u, 1, Len(s))[i] = SubSeq(t, 1, Len(s))[i]
  BY <1>1, <1>2
<1>4. SubSeq(t \o u, 1, Len(s)) = SubSeq(t, 1, Len(s))
  BY <1>1, <1>2, <1>3
<1> QED
  BY <1>1, <1>2, <1>4 DEF IsPrefix

\* FlattenSeq is what its recursion says, for sequences of any length.
LEMMA FlattenIsRecursive ==
  ASSUME NEW S, NEW seqs \in Seq(Seq(S)), seqs # <<>>
  PROVE  \E f : /\ FlattenSeq(seqs) = f[Len(seqs)]
                /\ \A i \in 1..Len(seqs) :
                     f[i] = IF i = 1 THEN seqs[i] ELSE f[i - 1] \o seqs[i]
<1> DEFINE n == Len(seqs)
           step == [i \in 1..n |-> [s \in Seq(S) |-> s \o seqs[i]]]
<1>1. n \in Nat \ {0} /\ \A i \in 1..n : seqs[i] \in Seq(S)
  OBVIOUS
<1> HIDE DEF n
<1>2. step \in [1..n -> [Seq(S) -> Seq(S)]]
  BY <1>1
<1> HIDE DEF step
<1>3. PICK f : FollowsSteps(f, <<>>, step, n, Seq(S))
  <2>1. <<>> \in Seq(S) /\ n \in Nat /\ AreSteps(step, n, Seq(S))
    BY <1>1, <1>2 DEF AreSteps
  <2> QED
    BY <2>1, RecursionDefines, Zenon
<1>4. /\ f \in [0..n -> Seq(S)] /\ f[0] = <<>>
      /\ \A i \in 1..n : f[i] = step[i][f[i - 1]]
  BY <1>3 DEF FollowsSteps
<1> DEFINE g == [i \in 1..n |-> f[i]]
           flatten == CHOOSE h : h = [i \in 1..n |-> IF i = 1 THEN seqs[i]
                                                    ELSE h[i - 1] \o seqs[i]]
<1>5. ASSUME NEW i \in 1..n
      PROVE  g[i] = IF i = 1 THEN seqs[i] ELSE g[i - 1] \o seqs[i]
  <2>0. i - 1 \in 0..n
    BY <1>1
  <2>1. f[i - 1] \in Seq(S) /\ seqs[i] \in Seq(S)
    BY <1>1, <1>4, <2>0
  <2>2. f[i] = f[i - 1] \o seqs[i]
    BY <1>4, <2>1 DEF step
  <2>3. CASE i = 1
    <3>1. <<>> \o seqs[1] = seqs[1]
      BY <2>1, <2>3
    <3>2. i - 1 = 0
      BY <2>3
    <3>3. f[i - 1] = <<>>
      BY <1>4, <3>2
    <3> QED
      BY <2>2, <2>3, <3>1, <3>3
  <2>4. CASE i # 1
    <3>1. i - 1 \in 1..n
      BY <1>1, <2>4
    <3> QED
      BY <2>2, <2>4, <3>1
  <2> QED
    BY <2>3, <2>4
<1>6. g = [i \in 1..n |-> IF i = 1 THEN seqs[i] ELSE g[i - 1] \o seqs[i]]
  BY <1>5
<1> HIDE DEF g
<1>7. flatten = [i \in 1..n |-> IF i = 1 THEN seqs[i] ELSE flatten[i - 1] \o seqs[i]]
  BY <1>6, Zenon
<1>8. FlattenSeq(seqs) = flatten[n]
  BY <1>1 DEF FlattenSeq, n
<1> HIDE DEF flatten
<1>9. \A i \in 1..n : flatten[i] = IF i = 1 THEN seqs[i] ELSE flatten[i - 1] \o seqs[i]
  BY <1>7
<1> QED
  BY <1>8, <1>9 DEF n

\* The first sequence is a prefix of what FlattenSeq makes of them all.
LEMMA FlattenBeginsWithFirst ==
  ASSUME NEW S, NEW seqs \in Seq(Seq(S)), seqs # <<>>
  PROVE  /\ IsPrefix(seqs[1], FlattenSeq(seqs))
         /\ Len(seqs) = 1 => FlattenSeq(seqs) = seqs[1]
<1> DEFINE n == Len(seqs)
<1>1. n \in Nat \ {0} /\ \A i \in 1..n : seqs[i] \in Seq(S)
  OBVIOUS
<1>2. PICK f : /\ FlattenSeq(seqs) = f[n]
               /\ \A i \in 1..n :
                    f[i] = IF i = 1 THEN seqs[i] ELSE f[i - 1] \o seqs[i]
  BY FlattenIsRecursive
<1> HIDE DEF n
<1> DEFINE T == {m \in Nat : m + 1 <= n => f[m + 1] \in Seq(S) /\ IsPrefix(seqs[1], f[m + 1])}
<1>3. 0 \in T
  BY <1>1, <1>2 DEF IsPrefix
<1>4. ASSUME NEW m \in Nat, m \in T PROVE m + 1 \in T
  <2>1. SUFFICES ASSUME m + 2 <= n
                 PROVE  f[m + 2] \in Seq(S) /\ IsPrefix(seqs[1], f[m + 2])
    BY <1>1
  <2>2. f[m + 1] \in Seq(S) /\ IsPrefix(seqs[1], f[m + 1])
    BY <1>1, <1>4, <2>1
  <2>3. /\ m + 2 \in 1..n /\ 1 \in 1..n /\ m + 2 # 1 /\ (m + 2) - 1 = m + 1
        /\ seqs[m + 2] \in Seq(S) /\ seqs[1] \in Seq(S)
    BY <1>1, <2>1
  <2>5. f[m + 2] = f[m + 1] \o seqs[m + 2]
    BY <1>2, <2>3
  <2>4. IsPrefix(seqs[1], f[m + 1] \o seqs[m + 2])
    BY <2>2, <2>3, PrefixOfConcat
  <2> QED
    BY <2>2, <2>3, <2>4, <2>5
<1> HIDE DEF T
<1>5. n - 1 \in Nat /\ \A m \in Nat : m \in T
  BY <1>1, <1>3, <1>4, SetInduction
<1>6. n - 1 \in T /\ (n - 1) + 1 = n
  BY <1>1, <1>5
<1>7. IsPrefix(seqs[1], f[n])
  BY <1>6 DEF T
<1>8. n = 1 => f[n] = seqs[1]
  BY <1>2
<1> QED
  BY <1>2, <1>7, <1>8 DEF n

-----------------------------------------------------------------------------
(* Operators.                                                              *)

\* find() returns a pattern that fits, if there is one.
LEMMA MatchFits ==
  ASSUME NEW u, Fitting(u) # {}
  PROVE  Match(u) \in Fitting(u) /\ Match(u) \in DOMAIN Patterns
<1>1. Fitting(u) \in SUBSET Nat
  BY PatternsAssumption DEF Fitting
<1>2. \E p \in Fitting(u) : \A q \in Fitting(u) : p <= q
  BY <1>1, LeastNumber
<1> QED
  BY <1>2 DEF Match, Fitting

\* next_server never indexes past the end of the cycle.
LEMMA NextServerIsBackend ==
  ASSUME NEW l, NEW p \in DOMAIN Patterns, Patterns[p].kind = "forward",
         turns[<<l, p>>] \in Nat
  PROVE  NextServer(<<l, p>>) \in Backends
<1> DEFINE cycle == Patterns[p].cycle
<1>1. cycle \in Seq(Backends) /\ cycle # <<>>
  BY PatternsAssumption
<1>2. Len(cycle) \in Nat \ {0}
  BY <1>1
<1> HIDE DEF cycle
<1>3. 1 + (turns[<<l, p>>] % Len(cycle)) \in 1..Len(cycle)
  BY <1>2
<1>4. cycle[1 + (turns[<<l, p>>] % Len(cycle))] \in Backends
  BY <1>1, <1>3
<1> QED
  BY <1>4 DEF NextServer, cycle

-----------------------------------------------------------------------------
(* Type correctness: the backend of a request comes from the cycle of its  *)
(* pattern, and its Forwarded field from what call() has put in place.     *)

RequestInv ==
  \A r \in Requests :
    /\ stage[r] # "new" => uri[r] \in Uris /\ listener[r] \in Listeners
    /\ stage[r] \in {"connecting", "sending"} => head[r] \in Heads

TypeInv == TypeOK /\ RequestInv

LEMMA TypeInit == Init => TypeInv
  BY DEF Init, TypeInv, TypeOK, RequestInv, Pending

\* The Forwarded field that is sent is a sequence of hops.
LEMMA ForwardedIsSequence ==
  ASSUME TypeInv, NEW r \in Requests, stage[r] \in {"connecting", "sending"}
  PROVE  /\ PreviousHops(r) \in Seq(Hops)
         /\ OwnHop(r) \in OwnHops
         /\ Forwarded(r) \in Seq(Hops \cup OwnHops)
<1>1. /\ head[r].forwarded \in Seq({Unreadable} \cup Seq(Hops))
      /\ head[r].host \in Hosts \cup {Unreadable, Absent}
      /\ listener[r] \in Listeners /\ name \in Names \cup {Absent}
  BY HeadsAssumption DEF TypeInv, TypeOK, RequestInv
<1>2. PreviousHops(r) \in Seq(Hops)
  BY <1>1 DEF PreviousHops
<1>3. OwnHop(r) \in OwnHops
  BY <1>1 DEF OwnHop, OwnHops
<1> QED
  BY <1>2, <1>3 DEF Forwarded

LEMMA TypeStep == TypeInv /\ [Next]_vars => TypeInv'
<1> SUFFICES ASSUME TypeInv, [Next]_vars PROVE TypeInv'
  OBVIOUS
<1> USE DEF TypeInv, TypeOK, RequestInv, Pending, Settled, request, Answer
<1>1. ASSUME NEW r \in Requests, NEW u \in Uris, NEW l \in Listeners,
             CallUnmatched(r, u, l)
      PROVE  TypeInv'
  BY <1>1 DEF CallUnmatched, Arrive
<1>2. ASSUME NEW r \in Requests, NEW u \in Uris, NEW l \in Listeners,
             CallServe(r, u, l)
      PROVE  TypeInv'
  BY <1>2 DEF CallServe, Arrive
<1>3. ASSUME NEW r \in Requests, NEW u \in Uris, NEW l \in Listeners,
             NEW h \in Heads, CallForward(r, u, l, h)
      PROVE  TypeInv'
  <2> DEFINE p == Match(u)
  <2>1. p \in DOMAIN Patterns /\ Patterns[p].kind = "forward"
    BY <1>3, MatchFits DEF CallForward
  <2>2. turns[<<l, p>>] \in Nat
    BY <2>1
  <2>3. NextServer(<<l, p>>) \in Backends
    BY <2>1, <2>2, NextServerIsBackend
  <2> HIDE DEF p
  <2>4. /\ turns' = [turns EXCEPT ![<<l, p>>] = @ + 1]
        /\ backend' = [backend EXCEPT ![r] = NextServer(<<l, p>>)]
    BY <1>3 DEF CallForward, SchedulerOf, p
  <2>5. turns' \in [Listeners \X DOMAIN Patterns -> Nat]
    BY <2>1, <2>2, <2>4
  <2> QED
    BY <1>3, <2>3, <2>4, <2>5 DEF CallForward, Arrive
<1>4. ASSUME NEW r \in Requests, ReadFile(r) PROVE TypeInv'
  BY <1>4 DEF ReadFile
<1>5. ASSUME NEW r \in Requests, ConnectFails(r) PROVE TypeInv'
  BY <1>5 DEF ConnectFails
<1>6. ASSUME NEW r \in Requests, Connect(r) PROVE TypeInv'
  <2>1. Forwarded(r) \in Seq(Hops \cup OwnHops)
    BY <1>6, ForwardedIsSequence DEF Connect
  <2> QED
    BY <1>6, <2>1 DEF Connect
<1>7. ASSUME NEW r \in Requests, Respond(r) PROVE TypeInv'
  BY <1>7 DEF Respond
<1>8. ASSUME NEW r \in Requests, SwitchProtocols(r) PROVE TypeInv'
  BY <1>8 DEF SwitchProtocols
<1>9. ASSUME NEW r \in Requests, UnaskedSwitch(r) PROVE TypeInv'
  BY <1>9 DEF UnaskedSwitch
<1>10. ASSUME NEW r \in Requests, SendFails(r) PROVE TypeInv'
  BY <1>10 DEF SendFails
<1>11. ASSUME NEW r \in Requests, ConnEnds(r) PROVE TypeInv'
  BY <1>11 DEF ConnEnds
<1>12. ASSUME NEW r \in Requests, TunnelStep(r) \/ TunnelEnds(r) PROVE TypeInv'
  BY <1>12 DEF TunnelStep, TunnelOpens, TunnelFails, TunnelEnds, CloseTunnel
<1>13. ASSUME NEW r \in Requests, ClientCloses(r) PROVE TypeInv'
  BY <1>13 DEF ClientCloses
<1>14. CASE UNCHANGED vars
  BY <1>14 DEF vars
<1> QED
  BY <1>1, <1>2, <1>3, <1>4, <1>5, <1>6, <1>7, <1>8, <1>9, <1>10, <1>11, <1>12,
     <1>13, <1>14 DEF Next, Call, Forward, Terminated

LEMMA TypeInvariant == Spec => []TypeInv
  BY TypeInit, TypeStep, PTL DEF Spec

(* Every variable keeps its type; above all, whatever the patterns, the    *)
(* weights and the turns given so far, a forwarded request gets a backend  *)
(* of the configuration.                                                   *)
THEOREM TypeCorrect == Spec => []TypeOK
<1>1. TypeInv => TypeOK
  BY DEF TypeInv
<1> QED
  BY <1>1, TypeInvariant, PTL

-----------------------------------------------------------------------------
(* The upgrade.  What the client was answered, the tunnel and the socket   *)
(* of the backend agree because they can only disagree once the future is  *)
(* settled, and it settles once.                                           *)

FutureInv ==
  \A r \in Requests :
    /\ stage[r] \in {"new"} \cup Pending => answer[r] = "none" /\ tunnel[r] = "none"
    /\ stage[r] \in {"new", "reading", "connecting"} => upstream[r] = "none"
    /\ stage[r] = "sending" => upstream[r] = "open"
    /\ tunnel[r] # "none" => stage[r] = "answered"
    /\ client[r] = "gone" => stage[r] \notin Pending

LEMMA UpgradeInit == Init => FutureInv /\ UpgradesAgree
  BY DEF Init, FutureInv, UpgradesAgree, Pending

LEMMA UpgradeStep ==
  TypeInv /\ FutureInv /\ UpgradesAgree /\ [Next]_vars
    => FutureInv' /\ UpgradesAgree'
<1> DEFINE Inv == FutureInv /\ UpgradesAgree
<1> SUFFICES ASSUME TypeInv, Inv, [Next]_vars PROVE Inv'
  OBVIOUS
<1> USE DEF TypeInv, TypeOK, FutureInv, UpgradesAgree, Pending, Settled, request, Answer
<1>1. ASSUME NEW r \in Requests, NEW u \in Uris, NEW l \in Listeners,
             \/ CallUnmatched(r, u, l) \/ CallServe(r, u, l)
             \/ \E h \in Heads : CallForward(r, u, l, h)
      PROVE  Inv'
  <2>1. CASE CallUnmatched(r, u, l)
    BY <2>1 DEF CallUnmatched, Arrive
  <2>2. CASE CallServe(r, u, l)
    BY <2>2 DEF CallServe, Arrive
  <2>3. ASSUME NEW h \in Heads, CallForward(r, u, l, h) PROVE Inv'
    BY <2>3 DEF CallForward, Arrive
  <2> QED
    BY <1>1, <2>1, <2>2, <2>3
<1>2. ASSUME NEW r \in Requests, ReadFile(r) PROVE Inv'
  BY <1>2 DEF ReadFile
<1>3. ASSUME NEW r \in Requests, ConnectFails(r) PROVE Inv'
  BY <1>3 DEF ConnectFails
<1>4. ASSUME NEW r \in Requests, Connect(r) PROVE Inv'
  BY <1>4 DEF Connect
<1>5. ASSUME NEW r \in Requests, Respond(r) PROVE Inv'
  BY <1>5 DEF Respond
<1>6. ASSUME NEW r \in Requests, SwitchProtocols(r) PROVE Inv'
  BY <1>6 DEF SwitchProtocols
<1>7. ASSUME NEW r \in Requests, UnaskedSwitch(r) PROVE Inv'
  BY <1>7 DEF UnaskedSwitch
<1>8. ASSUME NEW r \in Requests, SendFails(r) PROVE Inv'
  BY <1>8 DEF SendFails
<1>9. ASSUME NEW r \in Requests, ConnEnds(r) PROVE Inv'
  BY <1>9 DEF ConnEnds, SenderDropped
<1>10. ASSUME NEW r \in Requests, TunnelStep(r) \/ TunnelEnds(r) PROVE Inv'
  BY <1>10 DEF TunnelStep, TunnelOpens, TunnelFails, TunnelEnds, CloseTunnel
<1>11. ASSUME NEW r \in Requests, ClientCloses(r) PROVE Inv'
  BY <1>11 DEF ClientCloses
<1>12. CASE UNCHANGED vars
  BY <1>12 DEF vars
<1> QED
  BY <1>1, <1>2, <1>3, <1>4, <1>5, <1>6, <1>7, <1>8, <1>9, <1>10, <1>11, <1>12
  DEF Next, Call, Forward, Terminated

(* A tunnel is spawned only for a client that asked, a client is told 101  *)
(* only if its tunnel was spawned, and a tunnel never outlives the socket  *)
(* of its backend, however the futures, tunnels and clients interleave.    *)
THEOREM UpgradesAlwaysAgree == Spec => []UpgradesAgree
  BY UpgradeInit, UpgradeStep, TypeInvariant, PTL DEF Spec

-----------------------------------------------------------------------------
(* The promise of Exchange.                                                *)

\* A step, seen as a step of the connection of request r.
LEMMA ExchangeStep ==
  ASSUME TypeInv, FutureInv, UpgradesAgree, [Next]_vars, NEW r \in Requests
  PROVE  [Exchanges(r)!Next]_(Exchanges(r)!vars)
<1> DEFINE Goal == [Exchanges(r)!Next]_(Exchanges(r)!vars)
<1> USE DEF Exchanges!Next, Exchanges!vars, ConnOf, TunnelOf
<1>1. ASSUME UNCHANGED <<stage[r], tunnel[r], client[r]>> PROVE Goal
  BY <1>1
<1>2. ASSUME NEW d \in Requests, d # r,
             \/ Call(d) \/ ReadFile(d) \/ Forward(d) \/ ConnEnds(d)
             \/ TunnelStep(d) \/ TunnelEnds(d) \/ ClientCloses(d)
      PROVE  UNCHANGED <<stage[r], tunnel[r], client[r]>>
  BY <1>2 DEF Call, CallUnmatched, CallServe, CallForward, Arrive, ReadFile,
     Forward, ConnectFails, Connect, Respond, SwitchProtocols, UnaskedSwitch,
     SendFails, ConnEnds, TunnelStep, TunnelOpens, TunnelFails, TunnelEnds,
     CloseTunnel, ClientCloses, Answer, TypeInv, TypeOK
<1> USE DEF TypeInv, TypeOK, FutureInv, UpgradesAgree, Pending, Settled, Answer
<1>3. CASE Call(r)
  BY <1>3 DEF Call, CallUnmatched, CallServe, CallForward, Arrive,
              Exchanges!Request
<1>4. CASE ReadFile(r)
  BY <1>4 DEF ReadFile, Exchanges!Respond
<1>5. CASE ConnectFails(r)
  BY <1>5 DEF ConnectFails, Exchanges!Respond
<1>6. CASE Connect(r)
  BY <1>6 DEF Connect, Exchanges!Close
<1>7. CASE Respond(r)
  BY <1>7 DEF Respond, Exchanges!Respond
<1>8. CASE SwitchProtocols(r)
  BY <1>8 DEF SwitchProtocols, Exchanges!SpawnTunnel
<1>9. CASE UnaskedSwitch(r)
  BY <1>9 DEF UnaskedSwitch, Exchanges!Respond
<1>10. CASE SendFails(r)
  BY <1>10 DEF SendFails, Exchanges!Close
<1>11. CASE ConnEnds(r)
  BY <1>1, <1>11 DEF ConnEnds
<1>12. CASE TunnelOpens(r)
  BY <1>12 DEF TunnelOpens, Exchanges!HandOver
<1>13. CASE TunnelFails(r)
  BY <1>13 DEF TunnelFails, CloseTunnel
<1>14. CASE TunnelEnds(r)
  BY <1>14 DEF TunnelEnds, CloseTunnel, Exchanges!TunnelEnds
<1>15. CASE ClientCloses(r)
  BY <1>15 DEF ClientCloses, Exchanges!Close
<1>16. CASE UNCHANGED vars
  BY <1>1, <1>16 DEF vars
<1> QED
  BY <1>1, <1>2, <1>3, <1>4, <1>5, <1>6, <1>7, <1>8, <1>9, <1>10, <1>11, <1>12,
     <1>13, <1>14, <1>15, <1>16 DEF Next, Forward, TunnelStep, Terminated

(* What module Server takes the service to do is what it does, for every   *)
(* connection: one answer for each request, a tunnel only by way of a      *)
(* relayed 101, and none that opens for a client that has gone.            *)
THEOREM ServiceAnswersExchanges == Spec => AnswersExchanges
<1>1. Init => \A r \in Requests : Exchanges(r)!Init
  BY DEF Init, Exchanges!Init, ConnOf, TunnelOf
<1>2. TypeInv /\ FutureInv /\ UpgradesAgree /\ [Next]_vars
        => [\A r \in Requests : [Exchanges(r)!Next]_(Exchanges(r)!vars)]_vars
  BY ExchangeStep
<1> QED
  BY <1>1, <1>2, UpgradeInit, UpgradeStep, TypeInvariant, PTL
  DEF Spec, AnswersExchanges

-----------------------------------------------------------------------------
(* The Forwarded field.                                                    *)

(* What was sent is what into_forwarded() makes of a request that nothing  *)
(* changes any more, and only a request that was sent can be relayed.      *)
ChainOf(r) ==
  IF sent[r] = Absent
    THEN stage[r] # "sending" /\ answer[r] \notin {"relayed", "101"}
    ELSE /\ stage[r] \notin {"new", "reading", "connecting", "panicked"}
         /\ head[r] \in Heads /\ listener[r] \in Listeners
         /\ name \notin UnfitNames
         /\ sent[r] = Forwarded(r)
ChainInv == \A r \in Requests : ChainOf(r)

LEMMA ChainInit == Init => ChainInv
  BY DEF Init, ChainInv, ChainOf

\* Once a request is routed, its Forwarded field is decided.
LEMMA ForwardedStays ==
  ASSUME NEW r \in Requests, UNCHANGED <<name, head[r], listener[r]>>
  PROVE  Forwarded(r)' = Forwarded(r)
  BY DEF Forwarded, PreviousHops, OwnHop

LEMMA ChainStep ==
  ASSUME TypeInv, ChainInv, [Next]_vars, NEW d \in Requests
  PROVE  ChainOf(d)'
<1> USE DEF TypeInv, TypeOK, Answer, request
<1>1. ASSUME UNCHANGED <<name, sent[d], head[d], listener[d], stage[d], answer[d]>>
      PROVE  ChainOf(d)'
  BY <1>1, ForwardedStays DEF ChainInv, ChainOf
<1>2. ASSUME NEW r \in Requests, d # r,
             \/ Call(r) \/ ReadFile(r) \/ Forward(r) \/ ConnEnds(r)
             \/ TunnelStep(r) \/ TunnelEnds(r) \/ ClientCloses(r)
      PROVE  UNCHANGED <<name, sent[d], head[d], listener[d], stage[d], answer[d]>>
  BY <1>2 DEF Call, CallUnmatched, CallServe, CallForward, Arrive, ReadFile,
     Forward, ConnectFails, Connect, Respond, SwitchProtocols, UnaskedSwitch,
     SendFails, ConnEnds, TunnelStep, TunnelOpens, TunnelFails, TunnelEnds,
     CloseTunnel, ClientCloses
<1>3. ASSUME Call(d) PROVE ChainOf(d)'
  BY <1>3 DEF Call, CallUnmatched, CallServe, CallForward, Arrive, ChainInv, ChainOf
<1>4. ASSUME Connect(d) PROVE ChainOf(d)'
  <2>1. /\ sent[d] = Absent /\ stage[d] = "connecting"
        /\ answer[d] \notin {"relayed", "101"}
    BY <1>4 DEF Connect, ChainInv, ChainOf
  <2>2. CASE ForwardPanics(d)
    BY <1>4, <2>1, <2>2 DEF Connect, ChainOf
  <2>3. CASE ~ForwardPanics(d)
    <3>1. sent'[d] = Forwarded(d) /\ sent'[d] # Absent
      BY <1>4, <2>1, <2>3, ForwardedIsSequence, AbsentAssumption DEF Connect
    <3>2. stage'[d] = "sending" /\ head'[d] \in Heads /\ listener'[d] \in Listeners
      BY <1>4, <2>1, <2>3 DEF Connect, RequestInv
    <3>3. Forwarded(d)' = Forwarded(d) /\ name' \notin UnfitNames
      BY <1>4, <2>3, ForwardedStays DEF Connect, ForwardPanics
    <3> QED
      BY <3>1, <3>2, <3>3 DEF ChainOf
  <2> QED
    BY <2>2, <2>3
<1>5. ASSUME ReadFile(d) \/ ConnectFails(d) \/ Respond(d) \/ SwitchProtocols(d)
             \/ UnaskedSwitch(d) \/ SendFails(d) \/ ConnEnds(d) \/ TunnelStep(d)
             \/ TunnelEnds(d) \/ ClientCloses(d)
      PROVE  ChainOf(d)'
  <2>1. Forwarded(d)' = Forwarded(d) /\ UNCHANGED <<request, sent>>
    BY <1>5, ForwardedStays DEF ReadFile, ConnectFails, Respond, SwitchProtocols,
       UnaskedSwitch, SendFails, ConnEnds, TunnelStep, TunnelOpens, TunnelFails,
       TunnelEnds, ClientCloses
  <2>2. \/ UNCHANGED <<stage[d], answer[d]>>
        \/ /\ stage[d] = "sending"
           /\ stage'[d] \in {"answered", "failed", "dropped"}
        \/ /\ stage'[d] \in {"answered", "dropped"}
           /\ answer'[d] \in {answer[d], "404", "502", "file"}
    BY <1>5 DEF ReadFile, ConnectFails, Respond, SwitchProtocols,
       UnaskedSwitch, SendFails, ConnEnds, TunnelStep, TunnelOpens, TunnelFails,
       TunnelEnds, ClientCloses, Pending
  <2> QED
    BY <2>1, <2>2 DEF ChainInv, ChainOf
<1>6. CASE UNCHANGED vars
  BY <1>1, <1>6 DEF vars
<1> QED
  BY <1>1, <1>2, <1>3, <1>4, <1>5, <1>6 DEF Next, Forward, Terminated

\* The hops that are there already are those that are written, or the first
\* field's if there are several.
LEMMA PreviousHopsAreWritten ==
  ASSUME NEW r \in Requests, head[r] \in Heads
  PROVE  /\ PreviousHops(r) \in Seq(Hops)
         /\ IsPrefix(PreviousHops(r), Written(r))
         /\ Len(head[r].forwarded) <= 1 => PreviousHops(r) = Written(r)
<1> DEFINE fields == head[r].forwarded
           seqs == [i \in DOMAIN fields |-> HopsOf(fields[i])]
<1>1. fields \in Seq({Unreadable} \cup Seq(Hops))
  BY HeadsAssumption
<1> HIDE DEF fields
<1>2. \A i \in DOMAIN fields : HopsOf(fields[i]) \in Seq(Hops)
  BY <1>1 DEF HopsOf
<1>3. seqs \in Seq(Seq(Hops)) /\ Len(seqs) = Len(fields) /\ Len(fields) \in Nat
  BY <1>1, <1>2
<1>4. Written(r) = FlattenSeq(seqs)
  BY DEF Written, fields
<1>5. CASE fields = <<>>
  <2>1. PreviousHops(r) = <<>> /\ Len(seqs) = 0
    BY <1>3, <1>5 DEF PreviousHops, fields
  <2>2. seqs = <<>>
    BY <1>3, <2>1
  <2>3. FlattenSeq(seqs) = <<>>
    BY <2>1, <2>2 DEF FlattenSeq
  <2> QED
    BY <1>4, <2>1, <2>3 DEF IsPrefix
<1>6. CASE fields # <<>>
  <2>1. seqs # <<>> /\ 1 \in DOMAIN fields
    BY <1>1, <1>3, <1>6
  <2>2. PreviousHops(r) = seqs[1]
    BY <1>6, <2>1 DEF PreviousHops, HopsOf, fields
  <2>3. seqs[1] \in Seq(Hops)
    BY <1>2, <2>1
  <2> HIDE DEF seqs
  <2>4. /\ IsPrefix(seqs[1], FlattenSeq(seqs))
        /\ Len(seqs) = 1 => FlattenSeq(seqs) = seqs[1]
    BY <1>3, <2>1, FlattenBeginsWithFirst
  <2>5. Len(fields) <= 1 => Len(seqs) = 1
    BY <1>1, <1>3, <1>6
  <2> QED
    BY <1>4, <2>2, <2>3, <2>4, <2>5 DEF fields
<1> QED
  BY <1>5, <1>6

LEMMA ChainFromInv == TypeInv /\ ChainInv => ForwardedChain
<1> SUFFICES ASSUME TypeInv, ChainInv, NEW r \in Requests, sent[r] # Absent
             PROVE  /\ IsPrefix(Front(sent[r]), Written(r))
                    /\ Len(head[r].forwarded) <= 1 => Front(sent[r]) = Written(r)
                    /\ Last(sent[r]).client = r
                    /\ Last(sent[r]).by \in {name, listener[r]}
  BY DEF ForwardedChain, ChainInv, ChainOf
<1>1. sent[r] = Append(PreviousHops(r), OwnHop(r)) /\ head[r] \in Heads
  BY DEF ChainInv, ChainOf, Forwarded
<1>2. Front(sent[r]) = PreviousHops(r) /\ Last(sent[r]) = OwnHop(r)
  BY <1>1, PreviousHopsAreWritten, FrontAndLastOfAppend
<1>3. OwnHop(r).client = r /\ OwnHop(r).by \in {name, listener[r]}
  BY DEF OwnHop
<1> QED
  BY <1>1, <1>2, <1>3, PreviousHopsAreWritten

(* A backend learns the hops that are written in a request, in their       *)
(* order, then the client, address and name of this very proxy, whatever   *)
(* fields of whatever lengths the request came with; and a request whose   *)
(* handling panics is not sent at all.                                     *)
THEOREM ForwardedChainIsKept == Spec => []ForwardedChain
<1>1. TypeInv /\ ChainInv /\ [Next]_vars => ChainInv'
  BY ChainStep DEF ChainInv
<1> QED
  BY <1>1, ChainInit, ChainFromInv, TypeInvariant, PTL DEF Spec

-----------------------------------------------------------------------------
(* The turns of the schedulers.                                            *)

\* The requests that got backend b, and the turns up to n that are its.
Got(l, p, b) == {r \in RoutedTo(l, p) : backend[r] = b}
Due(p, b, n) ==
  {k \in 0..(n - 1) : Patterns[p].cycle[1 + (k % Len(Patterns[p].cycle))] = b}

(* Counting is inductive only for finite sets: at any time, finitely many  *)
(* requests have been routed.                                              *)
TurnsOf(l, p) ==
  /\ IsFiniteSet(RoutedTo(l, p))
  /\ turns[<<l, p>>] = Cardinality(RoutedTo(l, p))
  /\ \A b \in Backends : Cardinality(Got(l, p, b)) = Cardinality(Due(p, b, turns[<<l, p>>]))

ForwardPatterns == {p \in DOMAIN Patterns : Patterns[p].kind = "forward"}
TurnsInv == \A l \in Listeners, p \in ForwardPatterns : TurnsOf(l, p)

\* One turn more is a turn more for the backend whose turn it is.
LEMMA DueGrows ==
  ASSUME NEW p, NEW b, NEW n \in Nat
  PROVE  /\ IsFiniteSet(Due(p, b, n))
         /\ Cardinality(Due(p, b, n + 1)) =
              IF Patterns[p].cycle[1 + (n % Len(Patterns[p].cycle))] = b
                THEN Cardinality(Due(p, b, n)) + 1
                ELSE Cardinality(Due(p, b, n))
<1> DEFINE Mine(k) == Patterns[p].cycle[1 + (k % Len(Patterns[p].cycle))] = b
<1>1. Due(p, b, n) = {k \in 0..(n - 1) : Mine(k)} /\ Due(p, b, n + 1) = {k \in 0..n : Mine(k)}
  BY DEF Due
<1>2. Mine(n) <=> Patterns[p].cycle[1 + (n % Len(Patterns[p].cycle))] = b
  OBVIOUS
<1> HIDE DEF Mine
<1>3. IsFiniteSet(0..(n - 1)) /\ Due(p, b, n) \in SUBSET (0..(n - 1))
  BY <1>1, FS_Interval
<1>4. IsFiniteSet(Due(p, b, n)) /\ n \notin Due(p, b, n)
  BY <1>1, <1>3, FS_Subset
<1>5. Due(p, b, n + 1) = IF Mine(n) THEN Due(p, b, n) \cup {n} ELSE Due(p, b, n)
  <2>1. 0..n = (0..(n - 1)) \cup {n}
    OBVIOUS
  <2> QED
    BY <1>1, <2>1
<1> QED
  BY <1>2, <1>4, <1>5, FS_AddElement

LEMMA TurnsInit == Init => TurnsInv
<1> SUFFICES ASSUME Init, NEW l \in Listeners, NEW p \in ForwardPatterns
             PROVE  TurnsOf(l, p)
  BY DEF TurnsInv
<1>1. RoutedTo(l, p) = {} /\ \A b : Got(l, p, b) = {}
  BY DEF Init, RoutedTo, Got
<1>2. turns[<<l, p>>] = 0
  BY DEF Init, ForwardPatterns
<1>3. \A b : Due(p, b, 0) = {}
  BY DEF Due
<1> QED
  BY <1>1, <1>2, <1>3, FS_EmptySet DEF TurnsOf

\* A step that routes no request to p at l leaves its turns alone.
LEMMA TurnsStay ==
  ASSUME NEW l, NEW p, TurnsOf(l, p),
         RoutedTo(l, p)' = RoutedTo(l, p), turns'[<<l, p>>] = turns[<<l, p>>],
         \A r \in RoutedTo(l, p) : backend'[r] = backend[r]
  PROVE  TurnsOf(l, p)'
<1>1. \A b : Got(l, p, b)' = Got(l, p, b)
  BY DEF Got
<1>2. \A b : Due(p, b, turns[<<l, p>>])' = Due(p, b, turns[<<l, p>>])
  BY DEF Due
<1> QED
  BY <1>1, <1>2 DEF TurnsOf

\* A request that is routed to p at l takes a turn and gets its backend.
LEMMA TurnsGrow ==
  ASSUME NEW l, NEW p, TurnsOf(l, p), turns[<<l, p>>] \in Nat,
         NEW r, r \notin RoutedTo(l, p), RoutedTo(l, p)' = RoutedTo(l, p) \cup {r},
         turns'[<<l, p>>] = turns[<<l, p>>] + 1,
         backend'[r] = NextServer(<<l, p>>),
         \A d \in RoutedTo(l, p) : backend'[d] = backend[d]
  PROVE  TurnsOf(l, p)'
<1> DEFINE n == turns[<<l, p>>]
           next == Patterns[p].cycle[1 + (n % Len(Patterns[p].cycle))]
<1>1. IsFiniteSet(RoutedTo(l, p))' /\ turns'[<<l, p>>] = Cardinality(RoutedTo(l, p))'
  BY FS_AddElement DEF TurnsOf
<1>2. ASSUME NEW b \in Backends
      PROVE  Cardinality(Got(l, p, b))' = Cardinality(Due(p, b, turns'[<<l, p>>]))
  <2>1. Got(l, p, b)' = IF next = b THEN Got(l, p, b) \cup {r} ELSE Got(l, p, b)
    BY DEF Got, NextServer
  <2>2. IsFiniteSet(Got(l, p, b)) /\ r \notin Got(l, p, b)
    <3>1. IsFiniteSet(RoutedTo(l, p)) /\ Got(l, p, b) \in SUBSET RoutedTo(l, p)
      BY DEF TurnsOf, Got
    <3> QED
      BY <3>1, FS_Subset
  <2>3. Cardinality(Got(l, p, b))' = IF next = b THEN Cardinality(Got(l, p, b)) + 1
                                               ELSE Cardinality(Got(l, p, b))
    BY <2>1, <2>2, FS_AddElement
  <2>4. Cardinality(Got(l, p, b)) = Cardinality(Due(p, b, n))
    BY DEF TurnsOf
  <2>5. Cardinality(Due(p, b, n + 1)) = IF next = b THEN Cardinality(Due(p, b, n)) + 1
                                                   ELSE Cardinality(Due(p, b, n))
    BY DueGrows
  <2> HIDE DEF next
  <2> QED
    BY <2>3, <2>4, <2>5
<1> QED
  BY <1>1, <1>2 DEF TurnsOf, Due

LEMMA TurnsStep ==
  ASSUME TypeInv, TurnsInv, [Next]_vars,
         NEW k \in Listeners, NEW p \in ForwardPatterns
  PROVE  TurnsOf(k, p)'
<1>1. /\ stage \in [Requests -> {"new"} \cup Pending \cup Settled]
      /\ DOMAIN uri = Requests /\ DOMAIN listener = Requests
      /\ DOMAIN backend = Requests
      /\ turns \in [Listeners \X DOMAIN Patterns -> Nat]
  BY DEF TypeInv, TypeOK
<1>2. p \in DOMAIN Patterns /\ Patterns[p].kind = "forward" /\ TurnsOf(k, p)
      /\ turns[<<k, p>>] \in Nat
  BY <1>1 DEF ForwardPatterns, TurnsInv
<1>3. ASSUME UNCHANGED <<uri, listener, backend, turns>>,
             \A r \in Requests : stage'[r] = "new" <=> stage[r] = "new"
      PROVE  TurnsOf(k, p)'
  <2>1. RoutedTo(k, p)' = RoutedTo(k, p)
    BY <1>3 DEF RoutedTo
  <2> QED
    BY <1>2, <1>3, <2>1, TurnsStay
<1>4. ASSUME NEW r \in Requests, NEW u \in Uris, NEW l \in Listeners, Arrive(r, u, l),
             stage'[r] \in {"reading", "connecting", "answered"},
             \A d \in Requests : d # r => stage'[d] = stage[d]
      PROVE  /\ r \notin RoutedTo(k, p)
             /\ RoutedTo(k, p)' = IF l = k /\ Fitting(u) # {} /\ Match(u) = p
                                    THEN RoutedTo(k, p) \cup {r} ELSE RoutedTo(k, p)
  <2>1. /\ stage[r] = "new" /\ uri'[r] = u /\ listener'[r] = l
        /\ \A d \in Requests : d # r => uri'[d] = uri[d] /\ listener'[d] = listener[d]
    BY <1>1, <1>4 DEF Arrive
  <2>2. r \notin RoutedTo(k, p)
    BY <2>1 DEF RoutedTo
  <2>3. ASSUME NEW d \in Requests
        PROVE  d \in RoutedTo(k, p)' <=>
                 d \in RoutedTo(k, p) \/ (d = r /\ l = k /\ Fitting(u) # {} /\ Match(u) = p)
    <3>1. CASE d = r
      BY <1>4, <2>1, <2>2, <3>1 DEF RoutedTo
    <3>2. CASE d # r
      BY <1>4, <2>1, <3>2 DEF RoutedTo
    <3> QED
      BY <3>1, <3>2
  <2>4. RoutedTo(k, p) \subseteq Requests /\ RoutedTo(k, p)' \subseteq Requests
    BY DEF RoutedTo
  <2> QED
    BY <2>2, <2>3, <2>4
<1>5. ASSUME NEW r \in Requests, NEW u \in Uris, NEW l \in Listeners,
             CallUnmatched(r, u, l) \/ CallServe(r, u, l)
      PROVE  TurnsOf(k, p)'
  <2>1. /\ Arrive(r, u, l) /\ UNCHANGED <<backend, turns>>
        /\ stage'[r] \in {"reading", "connecting", "answered"}
        /\ \A d \in Requests : d # r => stage'[d] = stage[d]
        /\ ~(Fitting(u) # {} /\ Match(u) = p)
    BY <1>1, <1>2, <1>5 DEF CallUnmatched, CallServe, Answer
  <2>2. RoutedTo(k, p)' = RoutedTo(k, p)
    BY <1>4, <2>1
  <2> QED
    BY <1>2, <2>1, <2>2, TurnsStay
<1>6. ASSUME NEW r \in Requests, NEW u \in Uris, NEW l \in Listeners, NEW h \in Heads,
             CallForward(r, u, l, h)
      PROVE  TurnsOf(k, p)'
  <2> DEFINE m == Match(u)
  <2>1. /\ Arrive(r, u, l) /\ Fitting(u) # {} /\ m \in DOMAIN Patterns
        /\ stage'[r] \in {"reading", "connecting", "answered"}
        /\ \A d \in Requests : d # r => stage'[d] = stage[d]
    BY <1>1, <1>6, MatchFits DEF CallForward
  <2>2. /\ turns' = [turns EXCEPT ![<<l, m>>] = @ + 1]
        /\ backend' = [backend EXCEPT ![r] = NextServer(<<l, m>>)]
    BY <1>6 DEF CallForward, SchedulerOf
  <2>3. r \notin RoutedTo(k, p)
    BY <1>4, <2>1
  <2>4. \A d \in RoutedTo(k, p) : backend'[d] = backend[d]
    BY <1>1, <2>2, <2>3 DEF RoutedTo
  <2> HIDE DEF m
  <2>5. CASE l = k /\ m = p
    <3>1. RoutedTo(k, p)' = RoutedTo(k, p) \cup {r}
      BY <1>4, <2>1, <2>5 DEF m
    <3>2. turns'[<<k, p>>] = turns[<<k, p>>] + 1 /\ backend'[r] = NextServer(<<k, p>>)
      BY <1>1, <1>2, <2>2, <2>5
    <3> QED
      BY <1>2, <2>3, <2>4, <3>1, <3>2, TurnsGrow
  <2>6. CASE ~(l = k /\ m = p)
    <3>1. RoutedTo(k, p)' = RoutedTo(k, p)
      BY <1>4, <2>1, <2>6 DEF m
    <3>2. turns'[<<k, p>>] = turns[<<k, p>>]
      BY <1>1, <1>2, <2>1, <2>2, <2>6
    <3> QED
      BY <1>2, <2>4, <3>1, <3>2, TurnsStay
  <2> QED
    BY <2>5, <2>6
<1>7. ASSUME NEW r \in Requests,
             \/ ReadFile(r) \/ Forward(r) \/ ConnEnds(r)
             \/ TunnelStep(r) \/ TunnelEnds(r) \/ ClientCloses(r)
      PROVE  TurnsOf(k, p)'
  <2>1. /\ UNCHANGED <<uri, listener, backend, turns>>
        /\ \A d \in Requests : stage'[d] = "new" <=> stage[d] = "new"
    BY <1>1, <1>7 DEF ReadFile, Forward, ConnectFails, Connect, Respond,
       SwitchProtocols, UnaskedSwitch, SendFails, ConnEnds, TunnelStep, TunnelOpens,
       TunnelFails, TunnelEnds, ClientCloses, Answer, Pending, request
  <2> QED
    BY <1>3, <2>1
<1>8. CASE UNCHANGED vars
  BY <1>3, <1>8 DEF vars, request
<1> QED
  BY <1>5, <1>6, <1>7, <1>8 DEF Next, Call, Terminated

LEMMA TurnsFromInv == TurnsInv => TurnsFollowRequests
  BY DEF TurnsInv, TurnsOf, TurnsFollowRequests, ForwardPatterns, Got, Due

(* A scheduler's turns go to the requests of its own pattern and address,  *)
(* one each, whatever becomes of them, and every backend gets exactly the  *)
(* turns of the cycle that are its own: for any number of requests and     *)
(* addresses, any patterns and any weights.                                *)
THEOREM TurnsAlwaysFollowRequests == Spec => []TurnsFollowRequests
<1>1. TypeInv /\ TurnsInv /\ [Next]_vars => TurnsInv'
  BY TurnsStep DEF TurnsInv
<1> QED
  BY <1>1, TurnsInit, TurnsFromInv, TypeInvariant, PTL DEF Spec

=============================================================================
