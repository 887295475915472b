------------------------- MODULE ServerVisitorProofs -------------------------
(***************************************************************************)
(* Theorems about ServerVisitor, for every set of values that documents    *)
(* may give and documents of any length: whatever the order of the keys,   *)
(* no mix of actions and patterns is accepted but the one the code lets    *)
(* pass, every accepted forward action has something to schedule, what is  *)
(* accepted is what was written, and what is rejected has an objection.    *)
(***************************************************************************)
EXTENDS ServerVisitor, InductionLemmas

Keys == {"listen", "match", "forward", "serve", "uri", "name", "connections",
         "unknown"}
Values ==
  UNION {ListenValues, MatchValues, ForwardValues, ServeValues, UriValues,
         NameValues, ConnectionsValues, {Absent}}
Entries == [key : Keys, value : Values]

\* The locals know what the document has given so far.
LocalsKnow ==
  verdict = "reading" =>
    /\ simplePattern = NoPattern <=> ActionsGiven = {}
    /\ patterns = <<>> <=> MatchesGiven = {}

\* MixesAreRejected while the document is being read, too.
NoMix ==
  /\ \A i, j \in ActionsGiven : i = j
  /\ \A i, j \in MatchesGiven : i = j
  /\ ActionsGiven = {} \/ MatchesGiven = {}
  /\ \A i \in Given("uri"), j \in MatchesGiven : i < j

MixInv ==
  /\ doc \in Seq(Entries)
  /\ LocalsKnow
  /\ verdict \in {"reading", "accepted"} => NoMix

\* Visiting a key adds one position to the positions of that key only.
LEMMA GivenByNextKey ==
  ASSUME NEW k \in Keys, NEW v \in Values, doc \in Seq(Entries), NextKey(k, v)
  PROVE  /\ doc' \in Seq(Entries)
         /\ \A l \in Keys : Given(l)' = Given(l) \cup
                                        (IF l = k THEN {Len(doc) + 1} ELSE {})
         /\ ActionsGiven' = ActionsGiven \cup
              (IF k \in {"forward", "serve"} THEN {Len(doc) + 1} ELSE {})
         /\ MatchesGiven' = MatchesGiven \cup
              (IF k = "match" /\ v # <<>> THEN {Len(doc) + 1} ELSE {})
         /\ \A l \in Keys : Given(l) \subseteq 1..Len(doc)
<1> DEFINE e == [key |-> k, value |-> v]
           n == Len(doc)
<1>1. e \in Entries
  BY DEF Entries
<1>2. doc' = Append(doc, e)
  BY DEF NextKey
<1>3. doc' \in Seq(Entries)
  BY <1>1, <1>2
<1>4. /\ n \in Nat
      /\ DOMAIN doc = 1..n
      /\ DOMAIN doc' = 1..(n + 1)
      /\ \A i \in 1..n : doc'[i] = doc[i]
      /\ doc'[n + 1] = e
  BY <1>1, <1>2
<1>5. \A l \in Keys : Given(l)' = Given(l) \cup
                                  (IF l = k THEN {n + 1} ELSE {})
  <2> SUFFICES ASSUME NEW l \in Keys
               PROVE  {i \in DOMAIN doc' : doc'[i].key = l}
                        = {i \in DOMAIN doc : doc[i].key = l}
                            \cup (IF l = k THEN {n + 1} ELSE {})
    BY DEF Given
  <2>1. 1..(n + 1) = 1..n \cup {n + 1}
    BY <1>4
  <2>2. e.key = k
    OBVIOUS
  <2> HIDE DEF n, e
  <2> QED BY <2>1, <2>2, <1>4
<1>6. MatchesGiven' = MatchesGiven \cup
        (IF k = "match" /\ v # <<>> THEN {n + 1} ELSE {})
  <2>1. MatchesGiven' = {i \in Given("match")' : doc'[i].value # <<>>}
    BY DEF MatchesGiven
  <2>2. e.value = v
    OBVIOUS
  <2>3. Given("match") \subseteq 1..n
    BY <1>4 DEF Given
  <2>4. Given("match")' = Given("match") \cup
          (IF "match" = k THEN {n + 1} ELSE {})
    BY <1>5 DEF Keys
  <2> HIDE DEF n, e
  <2> QED BY <2>1, <2>2, <2>3, <2>4, <1>4 DEF MatchesGiven
<1>7. ActionsGiven' = ActionsGiven \cup
        (IF k \in {"forward", "serve"} THEN {n + 1} ELSE {})
  <2>1. ActionsGiven' = Given("forward")' \cup Given("serve")'
    BY DEF ActionsGiven
  <2> QED BY <1>5, <2>1 DEF ActionsGiven, Keys
<1> QED BY <1>3, <1>4, <1>5, <1>6, <1>7 DEF Given

LEMMA MixInit == Init => MixInv
<1> SUFFICES ASSUME Init PROVE MixInv
  OBVIOUS
<1>1. doc = <<>> /\ doc \in Seq(Entries) /\ DOMAIN doc = {}
  BY DEF Init
<1>2. \A k \in Keys : Given(k) = {}
  BY <1>1 DEF Given
<1>3. ActionsGiven = {} /\ MatchesGiven = {} /\ Given("uri") = {}
  BY <1>2 DEF ActionsGiven, MatchesGiven, Keys
<1> QED BY <1>1, <1>3 DEF MixInv, LocalsKnow, NoMix, Init

\* A step that ends the reading with an error keeps the invariant.
LEMMA MixFailed ==
  ASSUME doc' \in Seq(Entries), verdict' \notin {"reading", "accepted"}
  PROVE  MixInv'
BY DEF MixInv, LocalsKnow

LEMMA VerdictsAreErrors ==
  /\ \A v : ValueVerdict(v) \in {"ok", "invalid value"}
  /\ \A v : ForwardVerdict(v) \in {"ok", "invalid value", "panicked"}
  /\ \A v : MatchVerdict(v) \in {"ok", "invalid value", "panicked"}
BY DEF ValueVerdict, ForwardVerdict, MatchVerdict

\* A key of neither form leaves all that MixInv is about as it was.
LEMMA MixStays ==
  ASSUME MixInv, NEW k \in {"listen", "name", "connections"}, NEW v \in Values,
         NextKey(k, v), UNCHANGED <<patterns, simplePattern>>,
         verdict' = "reading" \/ verdict' \notin {"reading", "accepted"}
  PROVE  MixInv'
<1>1. /\ k \in Keys /\ "uri" \in Keys /\ "uri" # k
      /\ k \notin {"forward", "serve"} /\ k # "match"
  BY DEF Keys
<1>2. doc \in Seq(Entries)
  BY DEF MixInv
<1>3. /\ doc' \in Seq(Entries)
      /\ Given("uri")' = Given("uri") \cup (IF "uri" = k THEN {Len(doc) + 1} ELSE {})
      /\ ActionsGiven' = ActionsGiven \cup
           (IF k \in {"forward", "serve"} THEN {Len(doc) + 1} ELSE {})
      /\ MatchesGiven' = MatchesGiven \cup
           (IF k = "match" /\ v # <<>> THEN {Len(doc) + 1} ELSE {})
  BY <1>1, <1>2, GivenByNextKey
<1>4. UNCHANGED <<Given("uri"), ActionsGiven, MatchesGiven>>
  BY <1>1, <1>3
<1>5. verdict = "reading"
  BY DEF NextKey
<1> QED
  BY <1>3, <1>4, <1>5 DEF MixInv, LocalsKnow, NoMix

LEMMA MixNext == MixInv /\ [Next]_vars => MixInv'
<1> SUFFICES ASSUME MixInv, [Next]_vars PROVE MixInv'
  OBVIOUS
<1>1. ASSUME NEW v \in ListenValues, VisitListen(v) PROVE MixInv'
  <2>1. NextKey("listen", v) /\ "listen" \in Keys /\ v \in Values
    BY <1>1 DEF VisitListen, Keys, Values
  <2>2. UNCHANGED <<patterns, simplePattern>>
    BY <1>1 DEF VisitListen, Take, Fail, locals
  <2>3. verdict' = "reading" \/ verdict' \notin {"reading", "accepted"}
    BY <1>1, <2>1, VerdictsAreErrors DEF VisitListen, NextKey, Take, Fail
  <2> QED
    BY <2>1, <2>2, <2>3, MixStays
<1>7. ASSUME NEW v \in NameValues, VisitName(v) PROVE MixInv'
  <2>1. NextKey("name", v) /\ "name" \in Keys /\ v \in Values
    BY <1>7 DEF VisitName, Keys, Values
  <2>2. UNCHANGED <<patterns, simplePattern>>
    BY <1>7 DEF VisitName, Take, Fail, locals
  <2>3. verdict' = "reading" \/ verdict' \notin {"reading", "accepted"}
    BY <1>7, <2>1, VerdictsAreErrors DEF VisitName, NextKey, Take, Fail
  <2> QED
    BY <2>1, <2>2, <2>3, MixStays
<1>8. ASSUME NEW v \in ConnectionsValues, VisitConnections(v) PROVE MixInv'
  <2>1. NextKey("connections", v) /\ "connections" \in Keys /\ v \in Values
    BY <1>8 DEF VisitConnections, Keys, Values
  <2>2. UNCHANGED <<patterns, simplePattern>>
    BY <1>8 DEF VisitConnections, Take, Fail, locals
  <2>3. verdict' = "reading" \/ verdict' \notin {"reading", "accepted"}
    BY <1>8, <2>1, VerdictsAreErrors DEF VisitConnections, NextKey, Take, Fail
  <2> QED
    BY <2>1, <2>2, <2>3, MixStays
<1> USE DEF MixInv, LocalsKnow, NoMix
<1> DEFINE Unmixed == /\ doc' \in Seq(Entries)
                      /\ LocalsKnow'
                      /\ NoMix'
<1>0. Len(doc) \in Nat
  OBVIOUS
<1>2. ASSUME NEW v \in MatchValues, VisitMatch(v) PROVE MixInv'
  <2>1. NextKey("match", v) /\ "match" \in Keys /\ v \in Values
    BY <1>2 DEF VisitMatch, Keys, Values
  <2>2. verdict = "reading" BY <2>1 DEF NextKey
  <2>3. CASE verdict' # "reading"
    BY <1>2, <2>1, <2>2, <2>3, GivenByNextKey, VerdictsAreErrors
    DEF VisitMatch, Take, Fail
  <2>4. CASE verdict' = "reading"
    <3>1. /\ MatchVerdict(v) = "ok"
          /\ patterns = <<>> /\ simplePattern = NoPattern
          /\ patterns' = Patterns(v)
          /\ UNCHANGED simplePattern
      BY <1>2, <2>2, <2>4, VerdictsAreErrors DEF VisitMatch, Take, Fail
    <3>2. v # Malformed
      BY <3>1 DEF MatchVerdict
    <3>3. Patterns(v) = <<>> <=> v = <<>>
      <4>1. v \in Seq({v[i] : i \in DOMAIN v})
        BY <3>2, MatchAssumption
      <4>2. DOMAIN v = 1..Len(v) /\ Len(v) \in Nat
        BY <4>1
      <4>3. DOMAIN Patterns(v) = DOMAIN v
        BY DEF Patterns
      <4>4. Patterns(v) = <<>> => DOMAIN Patterns(v) = {}
        OBVIOUS
      <4>5. DOMAIN v = {} => v = <<>>
        BY <4>1, <4>2
      <4>6. v = <<>> => Patterns(v) = <<>>
        BY DEF Patterns
      <4> QED BY <4>3, <4>4, <4>5, <4>6
    <3>4. ActionsGiven = {} /\ MatchesGiven = {}
      BY <2>2, <3>1
    <3>5. /\ doc' \in Seq(Entries)
          /\ ActionsGiven' = {}
          /\ MatchesGiven' = IF v # <<>> THEN {Len(doc) + 1} ELSE {}
          /\ Given("uri")' = Given("uri")
          /\ Given("uri") \subseteq 1..Len(doc)
      BY <2>1, <3>4, GivenByNextKey DEF Keys
    <3> QED BY <1>0, <2>4, <3>1, <3>3, <3>4, <3>5
  <2> QED BY <2>3, <2>4
<1>3. ASSUME NEW v, NEW k \in {"forward", "serve"}, NEW r, NEW action,
             v \in Values, NextKey(k, v), VisitAction(k, r, action),
             r \in {"ok", "invalid value", "panicked"}, action.kind = k
      PROVE  MixInv'
  <2>1. verdict = "reading" BY <1>3 DEF NextKey
  <2>2. doc' \in Seq(Entries)
    BY <1>3, GivenByNextKey DEF Keys
  <2>3. CASE verdict' # "reading"
    BY <1>3, <2>1, <2>2, <2>3, MixFailed DEF VisitAction, Take, Fail
  <2>4. CASE verdict' = "reading"
    <3>1. /\ patterns = <<>> /\ simplePattern = NoPattern
          /\ patterns' = patterns
          /\ simplePattern' = [uri |-> DefaultUri, action |-> action]
      BY <1>3, <2>1, <2>4 DEF VisitAction, Take, Fail
    <3>2. simplePattern' # NoPattern
      <4>1. simplePattern'.action.kind \in {"forward", "serve"}
        BY <1>3, <3>1
      <4>2. NoPattern.action.kind = "none"
        BY DEF NoPattern, NoAction
      <4> QED BY <4>1, <4>2
    <3>3. ActionsGiven = {} /\ MatchesGiven = {}
      BY <2>1, <3>1
    <3>4. /\ ActionsGiven' = {Len(doc) + 1}
          /\ MatchesGiven' = {}
      <4>1. k \in Keys /\ k # "match"
        BY <1>3 DEF Keys
      <4>2. /\ ActionsGiven' = ActionsGiven \cup
                 (IF k \in {"forward", "serve"} THEN {Len(doc) + 1} ELSE {})
            /\ MatchesGiven' = MatchesGiven \cup
                 (IF k = "match" /\ v # <<>> THEN {Len(doc) + 1} ELSE {})
        BY <1>3, <4>1, GivenByNextKey
      <4> QED
        BY <1>3, <3>3, <4>1, <4>2
    <3> QED BY <2>2, <2>4, <3>1, <3>2, <3>4
  <2> QED BY <2>3, <2>4
<1>4. ASSUME NEW v \in ForwardValues, VisitForward(v) PROVE MixInv'
  BY <1>3, <1>4, VerdictsAreErrors DEF VisitForward, ForwardAction, Values
<1>5. ASSUME NEW v \in ServeValues, VisitServe(v) PROVE MixInv'
  BY <1>3, <1>5, VerdictsAreErrors DEF VisitServe, ServeAction, Values
<1>6. ASSUME NEW v \in UriValues, VisitUri(v) PROVE MixInv'
  <2>1. NextKey("uri", v) /\ "uri" \in Keys /\ v \in Values
    BY <1>6 DEF VisitUri, Keys, Values
  <2>2. verdict = "reading" BY <2>1 DEF NextKey
  <2>3. /\ doc' \in Seq(Entries)
        /\ ActionsGiven' = ActionsGiven
        /\ MatchesGiven' = MatchesGiven
    BY <2>1, GivenByNextKey
  <2>4. CASE verdict' # "reading"
    BY <1>6, <2>2, <2>3, <2>4, MixFailed, VerdictsAreErrors DEF VisitUri, Take, Fail
  <2>5. CASE verdict' = "reading"
    <3>1. /\ patterns = <<>>
          /\ UNCHANGED <<patterns, simplePattern>>
      BY <1>6, <2>2, <2>5, VerdictsAreErrors DEF VisitUri, Take, Fail
    <3>2. MatchesGiven' = {}
      BY <2>2, <2>3, <3>1
    <3> QED BY <2>2, <2>3, <2>5, <3>1, <3>2
  <2> QED BY <2>4, <2>5
<1>9. ASSUME VisitUnknown PROVE MixInv'
  <2>1. NextKey("unknown", Absent) /\ "unknown" \in Keys /\ Absent \in Values
    BY <1>9 DEF VisitUnknown, Keys, Values
  <2> QED BY <1>9, <2>1, GivenByNextKey, MixFailed DEF VisitUnknown, Fail
<1>10. ASSUME Finish PROVE MixInv'
  <2>1. UNCHANGED doc /\ verdict = "reading" /\ verdict' # "reading"
    BY <1>10 DEF Finish
  <2>2. UNCHANGED <<ActionsGiven, MatchesGiven, Given("uri")>>
    BY <2>1 DEF ActionsGiven, MatchesGiven, Given
  <2> QED BY <2>1, <2>2
<1>11. ASSUME UNCHANGED vars PROVE MixInv'
  BY <1>11 DEF vars, locals, ActionsGiven, MatchesGiven, Given
<1> QED BY <1>1, <1>2, <1>4, <1>5, <1>6, <1>7, <1>8, <1>9, <1>10, <1>11
        DEF Next, Terminated

(* An accepted server has one action or one list of patterns, in whatever  *)
(* order the document's keys came; only a `uri` before the list is let     *)
(* pass by visit_map.                                                      *)
THEOREM MixesAreAlwaysRejected == Spec => []MixesAreRejected
<1>1. MixInv => MixesAreRejected
  BY DEF MixInv, NoMix, MixesAreRejected
<1> QED BY <1>1, MixInit, MixNext, PTL DEF Spec

-----------------------------------------------------------------------------
\* A forward action has something to schedule.
Schedulable(action) == action.kind = "forward" => HasWeight(action.weights)

\* AcceptedCanSchedule while the document is being read, and what Finish
\* appends the simple pattern to.
ScheduleInv ==
  /\ verdict \in {"reading", "accepted"} =>
       \A i \in DOMAIN patterns : Schedulable(patterns[i].action)
  /\ verdict = "reading" =>
       /\ simplePattern = [uri |-> DefaultUri, action |-> simplePattern.action]
       /\ Schedulable(simplePattern.action)
       /\ simplePattern # NoPattern => patterns = <<>>

LEMMA ForwardIsSchedulable ==
  ASSUME NEW v, ForwardVerdict(v) = "ok"
  PROVE  HasWeight(ForwardAction(v).weights)
BY DEF ForwardVerdict

LEMMA PatternIsSchedulable ==
  ASSUME NEW p, PatternVerdict(p) = "ok"
  PROVE  Schedulable(Pattern(p).action)
<1> DEFINE a == p.actions[1]
<1>1. ActionVerdict(a) = "ok" /\ Pattern(p).action = ActionOf(a)
  BY DEF PatternVerdict, Pattern
<1>2. CASE a.kind = "serve"
  BY <1>1, <1>2 DEF Schedulable, ActionOf, ServeAction
<1>3. CASE a.kind # "serve"
  BY <1>1, <1>3, ForwardIsSchedulable DEF ActionVerdict, ActionOf, Schedulable
<1> QED BY <1>2, <1>3

LEMMA ScheduleInit == Init => ScheduleInv
<1>1. DOMAIN << >> = {}
  OBVIOUS
<1> QED BY <1>1 DEF Init, ScheduleInv, Schedulable, NoPattern, NoAction

LEMMA ScheduleNext == ScheduleInv /\ [Next]_vars => ScheduleInv'
<1> SUFFICES ASSUME ScheduleInv, [Next]_vars PROVE ScheduleInv'
  OBVIOUS
<1> USE DEF ScheduleInv
<1>1. ASSUME verdict = "reading", UNCHANGED <<patterns, simplePattern>>
      PROVE  ScheduleInv'
  BY <1>1 DEF Schedulable
<1>2. ASSUME verdict' \notin {"reading", "accepted"} PROVE ScheduleInv'
  BY <1>2
<1>3. ASSUME NEW v \in MatchValues, VisitMatch(v) PROVE ScheduleInv'
  <2>1. verdict = "reading" BY <1>3 DEF VisitMatch, NextKey
  <2>2. CASE verdict' # "reading"
    BY <1>2, <1>3, <2>1, <2>2, VerdictsAreErrors DEF VisitMatch, Take, Fail
  <2>3. CASE verdict' = "reading"
    <3>1. /\ MatchVerdict(v) = "ok"
          /\ simplePattern = NoPattern
          /\ patterns' = Patterns(v)
          /\ UNCHANGED simplePattern
      BY <1>3, <2>1, <2>3, VerdictsAreErrors DEF VisitMatch, Take, Fail
    <3>2. \A i \in DOMAIN v : PatternVerdict(v[i]) = "ok"
      BY <3>1 DEF MatchVerdict
    <3>3. \A i \in DOMAIN Patterns(v) : Schedulable(Patterns(v)[i].action)
      BY <3>2, PatternIsSchedulable DEF Patterns
    <3> QED BY <2>1, <2>3, <3>1, <3>3 DEF Schedulable
  <2> QED BY <2>2, <2>3
<1>4. ASSUME NEW k, NEW r, NEW action,
             verdict = "reading", VisitAction(k, r, action),
             r \in {"ok", "invalid value", "panicked"},
             r = "ok" => Schedulable(action)
      PROVE  ScheduleInv'
  <2>1. CASE verdict' # "reading"
    BY <1>2, <1>4, <2>1 DEF VisitAction, Take, Fail
  <2>2. CASE verdict' = "reading"
    <3>1. /\ r = "ok"
          /\ patterns = <<>> /\ UNCHANGED patterns
          /\ simplePattern' = [uri |-> DefaultUri, action |-> action]
      BY <1>4, <2>2 DEF VisitAction, Take, Fail
    <3>2. Schedulable(simplePattern'.action)
      BY <1>4, <3>1
    <3> QED BY <1>4, <3>1, <3>2 DEF Schedulable
  <2> QED BY <2>1, <2>2
<1>5. ASSUME NEW v \in ForwardValues, VisitForward(v) PROVE ScheduleInv'
  <2>1. ForwardVerdict(v) = "ok" => Schedulable(ForwardAction(v))
    BY ForwardIsSchedulable DEF Schedulable
  <2> QED BY <1>4, <1>5, <2>1, VerdictsAreErrors DEF VisitForward, NextKey
<1>6. ASSUME NEW v \in ServeValues, VisitServe(v) PROVE ScheduleInv'
  <2>1. Schedulable(ServeAction)
    BY DEF Schedulable, ServeAction
  <2> QED BY <1>4, <1>6, <2>1, VerdictsAreErrors DEF VisitServe, NextKey
<1>7. ASSUME Finish PROVE ScheduleInv'
  <2>1. verdict = "reading" /\ verdict' # "reading" /\ patterns' = AllPatterns
    BY <1>7 DEF Finish
  <2>2. CASE simplePattern = NoPattern
    BY <2>1, <2>2 DEF AllPatterns, Schedulable
  <2>3. CASE simplePattern # NoPattern
    <3>1. patterns' = << [simplePattern EXCEPT !.uri = uri] >>
      BY <2>1, <2>3 DEF AllPatterns
    <3>2. [simplePattern EXCEPT !.uri = uri]
            = [uri |-> uri, action |-> simplePattern.action]
      BY <2>1
    <3>3. \A i \in DOMAIN patterns' : i = 1
      BY <3>1
    <3>4. patterns'[1].action = simplePattern.action
      BY <3>1, <3>2
    <3> QED BY <2>1, <3>3, <3>4 DEF Schedulable
  <2> QED BY <2>2, <2>3
<1>8. ASSUME UNCHANGED vars PROVE ScheduleInv'
  BY <1>8 DEF vars, locals, Schedulable
<1>9. CASE \/ \E v \in ListenValues : VisitListen(v)
           \/ \E v \in UriValues : VisitUri(v)
           \/ \E v \in NameValues : VisitName(v)
           \/ \E v \in ConnectionsValues : VisitConnections(v)
           \/ VisitUnknown
  BY <1>1, <1>9 DEF VisitListen, VisitUri, VisitName, VisitConnections,
                    VisitUnknown, NextKey, Take, Fail, locals
<1> QED BY <1>3, <1>5, <1>6, <1>7, <1>8, <1>9 DEF Next, Terminated

(* Every forward action of an accepted server has a backend to schedule:   *)
(* Ring::new has panicked before a ring without values could be accepted.  *)
THEOREM AcceptedServersCanSchedule == Spec => []AcceptedCanSchedule
<1>1. ScheduleInv => AcceptedCanSchedule
  BY DEF ScheduleInv, Schedulable, AcceptedCanSchedule
<1> QED BY <1>1, ScheduleInit, ScheduleNext, PTL DEF Spec

-----------------------------------------------------------------------------
(* Type correctness of the locals.                                         *)
PatternType == [uri : PatternUris \cup GivenUris, action : Actions]

LEMMA ForwardActionType ==
  ASSUME NEW v, v.backends \in Seq(Nat \cup {Unweighted})
  PROVE  ForwardAction(v) \in Actions
<1> DEFINE b == v.backends
           w == [i \in DOMAIN b |-> WeightOf(b[i])]
<1>1. b \in Seq(Nat \cup {Unweighted})
  OBVIOUS
<1> HIDE DEF b
<1>2. Len(b) \in Nat /\ DOMAIN b = 1..Len(b)
  BY <1>1
<1>3. \A i \in 1..Len(b) : WeightOf(b[i]) \in Nat
  BY <1>1 DEF WeightOf
<1>4. w \in Seq(Nat)
  BY <1>2, <1>3
<1>5. ForwardAction(v) = [kind |-> "forward", weights |-> w]
  BY DEF ForwardAction, b
<1> HIDE DEF w
<1> QED
  BY <1>4, <1>5 DEF Actions

LEMMA OtherActionsType == NoAction \in Actions /\ ServeAction \in Actions
<1>1. <<>> \in Seq(Nat)
  OBVIOUS
<1> QED
  BY <1>1 DEF NoAction, ServeAction, Actions

LEMMA PatternsType ==
  ASSUME NEW v \in MatchValues, MatchVerdict(v) = "ok"
  PROVE  Patterns(v) \in Seq(PatternType)
<1>1. v # Malformed /\ \A i \in DOMAIN v : PatternVerdict(v[i]) = "ok"
  BY DEF MatchVerdict
<1>2. v \in Seq({v[i] : i \in DOMAIN v})
  BY <1>1, MatchAssumption
<1>3. Len(v) \in Nat /\ DOMAIN v = 1..Len(v)
  BY <1>2
<1>4. ASSUME NEW i \in DOMAIN v PROVE Pattern(v[i]) \in PatternType
  <2> DEFINE p == v[i]
             a == p.actions[1]
  <2>1. p.uri # Malformed /\ p.actions # <<>> /\ ActionVerdict(a) = "ok"
    BY <1>1 DEF PatternVerdict
  <2>2. a.kind # "serve" /\ a.value # Malformed
          => a.value.backends \in Seq(Nat \cup {Unweighted})
    BY <1>1, <2>1, MatchAssumption
  <2>3. ActionOf(a) \in Actions
    <3>1. CASE a.kind = "serve"
      BY <3>1, OtherActionsType DEF ActionOf
    <3>2. CASE a.kind # "serve"
      <4>1. a.value # Malformed
        BY <2>1, <3>2 DEF ActionVerdict, ForwardVerdict
      <4> HIDE DEF a
      <4> QED
        BY <2>2, <3>2, <4>1, ForwardActionType DEF ActionOf
    <3> QED
      BY <3>1, <3>2
  <2>4. (IF p.uri = Absent THEN DefaultUri ELSE p.uri) \in PatternUris
    <3>1. CASE p.uri = Absent
      BY <3>1 DEF PatternUris
    <3>2. CASE p.uri # Absent
      <4>1. p.uri \in {v[j].uri : j \in DOMAIN v}
        OBVIOUS
      <4>2. v \in MatchValues \ {Malformed}
        BY <1>1
      <4> HIDE DEF p
      <4>3. p.uri \in UNION {{w[j].uri : j \in DOMAIN w} : w \in MatchValues \ {Malformed}}
        BY ONLY <4>1, <4>2
      <4>4. p.uri \in (UNION {{w[j].uri : j \in DOMAIN w} : w \in MatchValues \ {Malformed}})
                      \ {Absent, Malformed}
        BY ONLY <2>1, <3>2, <4>3
      <4>5. p.uri \in PatternUris
        BY ONLY <4>4 DEF PatternUris
      <4> QED
        BY <3>2, <4>5
    <3> HIDE DEF p
    <3> QED
      BY <3>1, <3>2
  <2>5. Pattern(p) = [uri |-> IF p.uri = Absent THEN DefaultUri ELSE p.uri,
                      action |-> ActionOf(a)]
    BY DEF Pattern
  <2> HIDE DEF p, a
  <2>6. Pattern(p) \in PatternType
    BY <2>3, <2>4, <2>5 DEF PatternType
  <2> QED
    BY <2>6 DEF p
<1> QED
  BY <1>3, <1>4 DEF Patterns

LEMMA VisitorTypeInit == Init => TypeOK
<1> SUFFICES ASSUME Init PROVE TypeOK
  OBVIOUS
<1>1. Len(doc) = 0 /\ Len(doc) <= MaxKeys
  BY MaxKeysAssumption DEF Init
<1>2. patterns \in Seq(PatternType)
  BY DEF Init
<1>3. simplePattern \in [uri : {DefaultUri}, action : Actions]
  BY OtherActionsType DEF Init, NoPattern
<1> QED
  BY <1>1, <1>2, <1>3 DEF Init, TypeOK, PatternType, GivenUris, DefaultConnections

LEMMA VisitorTypeStep == doc \in Seq(Entries) /\ TypeOK /\ [Next]_vars => TypeOK'
<1> SUFFICES ASSUME doc \in Seq(Entries), TypeOK, [Next]_vars PROVE TypeOK'
  OBVIOUS
<1> DEFINE Typed == /\ listen' \in Nat
                    /\ patterns' \in Seq(PatternType)
                    /\ simplePattern' \in [uri : {DefaultUri}, action : Actions]
                    /\ name' \in {Absent} \cup (NameValues \ {Malformed})
                    /\ maxConnections' \in Nat
                    /\ uri' \in GivenUris
           Verdicts == {"reading", "accepted", "panicked"} \cup FieldErrors \cup EndErrors
<1>1. ASSUME NEW k, NEW v, NextKey(k, v) PROVE Len(doc') <= MaxKeys
  BY <1>1, MaxKeysAssumption DEF NextKey
<1>2. ASSUME Typed, verdict' \in Verdicts, Len(doc') <= MaxKeys PROVE TypeOK'
  BY <1>2 DEF TypeOK, PatternType
<1>3. UNCHANGED locals => Typed
  BY DEF TypeOK, PatternType, locals
<1>4. verdict \in Verdicts /\ {"ok"} \cap Verdicts = {}
  BY DEF TypeOK, FieldErrors, EndErrors
<1>5. /\ \A v : ValueVerdict(v) # "ok" => ValueVerdict(v) \in Verdicts
      /\ \A v : ForwardVerdict(v) # "ok" => ForwardVerdict(v) \in Verdicts
      /\ \A v : MatchVerdict(v) # "ok" => MatchVerdict(v) \in Verdicts
      /\ FieldErrors \subseteq Verdicts
  BY VerdictsAreErrors DEF FieldErrors
<1>6. \A v : ValueVerdict(v) = "ok" => v # Malformed
  BY DEF ValueVerdict
<1>7. listen \in Nat /\ maxConnections \in Nat /\ uri \in GivenUris
      /\ patterns \in Seq(PatternType)
      /\ simplePattern \in [uri : {DefaultUri}, action : Actions]
      /\ name \in {Absent} \cup (NameValues \ {Malformed})
  BY DEF TypeOK, PatternType
<1>8. "duplicate field" \in Verdicts /\ "mixed simple and match" \in Verdicts
      /\ "mixed actions" \in Verdicts /\ "unknown field" \in Verdicts
  BY DEF FieldErrors
<1>9. ASSUME NEW v \in ListenValues, VisitListen(v) PROVE TypeOK'
  <2>1. v # Malformed => v \in Nat
    BY ValuesAssumption
  <2>2. Typed /\ verdict' \in Verdicts
    <3> HIDE DEF Verdicts
    <3> QED
      BY <1>4, <1>5, <1>6, <1>7, <1>8, <1>9, <2>1 DEF VisitListen, Take, Fail, locals
  <2> HIDE DEF Verdicts, Typed
  <2> QED
    BY <1>1, <1>2, <1>9, <2>2 DEF VisitListen
<1>10. ASSUME NEW v \in MatchValues, VisitMatch(v) PROVE TypeOK'
  <2>1. MatchVerdict(v) = "ok" => Patterns(v) \in Seq(PatternType)
    BY PatternsType
  <2>2. Typed /\ verdict' \in Verdicts
    <3> HIDE DEF Verdicts
    <3> QED
      BY <1>4, <1>5, <1>7, <1>8, <1>10, <2>1 DEF VisitMatch, Take, Fail, locals
  <2> HIDE DEF Verdicts, Typed
  <2> QED
    BY <1>1, <1>2, <1>10, <2>2 DEF VisitMatch
<1>11. ASSUME NEW k, NEW r, NEW action, VisitAction(k, r, action),
              r # "ok" => r \in Verdicts, r = "ok" => action \in Actions
       PROVE  Typed /\ verdict' \in Verdicts
  <2>1. r = "ok" => [uri |-> DefaultUri, action |-> action] \in [uri : {DefaultUri}, action : Actions]
    BY <1>11
  <2> HIDE DEF Verdicts
  <2> QED
    BY <1>4, <1>7, <1>8, <1>11, <2>1 DEF VisitAction, Take, Fail, locals
<1>12. ASSUME NEW v \in ForwardValues, VisitForward(v) PROVE TypeOK'
  <2>1. ForwardVerdict(v) = "ok" => ForwardAction(v) \in Actions
    <3>1. ForwardVerdict(v) = "ok" => v # Malformed
      BY DEF ForwardVerdict
    <3> QED
      BY <3>1, ValuesAssumption, ForwardActionType
  <2> HIDE DEF Verdicts, Typed
  <2> QED
    BY <1>1, <1>2, <1>5, <1>11, <1>12, <2>1 DEF VisitForward
<1>13. ASSUME NEW v \in ServeValues, VisitServe(v) PROVE TypeOK'
  <2> HIDE DEF Verdicts, Typed
  <2> QED
    BY <1>1, <1>2, <1>5, <1>11, <1>13, OtherActionsType DEF VisitServe
<1>14. ASSUME NEW v \in UriValues, VisitUri(v) PROVE TypeOK'
  <2>1. v # Malformed => v \in GivenUris
    BY DEF GivenUris
  <2>2. Typed /\ verdict' \in Verdicts
    <3> HIDE DEF Verdicts
    <3> QED
      BY <1>4, <1>5, <1>6, <1>7, <1>8, <1>14, <2>1 DEF VisitUri, Take, Fail, locals
  <2> HIDE DEF Verdicts, Typed
  <2> QED
    BY <1>1, <1>2, <1>14, <2>2 DEF VisitUri
<1>15. ASSUME NEW v \in NameValues, VisitName(v) PROVE TypeOK'
  <2>1. Typed /\ verdict' \in Verdicts
    <3> HIDE DEF Verdicts
    <3> QED
      BY <1>4, <1>5, <1>6, <1>7, <1>8, <1>15 DEF VisitName, Take, Fail, locals
  <2> HIDE DEF Verdicts, Typed
  <2> QED
    BY <1>1, <1>2, <1>15, <2>1 DEF VisitName
<1>16. ASSUME NEW v \in ConnectionsValues, VisitConnections(v) PROVE TypeOK'
  <2>1. v # Malformed => v \in Nat
    BY ValuesAssumption
  <2>2. Typed /\ verdict' \in Verdicts
    <3> HIDE DEF Verdicts
    <3> QED
      BY <1>4, <1>5, <1>6, <1>7, <1>8, <1>16, <2>1 DEF VisitConnections, Take, Fail, locals
  <2> HIDE DEF Verdicts, Typed
  <2> QED
    BY <1>1, <1>2, <1>16, <2>2 DEF VisitConnections
<1>17. ASSUME VisitUnknown PROVE TypeOK'
  <2> HIDE DEF Verdicts, Typed
  <2> QED
    BY <1>1, <1>2, <1>3, <1>8, <1>17 DEF VisitUnknown, Fail
<1>18. ASSUME Finish PROVE TypeOK'
  <2>1. AllPatterns \in Seq(PatternType)
    <3>1. [simplePattern EXCEPT !.uri = uri] \in PatternType
      BY <1>7 DEF PatternType
    <3> QED
      BY <1>7, <3>1 DEF AllPatterns
  <2>2. verdict' \in Verdicts
    BY <1>18 DEF Finish, EndErrors
  <2>3. Len(doc') <= MaxKeys /\ Typed
    BY <1>7, <1>18, <2>1 DEF Finish, TypeOK
  <2> HIDE DEF Verdicts, Typed
  <2> QED
    BY <1>2, <2>2, <2>3
<1>19. ASSUME UNCHANGED vars PROVE TypeOK'
  BY <1>19 DEF vars, locals, TypeOK
<1> QED
  BY <1>9, <1>10, <1>12, <1>13, <1>14, <1>15, <1>16, <1>17, <1>18, <1>19
  DEF Next, Terminated

(* The locals keep their types through documents of any length.            *)
THEOREM VisitorTypeCorrect == Spec => []TypeOK
<1>1. Init => MixInv /\ TypeOK
  BY MixInit, VisitorTypeInit
<1>2. MixInv /\ TypeOK /\ [Next]_vars => (MixInv /\ TypeOK)'
  BY MixNext, VisitorTypeStep DEF MixInv
<1> QED
  BY <1>1, <1>2, PTL DEF Spec

-----------------------------------------------------------------------------
\* Visiting a key leaves the earlier keys of the document as they are.
LEMMA EarlierStay ==
  ASSUME NEW k \in Keys, NEW v \in Values, doc \in Seq(Entries), NextKey(k, v)
  PROVE  /\ \A i \in DOMAIN doc : i \in DOMAIN doc' /\ doc'[i] = doc[i]
         /\ Len(doc) + 1 \in DOMAIN doc'
         /\ doc'[Len(doc) + 1].key = k /\ doc'[Len(doc) + 1].value = v
         /\ Len(doc) \in Nat /\ DOMAIN doc = 1..Len(doc)
<1> DEFINE e == [key |-> k, value |-> v]
           n == Len(doc)
<1>1. e \in Entries
  BY DEF Entries
<1>2. doc' = Append(doc, e)
  BY DEF NextKey
<1>3. n \in Nat /\ DOMAIN doc = 1..n /\ DOMAIN doc' = 1..(n + 1)
  BY <1>1, <1>2
<1>4. \A i \in 1..n : i \in 1..(n + 1) /\ doc'[i] = doc[i]
  BY <1>1, <1>2, <1>3
<1>5. n + 1 \in 1..(n + 1) /\ doc'[n + 1] = e
  BY <1>1, <1>2, <1>3
<1>6. e.key = k /\ e.value = v
  OBVIOUS
<1> HIDE DEF e, n
<1> QED
  BY <1>3, <1>4, <1>5, <1>6 DEF n

\* The last of some positions.
LEMMA Greatest ==
  ASSUME NEW n \in Nat, NEW S \in SUBSET (1..n), S # {}
  PROVE  \E i \in S : \A j \in S : j <= i
<1> DEFINE T == {n - i : i \in S}
<1>1. T \in SUBSET Nat /\ T # {}
  <2>1. \A i \in S : n - i \in Nat
    OBVIOUS
  <2> QED
    BY <2>1
<1>2. PICK m \in T : \A l \in T : m <= l
  BY <1>1, LeastNumber
<1>3. PICK i \in S : m = n - i
  OBVIOUS
<1>4. ASSUME NEW j \in S PROVE j <= i
  <2>1. n - j \in T
    OBVIOUS
  <2>2. n - i <= n - j /\ i \in Int /\ j \in Int
    BY <1>2, <1>3, <2>1
  <2> QED
    BY <2>2
<1> QED
  BY <1>4

\* LastOf follows the document.
LEMMA LastGiven ==
  ASSUME NEW k \in Keys, NEW v \in Values, doc \in Seq(Entries), NextKey(k, v)
  PROVE  /\ \A d : LastOf(k, d)' = v
         /\ \A l \in Keys \ {k} : \A d : LastOf(l, d)' = LastOf(l, d)
<1> DEFINE n == Len(doc)
           LastIn(S) == CHOOSE i \in S : \A j \in S : j <= i
<1>1. /\ \A i \in DOMAIN doc : doc'[i] = doc[i]
      /\ doc'[n + 1].value = v /\ n \in Nat /\ DOMAIN doc = 1..n
  BY EarlierStay
<1>2. ASSUME NEW l \in Keys
      PROVE  /\ Given(l) \in SUBSET (1..n)
             /\ Given(l)' = Given(l) \cup (IF l = k THEN {n + 1} ELSE {})
  BY GivenByNextKey
<1>3. ASSUME NEW S \in SUBSET (1..(n + 1)), S # {}
      PROVE  LastIn(S) \in S /\ \A j \in S : j <= LastIn(S)
  <2>1. n + 1 \in Nat
    BY <1>1
  <2> HIDE DEF n
  <2>2. \E i \in S : \A j \in S : j <= i
    BY ONLY <2>1, <1>3, Greatest
  <2> QED
    BY <2>2, Zenon
<1>4. ASSUME NEW d PROVE LastOf(k, d)' = v
  <2>1. Given(k)' \in SUBSET (1..(n + 1)) /\ n + 1 \in Given(k)'
    BY <1>1, <1>2
  <2>2. LastIn(Given(k)') \in Given(k)' /\ n + 1 <= LastIn(Given(k)')
    BY <1>3, <2>1
  <2>3. LastIn(Given(k)') = n + 1
    <3> HIDE DEF LastIn
    <3> QED
      BY <1>1, <2>1, <2>2
  <2>4. LastOf(k, d)' = doc'[LastIn(Given(k)')].value
    BY <2>1 DEF LastOf
  <2> HIDE DEF LastIn
  <2> QED
    BY <1>1, <2>3, <2>4
<1>5. ASSUME NEW l \in Keys \ {k}, NEW d PROVE LastOf(l, d)' = LastOf(l, d)
  <2>1. Given(l)' = Given(l) /\ Given(l) \in SUBSET (1..n) /\ Given(l) \in SUBSET (1..(n + 1))
    <3>1. 1..n \subseteq 1..(n + 1)
      BY <1>1
    <3> HIDE DEF n
    <3>2. Given(l)' = Given(l) /\ Given(l) \in SUBSET (1..n)
      BY <1>2
    <3> QED
      BY <3>1, <3>2
  <2>2. CASE Given(l) = {}
    BY <2>1, <2>2 DEF LastOf
  <2>3. CASE Given(l) # {}
    <3>1. LastIn(Given(l)) \in 1..n
      BY <1>3, <2>1, <2>3
    <3>2. LastOf(l, d) = doc[LastIn(Given(l))].value
      BY <2>3 DEF LastOf
    <3>3. LastOf(l, d)' = doc'[LastIn(Given(l)')].value
      BY <2>1, <2>3 DEF LastOf
    <3> HIDE DEF LastIn
    <3> QED
      BY <1>1, <2>1, <3>1, <3>2, <3>3
  <2> QED
    BY <2>2, <2>3
<1> QED
  BY <1>4, <1>5

-----------------------------------------------------------------------------
\* While the document is being read, its locals are what was written so far.
LastsKnown ==
  /\ listen = LastOf("listen", 0)
  /\ maxConnections = LastOf("connections", DefaultConnections)
  /\ name = LastOf("name", Absent)
  /\ uri = LastOf("uri", DefaultUri)

SimpleOf(action) == [uri |-> DefaultUri, action |-> action]
SimpleKnown ==
  \/ simplePattern = NoPattern
  \/ patterns = <<>> /\ \E i \in Given("forward") :
                          simplePattern = SimpleOf(ForwardAction(doc[i].value))
  \/ patterns = <<>> /\ \E i \in Given("serve") : simplePattern = SimpleOf(ServeAction)
MatchKnown ==
  \/ patterns = <<>>
  \/ \E i \in MatchesGiven : patterns = Patterns(doc[i].value)

Written == LastsKnown /\ SimpleKnown /\ MatchKnown
WrittenInv == (verdict = "reading" => Written) /\ AcceptedAsWritten

\* Patterns that stay have been written where they were.
LEMMA WrittenStays ==
  ASSUME NEW k \in Keys, NEW v \in Values, doc \in Seq(Entries), NextKey(k, v)
  PROVE  /\ SimpleKnown /\ UNCHANGED <<patterns, simplePattern>> => SimpleKnown'
         /\ MatchKnown /\ UNCHANGED patterns => MatchKnown'
<1>1. \A i \in DOMAIN doc : i \in DOMAIN doc' /\ doc'[i] = doc[i]
  BY EarlierStay
<1>2. \A l \in Keys : \A i \in Given(l) : i \in Given(l)' /\ doc'[i] = doc[i]
  BY <1>1 DEF Given
<1>3. \A i \in MatchesGiven : i \in MatchesGiven' /\ doc'[i] = doc[i]
  BY <1>1, <1>2 DEF MatchesGiven, Keys, Given
<1>4. "forward" \in Keys /\ "serve" \in Keys
  BY DEF Keys
<1>5. ASSUME SimpleKnown, UNCHANGED <<patterns, simplePattern>> PROVE SimpleKnown'
  BY <1>2, <1>4, <1>5 DEF SimpleKnown
<1>6. ASSUME MatchKnown, UNCHANGED patterns PROVE MatchKnown'
  BY <1>3, <1>6 DEF MatchKnown
<1> QED
  BY <1>5, <1>6

LEMMA WrittenInit == Init => WrittenInv
<1> SUFFICES ASSUME Init PROVE WrittenInv
  OBVIOUS
<1>1. \A k : Given(k) = {}
  BY DEF Init, Given
<1>2. LastsKnown
  BY <1>1 DEF Init, LastsKnown, LastOf
<1> QED
  BY <1>2 DEF Init, WrittenInv, Written, SimpleKnown, MatchKnown, AcceptedAsWritten

LEMMA WrittenStep ==
  doc \in Seq(Entries) /\ TypeOK /\ WrittenInv /\ [Next]_vars => WrittenInv'
<1> SUFFICES ASSUME doc \in Seq(Entries), TypeOK, WrittenInv, [Next]_vars PROVE WrittenInv'
  OBVIOUS
<1>1. ASSUME verdict' \notin {"reading", "accepted"} PROVE WrittenInv'
  BY <1>1 DEF WrittenInv, AcceptedAsWritten
<1>2. ASSUME verdict' = "reading", Written' PROVE WrittenInv'
  BY <1>2 DEF WrittenInv, AcceptedAsWritten
<1>3. ASSUME NEW k, NEW v, NextKey(k, v) PROVE verdict = "reading" /\ Written
  BY <1>3 DEF NextKey, WrittenInv
<1>4. {"listen", "match", "forward", "serve", "uri", "name", "connections"} \subseteq Keys
  BY DEF Keys
<1>5. ASSUME NEW v \in ListenValues, VisitListen(v) PROVE WrittenInv'
  <2>1. NextKey("listen", v) /\ v \in Values
    BY <1>5 DEF VisitListen, Values
  <2>2. CASE verdict' # "reading"
    BY <1>1, <1>3, <1>5, <2>1, <2>2, VerdictsAreErrors DEF VisitListen, Take, Fail
  <2>3. CASE verdict' = "reading"
    <3>1. listen' = v /\ UNCHANGED <<patterns, simplePattern, name, maxConnections, uri>>
      BY <1>3, <1>5, <2>1, <2>3, VerdictsAreErrors DEF VisitListen, Take, Fail
    <3>2. LastsKnown'
      BY <1>3, <1>4, <2>1, <3>1, LastGiven DEF LastsKnown, Written
    <3> QED
      BY <1>2, <1>3, <1>4, <2>1, <2>3, <3>1, <3>2, WrittenStays DEF Written
  <2> QED
    BY <2>2, <2>3
<1>6. ASSUME NEW v \in MatchValues, VisitMatch(v) PROVE WrittenInv'
  <2>1. NextKey("match", v) /\ v \in Values
    BY <1>6 DEF VisitMatch, Values
  <2>2. CASE verdict' # "reading"
    BY <1>1, <1>3, <1>6, <2>1, <2>2, VerdictsAreErrors DEF VisitMatch, Take, Fail
  <2>3. CASE verdict' = "reading"
    <3>1. /\ patterns' = Patterns(v)
          /\ simplePattern' = NoPattern
          /\ UNCHANGED <<listen, name, maxConnections, uri>>
      BY <1>3, <1>6, <2>1, <2>3, VerdictsAreErrors DEF VisitMatch, Take, Fail
    <3>2. LastsKnown'
      BY <1>3, <1>4, <2>1, <3>1, LastGiven DEF LastsKnown, Written
    <3>3. MatchKnown'
      <4>1. CASE v = <<>>
        BY <3>1, <4>1 DEF Patterns, MatchKnown
      <4>2. CASE v # <<>>
        <5>1. Len(doc) + 1 \in MatchesGiven' /\ doc'[Len(doc) + 1].value = v
          BY <1>4, <2>1, <4>2, EarlierStay DEF MatchesGiven, Given
        <5> QED
          BY <3>1, <5>1 DEF MatchKnown
      <4> QED
        BY <4>1, <4>2
    <3> QED
      BY <1>2, <2>3, <3>1, <3>2, <3>3 DEF Written, SimpleKnown
  <2> QED
    BY <2>2, <2>3
<1>7. ASSUME NEW k \in {"forward", "serve"}, NEW v \in Values, NEW r, NEW action,
             NextKey(k, v), VisitAction(k, r, action),
             r \in {"ok", "invalid value", "panicked"},
             action = IF k = "forward" THEN ForwardAction(v) ELSE ServeAction
      PROVE  WrittenInv'
  <2>1. k \in Keys
    BY <1>4, <1>7
  <2>2. CASE verdict' # "reading"
    BY <1>1, <1>3, <1>7, <2>2 DEF VisitAction, Take, Fail
  <2>3. CASE verdict' = "reading"
    <3>1. /\ patterns = <<>> /\ patterns' = <<>>
          /\ simplePattern' = SimpleOf(action)
          /\ UNCHANGED <<listen, name, maxConnections, uri>>
      BY <1>3, <1>7, <2>3 DEF VisitAction, Take, Fail, SimpleOf
    <3>2. LastsKnown'
      <4>1. {"listen", "connections", "name", "uri"} \subseteq Keys \ {k}
        BY <1>4, <1>7
      <4>2. \A l \in Keys \ {k} : \A d : LastOf(l, d)' = LastOf(l, d)
        BY <1>7, <2>1, LastGiven
      <4> QED
        BY <1>3, <1>7, <3>1, <4>1, <4>2 DEF LastsKnown, Written
    <3>3. Len(doc) + 1 \in Given(k)' /\ doc'[Len(doc) + 1].value = v
      BY <1>7, <2>1, EarlierStay DEF Given
    <3>4. SimpleKnown'
      BY <1>7, <3>1, <3>3 DEF SimpleKnown
    <3> QED
      BY <1>2, <2>3, <3>1, <3>2, <3>4 DEF Written, MatchKnown
  <2> QED
    BY <2>2, <2>3
<1>8. ASSUME NEW v \in ForwardValues, VisitForward(v) PROVE WrittenInv'
  <2>1. v \in Values
    BY DEF Values
  <2> QED
    BY <1>7, <1>8, <2>1, VerdictsAreErrors DEF VisitForward
<1>9. ASSUME NEW v \in ServeValues, VisitServe(v) PROVE WrittenInv'
  <2>1. v \in Values
    BY DEF Values
  <2> QED
    BY <1>7, <1>9, <2>1, VerdictsAreErrors DEF VisitServe
<1>10. ASSUME NEW v \in UriValues, VisitUri(v) PROVE WrittenInv'
  <2>1. NextKey("uri", v) /\ v \in Values
    BY <1>10 DEF VisitUri, Values
  <2>2. CASE verdict' # "reading"
    BY <1>1, <1>3, <1>10, <2>1, <2>2, VerdictsAreErrors DEF VisitUri, Take, Fail
  <2>3. CASE verdict' = "reading"
    <3>1. uri' = v /\ UNCHANGED <<listen, patterns, simplePattern, name, maxConnections>>
      BY <1>3, <1>10, <2>1, <2>3, VerdictsAreErrors DEF VisitUri, Take, Fail
    <3>2. LastsKnown'
      BY <1>3, <1>4, <2>1, <3>1, LastGiven DEF LastsKnown, Written
    <3> QED
      BY <1>2, <1>3, <1>4, <2>1, <2>3, <3>1, <3>2, WrittenStays DEF Written
  <2> QED
    BY <2>2, <2>3
<1>11. ASSUME NEW v \in NameValues, VisitName(v) PROVE WrittenInv'
  <2>1. NextKey("name", v) /\ v \in Values
    BY <1>11 DEF VisitName, Values
  <2>2. CASE verdict' # "reading"
    BY <1>1, <1>3, <1>11, <2>1, <2>2, VerdictsAreErrors DEF VisitName, Take, Fail
  <2>3. CASE verdict' = "reading"
    <3>1. name' = v /\ UNCHANGED <<listen, patterns, simplePattern, maxConnections, uri>>
      BY <1>3, <1>11, <2>1, <2>3, VerdictsAreErrors DEF VisitName, Take, Fail
    <3>2. LastsKnown'
      BY <1>3, <1>4, <2>1, <3>1, LastGiven DEF LastsKnown, Written
    <3> QED
      BY <1>2, <1>3, <1>4, <2>1, <2>3, <3>1, <3>2, WrittenStays DEF Written
  <2> QED
    BY <2>2, <2>3
<1>12. ASSUME NEW v \in ConnectionsValues, VisitConnections(v) PROVE WrittenInv'
  <2>1. NextKey("connections", v) /\ v \in Values
    BY <1>12 DEF VisitConnections, Values
  <2>2. CASE verdict' # "reading"
    BY <1>1, <1>3, <1>12, <2>1, <2>2, VerdictsAreErrors DEF VisitConnections, Take, Fail
  <2>3. CASE verdict' = "reading"
    <3>1. maxConnections' = v /\ UNCHANGED <<listen, patterns, simplePattern, name, uri>>
      BY <1>3, <1>12, <2>1, <2>3, VerdictsAreErrors DEF VisitConnections, Take, Fail
    <3>2. LastsKnown'
      BY <1>3, <1>4, <2>1, <3>1, LastGiven DEF LastsKnown, Written
    <3> QED
      BY <1>2, <1>3, <1>4, <2>1, <2>3, <3>1, <3>2, WrittenStays DEF Written
  <2> QED
    BY <2>2, <2>3
<1>13. ASSUME VisitUnknown PROVE WrittenInv'
  BY <1>1, <1>13 DEF VisitUnknown, Fail
<1>14. ASSUME Finish PROVE WrittenInv'
  <2>1. /\ verdict = "reading" /\ Written
        /\ patterns' = AllPatterns
        /\ UNCHANGED <<doc, listen, simplePattern, name, maxConnections, uri>>
    BY <1>14 DEF Finish, WrittenInv
  <2>2. /\ \A k : Given(k)' = Given(k)
        /\ MatchesGiven' = MatchesGiven
        /\ \A k, d : LastOf(k, d)' = LastOf(k, d)
    BY <2>1 DEF Given, MatchesGiven, LastOf
  <2>3. CASE verdict' # "accepted"
    BY <1>1, <1>14, <2>3 DEF Finish
  <2>4. CASE verdict' = "accepted"
    <3>1. AllPatterns # <<>>
      BY <1>14, <2>4 DEF Finish
    <3>2. /\ listen' = LastOf("listen", 0)'
          /\ maxConnections' = LastOf("connections", DefaultConnections)'
          /\ name' = LastOf("name", Absent)'
      BY <2>1, <2>2 DEF Written, LastsKnown
    <3>3. CASE simplePattern = NoPattern
      <4>1. patterns' = patterns /\ patterns # <<>>
        BY <2>1, <3>1, <3>3 DEF AllPatterns
      <4>2. \E i \in MatchesGiven' : patterns' = Patterns(doc'[i].value)
        BY <2>1, <2>2, <4>1 DEF Written, MatchKnown
      <4> QED
        BY <2>4, <3>2, <4>2 DEF WrittenInv, AcceptedAsWritten
    <3>4. CASE simplePattern # NoPattern
      <4>1. patterns' = <<[simplePattern EXCEPT !.uri = uri]>>
        <5>1. patterns = <<>>
          BY <2>1, <3>4 DEF Written, SimpleKnown
        <5>2. patterns' = Append(<<>>, [simplePattern EXCEPT !.uri = uri])
          BY <2>1, <3>4, <5>1 DEF AllPatterns
        <5>3. \A x : Append(<<>>, x) = <<x>>
          OBVIOUS
        <5> QED
          BY <5>2, <5>3, Zenon
      <4>2. ASSUME NEW action, simplePattern = SimpleOf(action)
            PROVE  patterns' = <<[uri |-> LastOf("uri", DefaultUri)', action |-> action]>>
        <5>1. [simplePattern EXCEPT !.uri = uri] = [uri |-> uri, action |-> action]
          BY <4>2 DEF SimpleOf
        <5> QED
          BY <2>1, <2>2, <4>1, <5>1 DEF Written, LastsKnown
      <4>3. CASE \E i \in Given("forward") :
                   simplePattern = SimpleOf(ForwardAction(doc[i].value))
        <5>1. \E i \in Given("forward")' :
                patterns' = <<[uri |-> LastOf("uri", DefaultUri)',
                               action |-> ForwardAction(doc'[i].value)]>>
          BY <2>1, <2>2, <4>2, <4>3
        <5> QED
          BY <2>4, <3>2, <5>1 DEF WrittenInv, AcceptedAsWritten
      <4>4. CASE \E i \in Given("serve") : simplePattern = SimpleOf(ServeAction)
        <5>1. \E i \in Given("serve")' :
                patterns' = <<[uri |-> LastOf("uri", DefaultUri)', action |-> ServeAction]>>
          BY <2>2, <4>2, <4>4
        <5> QED
          BY <2>4, <3>2, <5>1 DEF WrittenInv, AcceptedAsWritten
      <4> QED
        BY <2>1, <3>4, <4>3, <4>4 DEF Written, SimpleKnown
    <3> QED
      BY <3>3, <3>4
  <2> QED
    BY <2>3, <2>4
<1>15. ASSUME UNCHANGED vars PROVE WrittenInv'
  <2>1. UNCHANGED <<doc, listen, patterns, simplePattern, name, maxConnections, uri, verdict>>
    BY <1>15 DEF vars, locals
  <2>2. /\ \A k : Given(k)' = Given(k)
        /\ MatchesGiven' = MatchesGiven
        /\ \A k, d : LastOf(k, d)' = LastOf(k, d)
    BY <2>1 DEF Given, MatchesGiven, LastOf
  <2>3. Written' <=> Written
    BY <2>1, <2>2 DEF Written, LastsKnown, SimpleKnown, MatchKnown
  <2>4. AcceptedAsWritten' <=> AcceptedAsWritten
    BY <2>1, <2>2 DEF AcceptedAsWritten
  <2> QED
    BY <2>1, <2>3, <2>4 DEF WrittenInv
<1> QED
  BY <1>5, <1>6, <1>8, <1>9, <1>10, <1>11, <1>12, <1>13, <1>14, <1>15
  DEF Next, Terminated

(* What is accepted is what was written, for documents of any length and   *)
(* keys in any order.                                                      *)
THEOREM AcceptedIsAlwaysAsWritten == Spec => []AcceptedAsWritten
<1>1. Init => MixInv /\ TypeOK /\ WrittenInv
  BY MixInit, VisitorTypeInit, WrittenInit
<1>2. MixInv /\ TypeOK /\ WrittenInv /\ [Next]_vars => (MixInv /\ TypeOK /\ WrittenInv)'
  BY MixNext, VisitorTypeStep, WrittenStep DEF MixInv
<1>3. WrittenInv => AcceptedAsWritten
  BY DEF WrittenInv
<1> QED
  BY <1>1, <1>2, <1>3, PTL DEF Spec

-----------------------------------------------------------------------------
\* What makes the keys of a document inconsistent when one more is visited.
Objection(k, v) ==
  \/ Given(k) # {} \/ k = "unknown" \/ v = Malformed
  \/ k = "forward" /\ v.form \notin ForwardForms
  \/ k = "match" /\ MatchVerdict(v) = "invalid value"
  \/ k \in {"forward", "serve", "match"} /\ ActionsGiven # {}
  \/ k \in {"forward", "serve", "uri"} /\ Given("match") # {}

LEMMA ObjectionHolds ==
  ASSUME NEW k \in Keys, NEW v \in Values, doc \in Seq(Entries), NextKey(k, v),
         Objection(k, v)
  PROVE  ~Consistent'
<1> SUFFICES ASSUME Consistent' PROVE FALSE
  OBVIOUS
<1>1. PICK n : n = Len(doc) + 1
  OBVIOUS
<1>2. /\ \A i \in DOMAIN doc : i # n /\ i \in DOMAIN doc' /\ doc'[i] = doc[i]
      /\ n \in DOMAIN doc' /\ doc'[n].key = k /\ doc'[n].value = v
  BY <1>1, EarlierStay
<1>3. \A l : \A i \in Given(l) : i # n /\ i \in Given(l)' /\ i \in DOMAIN doc' /\ doc'[i].key = l
  BY <1>2 DEF Given
<1>4. n \in Given(k)'
  BY <1>2 DEF Given
<1>5. k \in {"forward", "serve"} => n \in ActionsGiven'
  BY <1>4 DEF ActionsGiven
<1>6. \A i \in ActionsGiven : i # n /\ i \in ActionsGiven'
  BY <1>3 DEF ActionsGiven
<1>7. /\ Given("unknown")' = {}
      /\ \A i, j \in DOMAIN doc' : doc'[i].key = doc'[j].key => i = j
      /\ \A i, j \in ActionsGiven' : i = j
      /\ Given("match")' = {} \/ ActionsGiven' \cup Given("uri")' = {}
      /\ \A i \in DOMAIN doc' :
           /\ doc'[i].value # Malformed
           /\ doc'[i].key = "forward" => doc'[i].value.form \in ForwardForms
           /\ doc'[i].key = "match" => MatchVerdict(doc'[i].value) # "invalid value"
  BY DEF Consistent
<1>8. Given(k) = {}
  BY <1>2, <1>3, <1>7
<1>9. k # "unknown" /\ v # Malformed
  BY <1>2, <1>4, <1>7
<1>10. /\ k = "forward" => v.form \in ForwardForms
       /\ k = "match" => MatchVerdict(v) # "invalid value"
  BY <1>2, <1>7
<1>11. k \in {"forward", "serve", "match"} => ActionsGiven = {}
  BY <1>4, <1>5, <1>6, <1>7
<1>12. k \in {"forward", "serve", "uri"} => Given("match") = {}
  BY <1>3, <1>4, <1>5, <1>7
<1> QED
  BY <1>8, <1>9, <1>10, <1>11, <1>12 DEF Objection

\* What the locals say when they object to a key.
LEMMA LocalsObject ==
  ASSUME doc \in Seq(Entries), Written
  PROVE  /\ listen # 0 => Given("listen") # {}
         /\ name # Absent => Given("name") # {}
         /\ patterns # <<>> => Given("match") # {}
         /\ simplePattern # NoPattern => ActionsGiven # {}
  BY DEF Written, LastsKnown, SimpleKnown, MatchKnown, MatchesGiven, ActionsGiven, LastOf

(* RejectedForAReason, and that no address has been overlooked.            *)
ReasonInv ==
  /\ verdict = "reading" /\ listen = 0 =>
       \A i \in Given("listen") : doc[i].value = 0
  /\ RejectedForAReason

LEMMA ReasonInit == Init => ReasonInv
  BY DEF Init, ReasonInv, RejectedForAReason, FieldErrors, EndErrors, Given

LEMMA ReasonStep ==
  MixInv /\ ScheduleInv /\ WrittenInv /\ ReasonInv /\ [Next]_vars => ReasonInv'
<1> SUFFICES ASSUME MixInv, ScheduleInv, WrittenInv, ReasonInv, [Next]_vars
             PROVE  ReasonInv'
  OBVIOUS
<1>0. doc \in Seq(Entries)
  BY DEF MixInv
<1> DEFINE Zero == listen = 0 => \A i \in Given("listen") : doc[i].value = 0
<1>1. ASSUME NEW k, NEW v, NextKey(k, v) PROVE verdict = "reading" /\ Written /\ Zero
  BY <1>1 DEF NextKey, WrittenInv, ReasonInv
<1>2. ASSUME NEW k \in Keys, NEW v \in Values, NextKey(k, v), verdict' # "reading",
             verdict' \in FieldErrors => Objection(k, v), verdict' \notin EndErrors
      PROVE  ReasonInv'
  BY <1>0, <1>2, ObjectionHolds DEF ReasonInv, RejectedForAReason
<1>3. ASSUME NEW k \in Keys \ {"listen"}, NEW v \in Values, NextKey(k, v),
             verdict' = "reading", listen' = listen
      PROVE  ReasonInv'
  <2>1. "listen" \in Keys /\ k \in Keys /\ k # "listen"
    BY DEF Keys
  <2>2. Given("listen")' = Given("listen")
    <3>1. Given("listen")' = Given("listen") \cup
                              (IF "listen" = k THEN {Len(doc) + 1} ELSE {})
      BY <1>0, <1>3, <2>1, GivenByNextKey
    <3> QED
      BY <2>1, <3>1
  <2>3. \A i \in Given("listen") : doc'[i] = doc[i]
    BY <1>0, <1>3, EarlierStay DEF Given
  <2>4. Zero'
    BY <1>1, <1>3, <2>2, <2>3
  <2> QED
    BY <1>3, <2>4 DEF ReasonInv, RejectedForAReason, FieldErrors, EndErrors
<1>4. {"listen", "match", "forward", "serve", "uri", "name", "connections", "unknown"} \subseteq Keys
  BY DEF Keys
<1>5. "panicked" \notin FieldErrors
      /\ EndErrors \cap ({"panicked"} \cup FieldErrors) = {}
  BY DEF FieldErrors, EndErrors
<1>6. /\ \A v : ValueVerdict(v) = "invalid value" => v = Malformed
      /\ \A v : ForwardVerdict(v) = "invalid value" => v = Malformed \/ v.form \notin ForwardForms
  <2>1. \A v : ValueVerdict(v) = "invalid value" => v = Malformed
    BY DEF ValueVerdict
  <2>2. ASSUME NEW v, v # Malformed, v.form \in ForwardForms
        PROVE  ForwardVerdict(v) # "invalid value"
    BY <2>2 DEF ForwardVerdict
  <2> QED
    BY <2>1, <2>2
<1>7. ASSUME NEW v \in ListenValues, VisitListen(v) PROVE ReasonInv'
  <2>1. NextKey("listen", v) /\ v \in Values
    BY <1>7 DEF VisitListen, Values
  <2>2. CASE verdict' # "reading"
    <3>1. /\ verdict' \in FieldErrors => Objection("listen", v)
          /\ verdict' \notin EndErrors
      BY <1>0, <1>1, <1>5, <1>6, <1>7, <2>1, <2>2, LocalsObject, VerdictsAreErrors
      DEF VisitListen, Take, Fail, Objection, EndErrors
    <3> QED
      BY <1>2, <1>4, <2>1, <2>2, <3>1
  <2>3. CASE verdict' = "reading"
    <3>1. listen = 0 /\ listen' = v
      BY <1>1, <1>7, <2>1, <2>3, VerdictsAreErrors DEF VisitListen, Take, Fail
    <3>2. Zero'
      <4>1. Given("listen")' = Given("listen") \cup {Len(doc) + 1}
        BY <1>0, <1>4, <2>1, GivenByNextKey
      <4>2. \A i \in Given("listen") : doc'[i] = doc[i] /\ doc[i].value = 0
        BY <1>0, <1>1, <1>4, <2>1, <3>1, EarlierStay DEF Given
      <4>3. doc'[Len(doc) + 1].value = v
        BY <1>0, <1>4, <2>1, EarlierStay
      <4> QED
        BY <3>1, <4>1, <4>2, <4>3
    <3> QED
      BY <2>3, <3>2 DEF ReasonInv, RejectedForAReason, FieldErrors, EndErrors
  <2> QED
    BY <2>2, <2>3
<1>8. ASSUME NEW v \in MatchValues, VisitMatch(v) PROVE ReasonInv'
  <2>1. NextKey("match", v) /\ v \in Values
    BY <1>8 DEF VisitMatch, Values
  <2>2. CASE verdict' # "reading"
    <3>1. /\ verdict' \in FieldErrors => Objection("match", v)
          /\ verdict' \notin EndErrors
      BY <1>0, <1>1, <1>5, <1>8, <2>1, <2>2, LocalsObject, VerdictsAreErrors
      DEF VisitMatch, Take, Fail, Objection, EndErrors
    <3> QED
      BY <1>2, <1>4, <2>1, <2>2, <3>1
  <2>3. CASE verdict' = "reading"
    <3>1. listen' = listen
      BY <1>1, <1>8, <2>1, <2>3, VerdictsAreErrors DEF VisitMatch, Take, Fail
    <3> QED
      BY <1>3, <1>4, <2>1, <2>3, <3>1
  <2> QED
    BY <2>2, <2>3
<1>9. ASSUME NEW k \in {"forward", "serve"}, NEW v \in Values, NEW r, NEW action,
             NextKey(k, v), VisitAction(k, r, action),
             r \in {"ok", "invalid value", "panicked"},
             r = "invalid value" => Objection(k, v)
      PROVE  ReasonInv'
  <2>1. k \in Keys \ {"listen"}
    BY <1>4, <1>9
  <2>2. CASE verdict' # "reading"
    <3>1. CASE patterns # <<>>
      <4>1. Objection(k, v) /\ verdict' \in FieldErrors
        BY <1>0, <1>1, <1>9, <2>2, <3>1, LocalsObject
        DEF VisitAction, Take, Fail, Objection, FieldErrors
      <4> QED
        BY <1>2, <1>5, <1>9, <2>1, <2>2, <4>1
    <3>2. CASE patterns = <<>> /\ simplePattern # NoPattern
      <4>1. Objection(k, v)
        BY <1>0, <1>1, <1>9, <3>2, LocalsObject DEF Objection
      <4>2. verdict' \in FieldErrors
        BY <1>9, <2>2, <3>2 DEF VisitAction, Take, Fail, FieldErrors
      <4> QED
        BY <1>2, <1>5, <1>9, <2>1, <2>2, <4>1, <4>2
    <3>3. CASE patterns = <<>> /\ simplePattern = NoPattern
      <4>1. verdict' = r /\ r # "ok"
        BY <1>1, <1>9, <2>2, <3>3 DEF VisitAction, Take, Fail, NoPattern, NoAction
      <4> QED
        BY <1>2, <1>5, <1>9, <2>1, <2>2, <4>1 DEF EndErrors
    <3> QED
      BY <3>1, <3>2, <3>3
  <2>3. CASE verdict' = "reading"
    <3>1. listen' = listen
      BY <1>1, <1>9, <2>3 DEF VisitAction, Take, Fail
    <3> QED
      BY <1>3, <1>9, <2>1, <2>3, <3>1
  <2> QED
    BY <2>2, <2>3
<1>10. ASSUME NEW v \in ForwardValues, VisitForward(v) PROVE ReasonInv'
  <2>1. v \in Values
    BY DEF Values
  <2>2. ForwardVerdict(v) = "invalid value" => Objection("forward", v)
    BY <1>6 DEF Objection
  <2> QED
    BY <1>9, <1>10, <2>1, <2>2, VerdictsAreErrors DEF VisitForward
<1>11. ASSUME NEW v \in ServeValues, VisitServe(v) PROVE ReasonInv'
  <2>1. v \in Values
    BY DEF Values
  <2>2. ValueVerdict(v) = "invalid value" => Objection("serve", v)
    BY <1>6 DEF Objection
  <2> QED
    BY <1>9, <1>11, <2>1, <2>2, VerdictsAreErrors DEF VisitServe
<1>12. ASSUME NEW v \in UriValues, VisitUri(v) PROVE ReasonInv'
  <2>1. NextKey("uri", v) /\ v \in Values
    BY <1>12 DEF VisitUri, Values
  <2>2. CASE verdict' # "reading"
    <3>1. /\ verdict' \in FieldErrors => Objection("uri", v)
          /\ verdict' \notin EndErrors
      BY <1>0, <1>1, <1>5, <1>6, <1>12, <2>1, <2>2, LocalsObject, VerdictsAreErrors
      DEF VisitUri, Take, Fail, Objection, EndErrors
    <3> QED
      BY <1>2, <1>4, <2>1, <2>2, <3>1
  <2>3. CASE verdict' = "reading"
    <3>1. listen' = listen
      BY <1>1, <1>12, <2>1, <2>3, VerdictsAreErrors DEF VisitUri, Take, Fail
    <3> QED
      BY <1>3, <1>4, <2>1, <2>3, <3>1
  <2> QED
    BY <2>2, <2>3
<1>13. ASSUME NEW v \in NameValues, VisitName(v) PROVE ReasonInv'
  <2>1. NextKey("name", v) /\ v \in Values
    BY <1>13 DEF VisitName, Values
  <2>2. CASE verdict' # "reading"
    <3>1. /\ verdict' \in FieldErrors => Objection("name", v)
          /\ verdict' \notin EndErrors
      BY <1>0, <1>1, <1>5, <1>6, <1>13, <2>1, <2>2, LocalsObject, VerdictsAreErrors
      DEF VisitName, Take, Fail, Objection, EndErrors
    <3> QED
      BY <1>2, <1>4, <2>1, <2>2, <3>1
  <2>3. CASE verdict' = "reading"
    <3>1. listen' = listen
      BY <1>1, <1>13, <2>1, <2>3, VerdictsAreErrors DEF VisitName, Take, Fail
    <3> QED
      BY <1>3, <1>4, <2>1, <2>3, <3>1
  <2> QED
    BY <2>2, <2>3
<1>14. ASSUME NEW v \in ConnectionsValues, VisitConnections(v) PROVE ReasonInv'
  <2>1. NextKey("connections", v) /\ v \in Values
    BY <1>14 DEF VisitConnections, Values
  <2>2. CASE verdict' # "reading"
    <3>1. /\ verdict' \in FieldErrors => Objection("connections", v)
          /\ verdict' \notin EndErrors
      BY <1>0, <1>1, <1>5, <1>6, <1>14, <2>1, <2>2, LocalsObject, VerdictsAreErrors
      DEF VisitConnections, Take, Fail, Objection, EndErrors
    <3> QED
      BY <1>2, <1>4, <2>1, <2>2, <3>1
  <2>3. CASE verdict' = "reading"
    <3>1. listen' = listen
      BY <1>1, <1>14, <2>1, <2>3, VerdictsAreErrors DEF VisitConnections, Take, Fail
    <3> QED
      BY <1>3, <1>4, <2>1, <2>3, <3>1
  <2> QED
    BY <2>2, <2>3
<1>15. ASSUME VisitUnknown PROVE ReasonInv'
  <2>1. NextKey("unknown", Absent) /\ Absent \in Values /\ verdict' = "unknown field"
    BY <1>15 DEF VisitUnknown, Values, Fail
  <2>2. Objection("unknown", Absent)
    BY DEF Objection
  <2> QED
    BY <1>2, <1>4, <2>1, <2>2 DEF EndErrors
<1>16. ASSUME Finish PROVE ReasonInv'
  <2>1. /\ verdict = "reading" /\ Zero /\ UNCHANGED doc
        /\ verdict' \in {"accepted"} \cup EndErrors
    BY <1>16 DEF Finish, EndErrors, ReasonInv
  <2>2. Complete' <=> Complete
    BY <2>1 DEF Complete, Given, ActionsGiven, MatchesGiven
  <2>3. CASE verdict' = "missing config"
    <3>1. AllPatterns = <<>>
      BY <1>16, <2>3 DEF Finish
    <3>2. simplePattern = NoPattern /\ patterns = <<>>
      <4>1. CASE simplePattern = NoPattern
        BY <3>1, <4>1 DEF AllPatterns
      <4>2. CASE simplePattern # NoPattern
        <5>1. patterns = <<>>
          BY <2>1, <4>2 DEF ScheduleInv
        <5>2. AllPatterns = Append(<<>>, [simplePattern EXCEPT !.uri = uri])
          BY <4>2, <5>1 DEF AllPatterns
        <5>3. \A x : Append(<<>>, x) # <<>>
          OBVIOUS
        <5> QED
          BY <3>1, <5>2, <5>3
      <4> QED
        BY <4>1, <4>2
    <3>3. ActionsGiven = {} /\ MatchesGiven = {}
      BY <2>1, <3>2 DEF MixInv, LocalsKnow
    <3>4. ~Complete
      BY <3>3 DEF Complete
    <3> QED
      BY <2>2, <2>3, <3>4 DEF ReasonInv, RejectedForAReason, FieldErrors
  <2>4. CASE verdict' = "missing listen"
    <3>1. listen = 0
      BY <1>16, <2>4 DEF Finish
    <3>2. ~Complete
      BY <2>1, <3>1 DEF Complete
    <3> QED
      BY <2>2, <2>4, <3>2 DEF ReasonInv, RejectedForAReason, FieldErrors
  <2>5. CASE verdict' = "accepted"
    BY <2>5 DEF ReasonInv, RejectedForAReason, FieldErrors, EndErrors
  <2> QED
    BY <2>1, <2>3, <2>4, <2>5 DEF EndErrors
<1>17. ASSUME UNCHANGED vars PROVE ReasonInv'
  <2>1. UNCHANGED <<doc, listen, verdict>>
    BY <1>17 DEF vars, locals
  <2>2. /\ \A k : Given(k)' = Given(k)
        /\ ActionsGiven' = ActionsGiven /\ MatchesGiven' = MatchesGiven
    BY <2>1 DEF Given, ActionsGiven, MatchesGiven
  <2>3. (Consistent' <=> Consistent) /\ (Complete' <=> Complete)
    BY <2>1, <2>2 DEF Consistent, Complete
  <2> QED
    BY <2>1, <2>2, <2>3 DEF ReasonInv, RejectedForAReason
<1> QED
  BY <1>7, <1>8, <1>10, <1>11, <1>12, <1>13, <1>14, <1>15, <1>16, <1>17
  DEF Next, Terminated

(* No document is turned down whose keys fit together and are complete.    *)
THEOREM RejectionsAlwaysHaveAReason == Spec => []RejectedForAReason
<1> DEFINE Inv == MixInv /\ TypeOK /\ ScheduleInv /\ WrittenInv /\ ReasonInv
<1>1. Init => Inv
  BY MixInit, VisitorTypeInit, ScheduleInit, WrittenInit, ReasonInit
<1>2. Inv /\ [Next]_vars => Inv'
  <2>1. MixInv => doc \in Seq(Entries)
    BY DEF MixInv
  <2> QED
    BY <2>1, MixNext, VisitorTypeStep, ScheduleNext, WrittenStep, ReasonStep
<1>3. Inv => RejectedForAReason
  BY DEF ReasonInv
<1> QED
  BY <1>1, <1>2, <1>3, PTL DEF Spec

=============================================================================
