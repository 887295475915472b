---------------------------- MODULE ServerVisitor ----------------------------
(***************************************************************************)
(* src/config/deser.rs: the visitor that turns one [[server]] table of     *)
(* rxh.toml into a config::Server.  It sees the keys one by one, in the    *)
(* order of the document, and decides with the local variables it has so   *)
(* far; a key may be repeated, since the toml crate leaves that to the     *)
(* visitor of a struct.                                                    *)
(*                                                                         *)
(* A list of addresses is abstracted to its length, a backend to its       *)
(* weight, and a value of the wrong type to Malformed.  Serde's choice     *)
(* among the variants of an untagged enum is modelled by its outcome.      *)
(*                                                                         *)
(* Definitions whose name ends in Mutant are deliberately wrong variants   *)
(* of the definition after them; no specification uses them.               *)
(***************************************************************************)
EXTENDS Naturals, Sequences

CONSTANTS
  ListenValues,       \* what a document may give for each key
  MatchValues,
  ForwardValues,
  ServeValues,
  UriValues,
  NameValues,
  ConnectionsValues,
  Malformed,          \* a value that its type's Deserialize rejects
  Unweighted,         \* a backend written as a socket address only
  Absent,             \* an optional key that is not there
  DefaultUri,         \* "/"
  MaxKeys             \* bound of the model: keys of a document

\* The shape of the values that documents can give: lists of addresses by
\* their length, usize limits, and backends with a usize weight or without.
ASSUME ValuesAssumption ==
  /\ ListenValues \cup ConnectionsValues \subseteq Nat \cup {Malformed}
  /\ Absent \notin NameValues
  /\ \A v \in ForwardValues \ {Malformed} : v.backends \in Seq(Nat \cup {Unweighted})
ASSUME MatchAssumption ==
  \A v \in MatchValues \ {Malformed} :
    /\ v \in Seq({v[i] : i \in DOMAIN v})
    /\ \A i \in DOMAIN v :
         v[i].actions # <<>> =>
           LET a == v[i].actions[1] IN
             a.kind # "serve" /\ a.value # Malformed
               => a.value.backends \in Seq(Nat \cup {Unweighted})
ASSUME MaxKeysAssumption == MaxKeys \in Nat

DefaultConnections == 1024

VARIABLES
  doc,            \* history: the keys and values visited
  listen,         \* the locals of visit_map
  patterns,
  simplePattern,
  name,
  maxConnections,
  uri,
  verdict         \* "reading", or how the visit ended

locals == <<listen, patterns, simplePattern, name, maxConnections, uri>>
vars == <<doc, locals, verdict>>

FieldErrors == {"duplicate field", "mixed simple and match", "mixed actions",
                "invalid value", "unknown field"}
EndErrors == {"missing config", "missing listen"}

NoAction == [kind |-> "none", weights |-> <<>>]
NoPattern == [uri |-> DefaultUri, action |-> NoAction]
ServeAction == [kind |-> "serve", weights |-> <<>>]

-----------------------------------------------------------------------------
(* Values.                                                                 *)

\* BackendOption: a bare address has weight 1.
WeightOf(backend) == IF backend = Unweighted THEN 1 ELSE backend

\* ForwardOption and Backend: one backend, a list of them, or a table with
\* an algorithm and backends; no variant takes an array of such tables.
ForwardAction(v) ==
  [kind |-> "forward", weights |-> [i \in DOMAIN v.backends |->
                                      WeightOf(v.backends[i])]]
ForwardForms == {"one", "list", "table"}

HasWeight(weights) == \E i \in DOMAIN weights : weights[i] > 0

\* Mutant: a scheduler is made of anything.
ForwardVerdictMutant(v) ==
  IF v = Malformed \/ v.form \notin ForwardForms THEN "invalid value" ELSE "ok"
\* Deserializing a Forward makes its scheduler, and Ring::new panics when
\* there is nothing to schedule.
ForwardVerdict(v) ==
  CASE v = Malformed -> "invalid value"
    [] v # Malformed /\ v.form \notin ForwardForms -> "invalid value"
    [] v # Malformed /\ v.form \in ForwardForms
         /\ ~HasWeight(ForwardAction(v).weights) -> "panicked"
    [] OTHER -> "ok"

ValueVerdict(v) == IF v = Malformed THEN "invalid value" ELSE "ok"

\* An action key of a pattern, with its value.
ActionVerdict(a) ==
  IF a.kind = "serve" THEN ValueVerdict(a.value) ELSE ForwardVerdict(a.value)
ActionOf(a) == IF a.kind = "serve" THEN ServeAction ELSE ForwardAction(a.value)

\* Mutant: a pattern without `uri` has none.
PatternMutant(p) == [uri |-> p.uri, action |-> ActionOf(p.actions[1])]
\* Pattern: `uri` is optional, and the action is flattened into it, so that of
\* several actions the first is taken and the others are not looked at.
Pattern(p) ==
  [uri |-> IF p.uri = Absent THEN DefaultUri ELSE p.uri,
   action |-> ActionOf(p.actions[1])]

PatternVerdict(p) ==
  IF p.uri = Malformed \/ p.actions = <<>> THEN "invalid value"
                                           ELSE ActionVerdict(p.actions[1])

\* The patterns of a `match` are deserialized in order, up to the first that
\* cannot be.
MatchVerdict(v) ==
  CASE v = Malformed -> "invalid value"
    [] v # Malformed /\ \A i \in DOMAIN v : PatternVerdict(v[i]) = "ok" -> "ok"
    [] v # Malformed /\ \E i \in DOMAIN v :
         /\ PatternVerdict(v[i]) = "panicked"
         /\ \A j \in 1..(i - 1) : PatternVerdict(v[j]) = "ok" -> "panicked"
    [] OTHER -> "invalid value"

Patterns(v) == [i \in DOMAIN v |-> Pattern(v[i])]

-----------------------------------------------------------------------------
(* visit_map, one key at a time.                                           *)

Init ==
  /\ doc = <<>>
  /\ listen = 0
  /\ patterns = <<>>
  /\ simplePattern = NoPattern
  /\ name = Absent
  /\ maxConnections = DefaultConnections
  /\ uri = DefaultUri
  /\ verdict = "reading"

NextKey(k, v) ==
  /\ verdict = "reading"
  /\ Len(doc) < MaxKeys
  /\ doc' = Append(doc, [key |-> k, value |-> v])

Fail(error) == verdict' = error /\ UNCHANGED locals

\* next_value()? with the outcome r; `assign` if it succeeds.
Take(r, assign) ==
  \/ r # "ok" /\ Fail(r)
  \/ r = "ok" /\ assign /\ UNCHANGED verdict

VisitListen(v) ==
  /\ NextKey("listen", v)
  /\ \/ listen # 0 /\ Fail("duplicate field")
     \/ listen = 0 /\ Take(ValueVerdict(v),
          /\ listen' = v
          /\ UNCHANGED <<patterns, simplePattern, name, maxConnections, uri>>)

VisitMatch(v) ==
  /\ NextKey("match", v)
  /\ \/ patterns # <<>> /\ Fail("duplicate field")
     \/ patterns = <<>> /\ simplePattern # NoPattern
          /\ Fail("mixed simple and match")
     \/ patterns = <<>> /\ simplePattern = NoPattern /\ Take(MatchVerdict(v),
          /\ patterns' = Patterns(v)
          /\ UNCHANGED <<listen, simplePattern, name, maxConnections, uri>>)

\* The handlers of `forward` and `serve` differ in the action only.
VisitAction(kind, verdictOf, action) ==
  \/ patterns # <<>> /\ Fail("mixed simple and match")
  \/ patterns = <<>> /\ simplePattern.action.kind = kind /\ Fail("duplicate field")
  \/ patterns = <<>> /\ simplePattern.action.kind \notin {kind, "none"}
       /\ Fail("mixed actions")
  \/ patterns = <<>> /\ simplePattern = NoPattern /\ Take(verdictOf,
       /\ simplePattern' = [uri |-> DefaultUri, action |-> action]
       /\ UNCHANGED <<listen, patterns, name, maxConnections, uri>>)

\* Mutant: an earlier `match` is not looked at.
VisitForwardMutant(v) ==
  /\ NextKey("forward", v)
  /\ simplePattern = NoPattern /\ Take(ForwardVerdict(v),
       /\ simplePattern' = [uri |-> DefaultUri, action |-> ForwardAction(v)]
       /\ UNCHANGED <<listen, patterns, name, maxConnections, uri>>)
VisitForward(v) ==
  /\ NextKey("forward", v)
  /\ VisitAction("forward", ForwardVerdict(v), ForwardAction(v))

VisitServe(v) ==
  /\ NextKey("serve", v)
  /\ VisitAction("serve", ValueVerdict(v), ServeAction)

\* Mutant: `uri` belongs to a pattern that must be there already.
VisitUriMutant(v) ==
  /\ NextKey("uri", v)
  /\ \/ simplePattern = NoPattern /\ Fail("mixed simple and match")
     \/ simplePattern # NoPattern /\ Take(ValueVerdict(v),
          /\ uri' = v
          /\ UNCHANGED <<listen, patterns, simplePattern, name, maxConnections>>)
VisitUri(v) ==
  /\ NextKey("uri", v)
  /\ \/ patterns # <<>> /\ Fail("mixed simple and match")
     \/ patterns = <<>> /\ Take(ValueVerdict(v),
          /\ uri' = v
          /\ UNCHANGED <<listen, patterns, simplePattern, name, maxConnections>>)

VisitName(v) ==
  /\ NextKey("name", v)
  /\ \/ name # Absent /\ Fail("duplicate field")
     \/ name = Absent /\ Take(ValueVerdict(v),
          /\ name' = v
          /\ UNCHANGED <<listen, patterns, simplePattern, maxConnections, uri>>)

VisitConnections(v) ==
  /\ NextKey("connections", v)
  /\ Take(ValueVerdict(v),
       /\ maxConnections' = v
       /\ UNCHANGED <<listen, patterns, simplePattern, name, uri>>)

\* next_key()? when the key is none of Field.
VisitUnknown ==
  /\ NextKey("unknown", Absent)
  /\ Fail("unknown field")

\* Mutant: `uri` is not moved into the simple pattern.
AllPatternsMutant ==
  IF simplePattern = NoPattern THEN patterns ELSE Append(patterns, simplePattern)
AllPatterns ==
  IF simplePattern = NoPattern THEN patterns
  ELSE Append(patterns, [simplePattern EXCEPT !.uri = uri])

\* After the last key.
Finish ==
  /\ verdict = "reading"
  /\ patterns' = AllPatterns
  /\ verdict' = CASE AllPatterns = <<>> -> "missing config"
                  [] AllPatterns # <<>> /\ listen = 0 -> "missing listen"
                  [] OTHER -> "accepted"
  /\ UNCHANGED <<doc, listen, simplePattern, name, maxConnections, uri>>

Terminated == verdict # "reading" /\ UNCHANGED vars

Next ==
  \/ \E v \in ListenValues : VisitListen(v)
  \/ \E v \in MatchValues : VisitMatch(v)
  \/ \E v \in ForwardValues : VisitForward(v)
  \/ \E v \in ServeValues : VisitServe(v)
  \/ \E v \in UriValues : VisitUri(v)
  \/ \E v \in NameValues : VisitName(v)
  \/ \E v \in ConnectionsValues : VisitConnections(v)
  \/ VisitUnknown
  \/ Finish
  \/ Terminated

Spec == Init /\ [][Next]_vars

-----------------------------------------------------------------------------
Actions == [kind : {"none", "forward", "serve"}, weights : Seq(Nat)]
GivenUris == {DefaultUri} \cup (UriValues \ {Malformed})
PatternUris ==
  {DefaultUri} \cup
    ((UNION {{v[i].uri : i \in DOMAIN v} : v \in MatchValues \ {Malformed}})
       \ {Absent, Malformed})

TypeOK ==
  /\ Len(doc) <= MaxKeys
  /\ listen \in Nat
  /\ patterns \in Seq([uri : PatternUris \cup GivenUris, action : Actions])
  /\ simplePattern \in [uri : {DefaultUri}, action : Actions]
  /\ name \in {Absent} \cup (NameValues \ {Malformed})
  /\ maxConnections \in Nat
  /\ uri \in GivenUris
  /\ verdict \in {"reading", "accepted", "panicked"} \cup FieldErrors \cup EndErrors

\* Where the document gives a key.
Given(k) == {i \in DOMAIN doc : doc[i].key = k}
ActionsGiven == Given("forward") \cup Given("serve")
MatchesGiven == {i \in Given("match") : doc[i].value # <<>>}

(* The two ways to describe a server and the two actions are not mixed: an *)
(* accepted document has one action or one list of patterns, in whatever   *)
(* order its keys are.  The exception that the code makes is named: a      *)
(* `uri` that comes before the list goes unnoticed.                        *)
MixesAreRejected ==
  verdict = "accepted" =>
    /\ \A i, j \in ActionsGiven : i = j
    /\ \A i, j \in MatchesGiven : i = j
    /\ ActionsGiven = {} \/ MatchesGiven = {}
    /\ \A i \in Given("uri"), j \in MatchesGiven : i < j

\* The value the document gives last for a key, or the default.
LastOf(k, default) ==
  IF Given(k) = {} THEN default
  ELSE doc[CHOOSE i \in Given(k) : \A j \in Given(k) : j <= i].value

(* What is accepted is what was written: patterns, their addresses and the *)
(* limit are those of the document, and a `uri` reaches the pattern of its *)
(* table whether it stands before or after the action.                     *)
AcceptedAsWritten ==
  verdict = "accepted" =>
    /\ listen = LastOf("listen", 0)
    /\ maxConnections = LastOf("connections", DefaultConnections)
    /\ name = LastOf("name", Absent)
    /\ \/ \E i \in MatchesGiven : patterns = Patterns(doc[i].value)
       \/ \E i \in Given("forward") :
            patterns = <<[uri |-> LastOf("uri", DefaultUri),
                          action |-> ForwardAction(doc[i].value)]>>
       \/ \E i \in Given("serve") :
            patterns = <<[uri |-> LastOf("uri", DefaultUri),
                          action |-> ServeAction]>>

\* The keys so far fit together, and so do their values with their types.
Consistent ==
  /\ Given("unknown") = {}
  /\ \A i, j \in DOMAIN doc : doc[i].key = doc[j].key => i = j
  /\ \A i, j \in ActionsGiven : i = j
  /\ Given("match") = {} \/ ActionsGiven \cup Given("uri") = {}
  /\ \A i \in DOMAIN doc :
       /\ doc[i].value # Malformed
       /\ doc[i].key = "forward" => doc[i].value.form \in ForwardForms
       /\ doc[i].key = "match" => MatchVerdict(doc[i].value) # "invalid value"

Complete ==
  /\ \E i \in Given("listen") : doc[i].value # 0
  /\ ActionsGiven # {} \/ MatchesGiven # {}

(* No document is turned down without a reason: keys that fit together and *)
(* are complete are accepted in every order they may be written in.        *)
RejectedForAReason ==
  /\ verdict \in FieldErrors => ~Consistent
  /\ verdict \in EndErrors => ~Complete

(* Every forward action of an accepted server has something to schedule,   *)
(* which next_server relies on when it divides by the length of its ring.  *)
AcceptedCanSchedule ==
  verdict = "accepted" =>
    \A i \in DOMAIN patterns :
      patterns[i].action.kind = "forward" => HasWeight(patterns[i].action.weights)

-----------------------------------------------------------------------------
(* What documentation and comments say, and the code does not do.          *)

(* deser.rs:130 and README.md:48 write `[[server.forward]]`, an array that *)
(* holds one table with an algorithm and backends, among "all the legal    *)
(* patterns".                                                              *)
DocumentedForms == ForwardForms \cup {"arrayOfTables"}
DocumentedFormsAccepted ==
  verdict = "invalid value" =>
    LET last == doc[Len(doc)] IN
      last.key = "forward" =>
        last.value = Malformed \/ last.value.form \notin DocumentedForms

=============================================================================
