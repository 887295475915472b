------------------------------- MODULE Service -------------------------------
(***************************************************************************)
(* src/service/ and src/http/request.rs: what becomes of requests that     *)
(* several connections of a configured server make at the same time.  A    *)
(* request is routed by the patterns of the configuration, then answered   *)
(* locally, from a file, or by a backend; an action is what its future     *)
(* does between two awaits.  Two detached tasks may outlive the future:    *)
(* the one that drives the connection to the backend, and the tunnel of an *)
(* upgrade.                                                                *)
(*                                                                         *)
(* A request is a name and has a connection of its own.  The connections   *)
(* to one listening address share its schedulers; each address is served   *)
(* by a clone of the server, and a clone makes schedulers of its own.      *)
(* URIs are abstracted to the pattern prefixes they start with, and the    *)
(* scheduler of a pattern to its cycle and the turns it has given (see     *)
(* Ring and WeightedRoundRobin for both).  A Forwarded header is a list of *)
(* fields, and a field a list of hops, or Unreadable: not visible ASCII.   *)
(*                                                                         *)
(* External: hyper, the backends, the clients and the file system.         *)
(*                                                                         *)
(* Definitions whose name ends in Mutant are deliberately wrong variants   *)
(* of the definition after them; no specification uses them.               *)
(***************************************************************************)
EXTENDS Naturals, FiniteSets, SequencesExt

CONSTANTS
  Requests,     \* requests that clients may make
  Uris,         \* request URIs
  PrefixesOf,   \* for each URI, the pattern URIs that are prefixes of it
  Patterns,     \* config patterns: sequence of [uri, kind, cycle]
  Listeners,    \* config `listen`: the addresses of the server
  Names,        \* what config `name` may be
  UnfitNames,   \* names with a character that no header value may have
  Hosts,        \* what a Host field may hold
  Hops,         \* hops of Forwarded fields that other proxies have written
  Heads,        \* header fields of a request: [upgrade, forwarded, host]
  Unreadable,   \* a header value that is not visible ASCII
  Absent        \* no such key, field or message

ASSUME NamesAssumption == UnfitNames \subseteq Names
ASSUME HeadsAssumption ==
  Heads \subseteq [upgrade : {"none", "usable", "unusable"},
                  forwarded : Seq({Unreadable} \cup Seq(Hops)),
                  host : Hosts \cup {Unreadable, Absent}]

VARIABLES
  name,         \* config `name`, or Absent
  stage,        \* where the future of Rxh::call is
  uri,          \* the URI of each request
  listener,     \* the address that it arrived at
  head,         \* the header fields of those forwarded
  backend,      \* the address that next_server gave it
  turns,        \* per listener and pattern, the turns its scheduler has given
  upstream,     \* the connection to the backend
  sent,         \* the Forwarded field of the request that was sent on it
  answer,       \* what the client is answered
  tunnel,       \* the tunnel task
  client        \* "there" or "gone"

\* What is fixed once the request is routed.
request == <<name, uri, listener, head>>
vars == <<request, stage, backend, turns, upstream, sent, answer, tunnel, client>>

NoUri == "no uri"
NoBackend == "no backend"

Backends == UNION {{Patterns[p].cycle[i] : i \in DOMAIN Patterns[p].cycle} :
                     p \in DOMAIN Patterns}

OwnHops == [client : Requests, by : Names \cup Listeners, host : Hosts \cup Listeners]

\* Ring::new has panicked while the configuration was read if a forward
\* pattern gave it no entry (AcceptedCanSchedule of ServerVisitor).
ASSUME PatternsAssumption ==
  \A p \in DOMAIN Patterns :
    /\ p \in Nat
    /\ Patterns[p].kind = "forward" => Patterns[p].cycle \in Seq(Backends) \ {<<>>}
ASSUME AbsentAssumption == Absent \notin Seq(Hops \cup OwnHops)

(* new: not made yet.  connecting, sending, reading: at an await of        *)
(* forward() or transfer().  answered, failed: the future has returned Ok  *)
(* or Err.  dropped, panicked: it is gone without a result.                *)
Pending == {"connecting", "sending", "reading"}
Settled == {"answered", "failed", "dropped", "panicked"}

TypeOK ==
  /\ name \in Names \cup {Absent}
  /\ stage \in [Requests -> {"new"} \cup Pending \cup Settled]
  /\ uri \in [Requests -> Uris \cup {NoUri}]
  /\ listener \in [Requests -> Listeners \cup {Absent}]
  /\ head \in [Requests -> Heads \cup {Absent}]
  /\ backend \in [Requests -> Backends \cup {NoBackend}]
  /\ turns \in [Listeners \X DOMAIN Patterns -> Nat]
  /\ upstream \in [Requests -> {"none", "open", "tunnelled", "closed"}]
  /\ sent \in [Requests -> Seq(Hops \cup OwnHops) \cup {Absent}]
  /\ answer \in [Requests -> {"none", "404", "502", "file", "relayed", "101"}]
  /\ tunnel \in [Requests -> {"none", "pending", "open", "closed"}]
  /\ client \in [Requests -> {"there", "gone"}]

Init ==
  /\ name \in Names \cup {Absent}
  /\ stage = [r \in Requests |-> "new"]
  /\ uri = [r \in Requests |-> NoUri]
  /\ listener = [r \in Requests |-> Absent]
  /\ head = [r \in Requests |-> Absent]
  /\ backend = [r \in Requests |-> NoBackend]
  /\ turns = [s \in Listeners \X DOMAIN Patterns |-> 0]
  /\ upstream = [r \in Requests |-> "none"]
  /\ sent = [r \in Requests |-> Absent]
  /\ answer = [r \in Requests |-> "none"]
  /\ tunnel = [r \in Requests |-> "none"]
  /\ client = [r \in Requests |-> "there"]

-----------------------------------------------------------------------------
(* Rxh::call                                                               *)

\* The patterns whose URI the request's URI starts with.
Fitting(u) == {p \in DOMAIN Patterns : Patterns[p].uri \in PrefixesOf[u]}
\* iter().find(): the first of them.
Match(u) == CHOOSE p \in Fitting(u) : \A q \in Fitting(u) : p <= q

Answer(r, a) ==
  /\ stage' = [stage EXCEPT ![r] = "answered"]
  /\ answer' = [answer EXCEPT ![r] = a]

\* A request arrives on a connection that is still there.
Arrive(r, u, l) ==
  /\ stage[r] = "new"
  /\ client[r] = "there"
  /\ uri' = [uri EXCEPT ![r] = u]
  /\ listener' = [listener EXCEPT ![r] = l]
  /\ UNCHANGED <<name, upstream, sent, tunnel, client>>

\* No pattern: 404.
CallUnmatched(r, u, l) ==
  /\ Arrive(r, u, l)
  /\ Fitting(u) = {}
  /\ Answer(r, "404")
  /\ UNCHANGED <<head, backend, turns>>

\* Action::Serve: transfer() checks the paths before its first await; the
\* path may name no file of the directory.
CallServe(r, u, l) ==
  /\ Arrive(r, u, l)
  /\ Fitting(u) # {} /\ Patterns[Match(u)].kind = "serve"
  /\ \/ Answer(r, "404")
     \/ stage' = [stage EXCEPT ![r] = "reading"] /\ UNCHANGED answer
  /\ UNCHANGED <<head, backend, turns>>

\* Mutant: the clones of a server share its schedulers.
SchedulerOfMutant(l, p) == <<CHOOSE k \in Listeners : TRUE, p>>
\* Each listening address has its own clone of the server, and the clone of
\* a Forward has a scheduler of its own.
SchedulerOf(l, p) == <<l, p>>

\* next_server()
NextServer(s) == Patterns[s[2]].cycle[1 + (turns[s] % Len(Patterns[s[2]].cycle))]

\* Action::Forward: take a turn and start to connect.
CallForward(r, u, l, h) ==
  /\ Arrive(r, u, l)
  /\ head' = [head EXCEPT ![r] = h]
  /\ Fitting(u) # {} /\ Patterns[Match(u)].kind = "forward"
  /\ LET s == SchedulerOf(l, Match(u)) IN
       /\ backend' = [backend EXCEPT ![r] = NextServer(s)]
       /\ turns' = [turns EXCEPT ![s] = @ + 1]
  /\ stage' = [stage EXCEPT ![r] = "connecting"]
  /\ UNCHANGED answer

Call(r) ==
  \E u \in Uris, l \in Listeners :
    \/ CallUnmatched(r, u, l)
    \/ CallServe(r, u, l)
    \/ \E h \in Heads : CallForward(r, u, l, h)

\* The rest of transfer(): the file was read, or could not be.
ReadFile(r) ==
  /\ stage[r] = "reading"
  /\ Answer(r, "file") \/ Answer(r, "404")
  /\ UNCHANGED <<request, backend, turns, upstream, sent, tunnel, client>>

-----------------------------------------------------------------------------
(* ProxyRequest::into_forwarded                                            *)

\* Mutant: the hops that are there already are not kept.
PreviousHopsMutant(r) == <<>>
\* get() returns the first Forwarded field, if any; to_str() may refuse it.
PreviousHops(r) ==
  LET fields == head[r].forwarded IN
  IF fields = <<>> \/ fields[1] = Unreadable THEN <<>> ELSE fields[1]

\* for={client_addr};by={the name, or server_addr};host={Host, or server_addr}
OwnHop(r) ==
  [client |-> r,
   by |-> IF name = Absent THEN listener[r] ELSE name,
   host |-> IF head[r].host \in {Absent, Unreadable} THEN listener[r]
                                                    ELSE head[r].host]

\* What insert() puts in the place of all Forwarded fields.
Forwarded(r) == Append(PreviousHops(r), OwnHop(r))

-----------------------------------------------------------------------------
(* proxy::forward                                                          *)

\* Mutant: the turn of a backend that cannot be reached is given back.
ConnectFailsMutant(r) ==
  /\ stage[r] = "connecting"
  /\ Answer(r, "502")
  /\ turns' = [turns EXCEPT ![SchedulerOf(listener[r], Match(uri[r]))] = @ - 1]
  /\ UNCHANGED <<request, backend, upstream, sent, tunnel, client>>
\* TcpStream::connect failed: 502, and no other backend is tried.
ConnectFails(r) ==
  /\ stage[r] = "connecting"
  /\ Answer(r, "502")
  /\ UNCHANGED <<request, backend, turns, upstream, sent, tunnel, client>>

\* One of two unwraps panics: hyper leaves an OnUpgrade only with an Upgrade
\* header that it can honour, and from_str() refuses a value that a header
\* may not have.
ForwardPanics(r) == head[r].upgrade = "unusable" \/ name \in UnfitNames

\* Connected, and the connection's task spawned (an HTTP/1 handshake sends
\* nothing); then the request is sent.
Connect(r) ==
  /\ stage[r] = "connecting"
  /\ upstream' = [upstream EXCEPT ![r] = "open"]
  /\ IF ForwardPanics(r)
       THEN stage' = [stage EXCEPT ![r] = "panicked"] /\ UNCHANGED sent
       ELSE /\ stage' = [stage EXCEPT ![r] = "sending"]
            /\ sent' = [sent EXCEPT ![r] = Forwarded(r)]
  /\ UNCHANGED <<request, backend, turns, answer, tunnel, client>>

\* send_request returned a response other than 101, which is relayed.
Respond(r) ==
  /\ stage[r] = "sending"
  /\ Answer(r, "relayed")
  /\ UNCHANGED <<request, backend, turns, upstream, sent, tunnel, client>>

\* A 101 for a client that asked: spawn the tunnel, which gets the backend's
\* connection, and relay the 101.
SwitchProtocols(r) ==
  /\ stage[r] = "sending"
  /\ head[r].upgrade = "usable"
  /\ Answer(r, "101")
  /\ tunnel' = [tunnel EXCEPT ![r] = "pending"]
  /\ upstream' = [upstream EXCEPT ![r] = "tunnelled"]
  /\ UNCHANGED <<request, backend, turns, sent, client>>

\* Mutant: a 101 is relayed to whoever made the request.
UnaskedSwitchMutant(r) ==
  /\ stage[r] = "sending"
  /\ head[r].upgrade = "none"
  /\ Answer(r, "101")
  /\ UNCHANGED <<request, backend, turns, upstream, sent, tunnel, client>>
\* A 101 for a client that did not ask: 502.
UnaskedSwitch(r) ==
  /\ stage[r] = "sending"
  /\ head[r].upgrade = "none"
  /\ Answer(r, "502")
  /\ UNCHANGED <<request, backend, turns, upstream, sent, tunnel, client>>

\* Mutant: the error is answered.
SendFailsMutant(r) ==
  /\ stage[r] = "sending"
  /\ Answer(r, "500")
  /\ UNCHANGED <<request, backend, turns, upstream, sent, tunnel, client>>
\* send_request failed (`?`): hyper closes the client's connection.
SendFails(r) ==
  /\ stage[r] = "sending"
  /\ stage' = [stage EXCEPT ![r] = "failed"]
  /\ UNCHANGED <<request, backend, turns, upstream, sent, answer, tunnel, client>>

\* Mutant: a dropped future keeps the sender of the connection alive.
SenderDroppedMutant(r) == stage[r] \in {"answered", "failed"}
\* The future owns the sender, and drops it however it ends.
SenderDropped(r) == stage[r] \in Settled

\* The spawned conn.await: it ends once the sender is dropped and the body of
\* the response, if any, has been passed on.
ConnEnds(r) ==
  /\ upstream[r] = "open"
  /\ SenderDropped(r)
  /\ upstream' = [upstream EXCEPT ![r] = "closed"]
  /\ UNCHANGED <<request, stage, backend, turns, sent, answer, tunnel, client>>

-----------------------------------------------------------------------------
(* proxy::tunnel                                                           *)

CloseTunnel(r) ==
  /\ tunnel' = [tunnel EXCEPT ![r] = "closed"]
  /\ upstream' = [upstream EXCEPT ![r] = "closed"]

\* Mutant: the tunnel does not wait for the client's upgrade.
TunnelOpensMutant(r) ==
  /\ tunnel[r] = "pending"
  /\ tunnel' = [tunnel EXCEPT ![r] = "open"]
  /\ UNCHANGED <<request, stage, backend, turns, upstream, sent, answer, client>>
\* Both upgrades have resolved: the 101 was sent, and bytes are copied.
TunnelOpens(r) ==
  /\ tunnel[r] = "pending"
  /\ client[r] = "there"
  /\ tunnel' = [tunnel EXCEPT ![r] = "open"]
  /\ UNCHANGED <<request, stage, backend, turns, upstream, sent, answer, client>>

\* The client's upgrade fails: try_join's unwrap panics, in this task only.
TunnelFails(r) ==
  /\ tunnel[r] = "pending"
  /\ client[r] = "gone"
  /\ CloseTunnel(r)
  /\ UNCHANGED <<request, stage, backend, turns, sent, answer, client>>

\* copy_bidirectional returns: both sides have closed, or one has failed.
TunnelEnds(r) ==
  /\ tunnel[r] = "open"
  /\ CloseTunnel(r)
  /\ UNCHANGED <<request, stage, backend, turns, sent, answer, client>>

\* The client closes its connection.  hyper drops the future of a request
\* that is not answered yet.
ClientCloses(r) ==
  /\ client[r] = "there"
  /\ client' = [client EXCEPT ![r] = "gone"]
  /\ stage' = [stage EXCEPT ![r] = IF @ \in Pending THEN "dropped" ELSE @]
  /\ UNCHANGED <<request, backend, turns, upstream, sent, answer, tunnel>>

-----------------------------------------------------------------------------
Forward(r) ==
  \/ ConnectFails(r)
  \/ Connect(r)
  \/ Respond(r)
  \/ SwitchProtocols(r)
  \/ UnaskedSwitch(r)
  \/ SendFails(r)

TunnelStep(r) == TunnelOpens(r) \/ TunnelFails(r)

Terminated ==
  /\ \A r \in Requests : client[r] = "gone" /\ upstream[r] \in {"none", "closed"}
  /\ UNCHANGED vars

Next ==
  \/ \E r \in Requests : \/ Call(r)
                         \/ ReadFile(r)
                         \/ Forward(r)
                         \/ ConnEnds(r)
                         \/ TunnelStep(r)
                         \/ TunnelEnds(r)
                         \/ ClientCloses(r)
  \/ Terminated

Spec == Init /\ [][Next]_vars

(* tokio polls the detached tasks.  Once the client has gone, its side of  *)
(* a response or a tunnel has ended, and the end of file that the backend  *)
(* is sent ends the other.  No code bounds how long a backend may take to  *)
(* accept or to answer, so that nothing is assumed of the futures, and     *)
(* nothing of clients.                                                     *)
FairSpec ==
  /\ Spec
  /\ \A r \in Requests :
       WF_vars(client[r] = "gone" /\ (ConnEnds(r) \/ TunnelFails(r) \/ TunnelEnds(r)))

-----------------------------------------------------------------------------
(* The client, the backend and the tunnel agree on an upgrade: a tunnel is *)
(* spawned only for a client that asked, a client is told 101 only if its  *)
(* tunnel was spawned, and a tunnel never outlives its backend's socket.   *)
UpgradesAgree ==
  \A r \in Requests :
    /\ answer[r] = "101" <=> tunnel[r] # "none"
    /\ tunnel[r] # "none" => head[r].upgrade = "usable"
    /\ tunnel[r] \in {"pending", "open"} <=> upstream[r] = "tunnelled"

\* The requests that pattern p has got at the address l.
RoutedTo(l, p) ==
  {r \in Requests : /\ stage[r] # "new" /\ listener[r] = l
                    /\ Fitting(uri[r]) # {} /\ Match(uri[r]) = p}

(* A scheduler's turns go to the requests of its own pattern and address,  *)
(* one each, whatever becomes of them: a failed connection, a client that  *)
(* leaves or a panic neither gives a turn back nor takes a second one, so  *)
(* that a backend that is down gets, and loses, exactly the share of its   *)
(* weight; and requests to another address of the server change nothing.   *)
TurnsFollowRequests ==
  \A l \in Listeners, p \in DOMAIN Patterns :
    Patterns[p].kind = "forward" =>
      /\ turns[<<l, p>>] = Cardinality(RoutedTo(l, p))
      /\ \A b \in Backends :
           Cardinality({r \in RoutedTo(l, p) : backend[r] = b})
             = Cardinality({k \in 0..(turns[<<l, p>>] - 1) :
                 Patterns[p].cycle[1 + (k % Len(Patterns[p].cycle))] = b})

\* The hops that are written in the Forwarded fields of a request.
HopsOf(field) == IF field = Unreadable THEN <<>> ELSE field
Written(r) ==
  LET fields == head[r].forwarded IN
  FlattenSeq([i \in DOMAIN fields |-> HopsOf(fields[i])])

(* A backend that gets a request learns the hops that are written in it,   *)
(* in their order, then the client, address and name of this very proxy:   *)
(* no hop is made up or moved, and none is lost but those of the fields    *)
(* after the first.  A request whose handling panics is not sent at all.   *)
ForwardedChain ==
  \A r \in Requests :
    IF sent[r] = Absent THEN answer[r] \notin {"relayed", "101"}
    ELSE /\ stage[r] # "panicked" /\ name \notin UnfitNames
         /\ IsPrefix(Front(sent[r]), Written(r))
         /\ Len(head[r].forwarded) <= 1 => Front(sent[r]) = Written(r)
         /\ Last(sent[r]).client = r
         /\ Last(sent[r]).by \in {name, listener[r]}

(* No connection to a backend is left behind by a client that has gone,    *)
(* at whichever await its request was, or while its upgrade was under way. *)
UpstreamsAreReleased ==
  \A r \in Requests : client[r] = "gone" ~> upstream[r] \in {"none", "closed"}

-----------------------------------------------------------------------------
(* The promise of Exchange, for the connection of each request.            *)

\* A client that has gone takes a tunnel along that was waiting for it.
\* A request that is answered before its first await is not seen as busy.
ConnOf(r) ==
  CASE \/ client[r] = "gone"
       \/ stage[r] \in {"failed", "panicked"}
       \/ tunnel[r] \in {"open", "closed"} -> "over"
    [] client[r] = "there" /\ tunnel[r] = "none" /\ stage[r] \in {"new", "answered"}
         -> "ready"
    [] OTHER -> "busy"
TunnelOf(r) ==
  IF tunnel[r] = "pending" /\ client[r] = "gone" THEN "closed" ELSE tunnel[r]

Exchanges(r) == INSTANCE Exchange WITH conn <- ConnOf(r), tunnel <- TunnelOf(r)

(* What module Server takes the service of a connection to do is what it   *)
(* does: one answer for each request, a tunnel only by way of a relayed    *)
(* 101, and no tunnel that opens for a client that has already gone.       *)
AnswersExchanges ==
  /\ \A r \in Requests : Exchanges(r)!Init
  /\ [][\A r \in Requests : [Exchanges(r)!Next]_(Exchanges(r)!vars)]_vars

=============================================================================
