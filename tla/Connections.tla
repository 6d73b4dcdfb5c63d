---------------------------- MODULE Connections ----------------------------
(***************************************************************************)
(* One accepted connection from its first byte to its log line and event:  *)
(* request, decision, loop guard, dial, answer, relay.                     *)
(* Source: src/nhop/src/proxy/ (http, socks5, forward, mod),               *)
(* src/nhop/src/rules/ruleset.rs, src/nhop/src/upstream/mod.rs (dial).     *)
(*                                                                         *)
(* What a client sends is its visit.  Parsing, header rewriting and the    *)
(* matchers are data: a request is readable or not, a rule has the set of  *)
(* destinations it matches.  Which upstream is selected, and what becomes  *)
(* of a dial, is open here (Upstream).                                     *)
(***************************************************************************)
EXTENDS Events, Integers

CONSTANTS Conns,          \* connections, each accepted once
          Visits,         \* the visits each may make
          Upstreams,      \* addresses the list may name
          Destinations,
          Own,            \* the destination that is the front end itself
          None            \* no upstream

\* A dial's way out without an upstream; a body that ends with the client.
Direct == "direct"
Streamed == -1

RuleClasses == {"never", "require", "prefer"}
Rules == [class : RuleClasses, matches : SUBSET Destinations]
Kinds == {"connect", "absolute", "socks", "forward"}

\* rules: the snapshot read at the accept; length: what the head says of the body;
\* sent: what the client sends behind the head, ahead of it what came with the head.
Visit == [kind : Kinds, rules : Seq(Rules), to : Destinations,
          length : Nat \cup {Streamed}, sent : Nat, ahead : Nat]
NoVisit == [kind |-> "none", rules |-> <<>>, to |-> Own, length |-> 0, sent |-> 0, ahead |-> 0]

ASSUME VisitsAssumption ==
  /\ Visits \in [Conns -> SUBSET Visit]
  /\ \A c \in Conns : \A v \in Visits[c] :
       v.ahead <= v.sent /\ (v.kind \in {"socks", "forward"} => v.ahead = 0)
  /\ Direct \notin Upstreams /\ None \notin Upstreams

VARIABLES
  at,        \* where each connection is
  visit,     \* what it came with
  answer,    \* what nhop answered it, of its own
  tried,     \* the ways out it was dialled by, in order
  hop, via,  \* what Routed recorded of the dial
  failure,   \* what its serve returns
  carried,   \* bytes behind the head passed on
  lines      \* its lines in the log

connVars == <<at, visit, answer, tried, hop, via, failure, carried, lines>>
vars == <<eventVars, connVars>>

Places == {"out", "accepted", "greeted", "dialling", "falling", "connected", "refusing",
           "relaying", "ended", "logged", "done"}
Over == {"ended", "logged", "done"}
Hops == {"none", "direct", "upstream", "fallback_direct"}
Failures == {"none", "loop", "down", "failed", "client", "broken"}
Answers == {"none", "bad_request", "bad_gateway", "no_method", "refused", "granted",
            "not_allowed", "host_unreachable", "failure"}

-----------------------------------------------------------------------------
(* Ruleset::decide *)

Matching(v, classes) ==
  {i \in 1..Len(v.rules) : v.rules[i].class \in classes /\ v.to \in v.rules[i].matches}

FirstOf(v, classes) == CHOOSE i \in Matching(v, classes) : \A j \in Matching(v, classes) : i <= j

\* Fault: one pass over the rules, whatever their class.
DecisionInOrder(v) ==
  IF Matching(v, RuleClasses) = {} THEN "direct" ELSE v.rules[FirstOf(v, RuleClasses)].class

\* A pass over the never rules, then one over the others; the first match decides.
Decision(v) ==
  CASE Matching(v, {"never"}) # {} -> "never"
    [] Matching(v, {"never"}) = {} /\ Matching(v, {"require", "prefer"}) # {}
         -> v.rules[FirstOf(v, {"require", "prefer"})].class
    [] OTHER -> "direct"

-----------------------------------------------------------------------------
(* The body of an HTTP request *)

Least(m, n) == IF m <= n THEN m ELSE n

\* behind_the_head: what came with the head and is of the request.
Behind(v) ==
  IF v.kind = "absolute" /\ v.length # Streamed THEN Least(v.length, v.ahead) ELSE v.ahead

\* Fault: what came with the head is counted again.
RestUncounted(v) == IF v.kind = "absolute" /\ v.length # Streamed THEN v.length ELSE v.sent

\* rest_of_body: what is still read of the client, which can end it before.
Rest(v) ==
  IF v.kind = "absolute" /\ v.length # Streamed THEN v.length - Behind(v) ELSE v.sent

\* Bytes left to pass on.
Left(c) ==
  Least(Rest(visit[c]), visit[c].sent - visit[c].ahead) - (carried[c] - Behind(visit[c]))

-----------------------------------------------------------------------------
Init ==
  /\ EventsInit
  /\ at = [c \in Conns |-> "out"]
  /\ visit = [c \in Conns |-> NoVisit]
  /\ answer = [c \in Conns |-> "none"]
  /\ tried = [c \in Conns |-> <<>>]
  /\ hop = [c \in Conns |-> "none"]
  /\ via = [c \in Conns |-> None]
  /\ failure = [c \in Conns |-> "none"]
  /\ carried = [c \in Conns |-> 0]
  /\ lines = [c \in Conns |-> 0]

Goes(c, from, to) == at[c] = from /\ at' = [at EXCEPT ![c] = to]

\* Nothing but the place and the answer changes.
Answered(c, code) ==
  /\ answer' = [answer EXCEPT ![c] = code]
  /\ UNCHANGED <<eventVars, visit, tried, hop, via, failure, carried, lines>>

IsHttp(c) == visit[c].kind \in {"connect", "absolute"}

Accepts(c) ==
  /\ Goes(c, "out", "accepted")
  /\ \E v \in Visits[c] : visit' = [visit EXCEPT ![c] = v]
  /\ UNCHANGED <<eventVars, answer, tried, hop, via, failure, carried, lines>>

\* http::serve: no head, or too long a one.
HttpCloses(c) == IsHttp(c) /\ Goes(c, "accepted", "done") /\ Answered(c, "none")

\* http::serve: a head that cannot be read.
HttpRejects(c) == IsHttp(c) /\ Goes(c, "accepted", "done") /\ Answered(c, "bad_request")

\* socks5::serve: the client goes away in the handshake.
SocksCloses(c) ==
  /\ visit[c].kind = "socks"
  /\ Goes(c, "accepted", "done") \/ Goes(c, "greeted", "done")
  /\ Answered(c, "none")

SocksRejects(c) ==
  /\ visit[c].kind = "socks"
  /\ \/ Goes(c, "accepted", "done") /\ Answered(c, "no_method")
     \/ Goes(c, "greeted", "done") /\ Answered(c, "refused")

Greets(c) == visit[c].kind = "socks" /\ Goes(c, "accepted", "greeted") /\ Answered(c, "none")

\* own_address: the client reached nhop at the address it asks for.
IsLoop(v) == v.to = Own

\* Routed::begun, and own_address: a loop is refused before any dial.
Decides(c) ==
  /\ at[c] = IF visit[c].kind = "socks" THEN "greeted" ELSE "accepted"
  /\ at' = [at EXCEPT ![c] = IF IsLoop(visit[c]) THEN "refusing" ELSE "dialling"]
  /\ failure' = [failure EXCEPT ![c] = IF IsLoop(visit[c]) THEN "loop" ELSE "none"]
  /\ UNCHANGED <<eventVars, visit, answer, tried, hop, via, carried, lines>>

-----------------------------------------------------------------------------
(* NextHop::dial, and Routed::dialled with what it returns *)

\* required, with no upstream configured.
RefusesUnlisted(c) ==
  /\ Decision(visit[c]) = "require"
  /\ Goes(c, "dialling", "refusing")
  /\ failure' = [failure EXCEPT ![c] = "down"]
  /\ UNCHANGED <<eventVars, visit, answer, tried, hop, via, carried, lines>>

Opened(c, way, by, how) ==
  /\ at' = [at EXCEPT ![c] = "connected"]
  /\ tried' = [tried EXCEPT ![c] = Append(@, way)]
  /\ hop' = [hop EXCEPT ![c] = how] /\ via' = [via EXCEPT ![c] = by]
  /\ UNCHANGED <<eventVars, visit, answer, failure, carried, lines>>

NotOpened(c, way, by, how, why) ==
  /\ at' = [at EXCEPT ![c] = "refusing"]
  /\ tried' = [tried EXCEPT ![c] = Append(@, way)]
  /\ hop' = [hop EXCEPT ![c] = how] /\ via' = [via EXCEPT ![c] = by]
  /\ failure' = [failure EXCEPT ![c] = why]
  /\ UNCHANGED <<eventVars, visit, answer, carried, lines>>

\* required and preferred, through the entry picked.
DialsUpstream(c, u) ==
  /\ at[c] = "dialling"
  /\ Decision(visit[c]) \in {"require", "prefer"}
  /\ \/ Opened(c, u, u, "upstream")
     \/ /\ Decision(visit[c]) = "require"
        /\ \E why \in {"down", "failed"} : NotOpened(c, u, u, "upstream", why)

\* preferred: any failure of the upstream leads to a direct dial.
FallsBack(c, u) ==
  /\ Decision(visit[c]) = "prefer"
  /\ Goes(c, "dialling", "falling")
  /\ tried' = [tried EXCEPT ![c] = Append(@, u)]
  /\ UNCHANGED <<eventVars, visit, answer, hop, via, failure, carried, lines>>

\* Fault: the dial through the upstream that failed is the one reported.
FallbackDialsUnreported(c) ==
  /\ Decision(visit[c]) = "prefer"
  /\ at[c] \in {"dialling", "falling"}
  /\ \/ Opened(c, Direct, None, "upstream")
     \/ NotOpened(c, Direct, None, "upstream", "failed")

\* fallen_back: after a failure, or with no upstream selected.
FallbackDials(c) ==
  /\ Decision(visit[c]) = "prefer"
  /\ at[c] \in {"dialling", "falling"}
  /\ \/ Opened(c, Direct, None, "fallback_direct")
     \/ NotOpened(c, Direct, None, "fallback_direct", "failed")

DialsDirect(c) ==
  /\ at[c] = "dialling"
  /\ Decision(visit[c]) \in {"never", "direct"}
  /\ Opened(c, Direct, None, "direct") \/ NotOpened(c, Direct, None, "direct", "failed")

-----------------------------------------------------------------------------
(* The answer, the relay and the end *)

\* refuse, refuse_loop, refusal: a forward has no protocol to answer in.
Refusal(kind, why) ==
  CASE kind = "forward" -> "none"
    [] kind \in {"connect", "absolute"} -> "bad_gateway"
    [] kind = "socks" /\ why = "loop" -> "not_allowed"
    [] kind = "socks" /\ why = "down" -> "host_unreachable"
    [] OTHER -> "failure"

\* Fault: a failed dial is returned before it is answered.
RefusesSilently(c) ==
  /\ Goes(c, "refusing", "ended")
  /\ UNCHANGED <<eventVars, visit, answer, tried, hop, via, failure, carried, lines>>

Refuses(c) ==
  /\ Goes(c, "refusing", "ended")
  /\ answer' = [answer EXCEPT ![c] = Refusal(visit[c].kind, failure[c])]
  /\ UNCHANGED <<eventVars, visit, tried, hop, via, failure, carried, lines>>

\* Fault: serve returns at once, without Routed::ended.
ClientGoneUnlogged(c) ==
  /\ Goes(c, "refusing", "done")
  /\ failure' = [failure EXCEPT ![c] = "client"]
  /\ UNCHANGED <<eventVars, visit, answer, tried, hop, via, carried, lines>>

\* The answer cannot be written: that is the failure returned.
ClientGone(c) ==
  /\ visit[c].kind # "forward"
  /\ \/ Goes(c, "refusing", "ended")
     \/ visit[c].kind \in {"connect", "socks"} /\ Goes(c, "connected", "ended")
  /\ failure' = [failure EXCEPT ![c] = "client"]
  /\ UNCHANGED <<eventVars, visit, answer, tried, hop, via, carried, lines>>

\* tunnel, socks5::relay grant the tunnel; then what came with the head goes on.
StartsRelay(c) ==
  /\ Goes(c, "connected", "relaying")
  /\ answer' = [answer EXCEPT ![c] = IF visit[c].kind \in {"connect", "socks"} THEN "granted" ELSE "none"]
  /\ carried' = [carried EXCEPT ![c] = Behind(visit[c])]
  /\ UNCHANGED <<eventVars, visit, tried, hop, via, failure, lines>>

\* copy_bidirectional and forwarded: one byte more of the client.
Carries(c) ==
  /\ at[c] = "relaying" /\ Left(c) > 0
  /\ carried' = [carried EXCEPT ![c] = @ + 1]
  /\ UNCHANGED <<eventVars, at, visit, answer, tried, hop, via, failure, lines>>

\* Both directions are through, or one of them fails.
RelayEnds(c) ==
  /\ Goes(c, "relaying", "ended")
  /\ \E why \in {"none", "broken"} :
       /\ why = "none" => Left(c) = 0
       /\ failure' = [failure EXCEPT ![c] = why]
  /\ UNCHANGED <<eventVars, visit, answer, tried, hop, via, carried, lines>>

\* Routed::ended: the log line, then the event.
Logs(c) ==
  /\ Goes(c, "ended", "logged")
  /\ lines' = [lines EXCEPT ![c] = @ + 1]
  /\ UNCHANGED <<eventVars, visit, answer, tried, hop, via, failure, carried>>

Publishes(c) ==
  /\ Goes(c, "logged", "done")
  /\ Publish
  /\ UNCHANGED <<visit, answer, tried, hop, via, failure, carried, lines>>

Handshakes(c) ==
  Accepts(c) \/ HttpCloses(c) \/ HttpRejects(c) \/ SocksCloses(c) \/ SocksRejects(c) \/ Greets(c)

Dials(c) ==
  \/ RefusesUnlisted(c) \/ FallbackDials(c) \/ DialsDirect(c)
  \/ \E u \in Upstreams : DialsUpstream(c, u) \/ FallsBack(c, u)

Serves(c) ==
  Refuses(c) \/ ClientGone(c) \/ StartsRelay(c) \/ Carries(c) \/ RelayEnds(c) \/ Logs(c) \/ Publishes(c)

Next ==
  \/ \E c \in Conns : Handshakes(c) \/ Decides(c) \/ Dials(c) \/ Serves(c)
  \/ \E s \in Subscribers : SubscriberStep(s) /\ UNCHANGED connVars

Spec == Init /\ [][Next]_vars

-----------------------------------------------------------------------------
(* Properties *)

\* Shapes of the state; no queue is longer than its capacity.
TypeOK ==
  /\ EventsTypeOK
  /\ at \in [Conns -> Places]
  /\ visit \in [Conns -> Visit \cup {NoVisit}]
  /\ \A c \in Conns : at[c] # "out" => visit[c] \in Visits[c]
  /\ answer \in [Conns -> Answers]
  /\ tried \in [Conns -> Seq(Upstreams \cup {Direct})]
  /\ hop \in [Conns -> Hops] /\ via \in [Conns -> Upstreams \cup {None}]
  /\ failure \in [Conns -> Failures]
  /\ carried \in [Conns -> Nat] /\ lines \in [Conns -> Nat]

\* Every connection that was dialled, or failed, or refused for a loop leaves one
\* line in the log, and no other connection does, whichever of its writes fail.
OneLineEach ==
  \A c \in Conns :
    /\ lines[c] <= 1
    /\ at[c] = "done" => (lines[c] = 1 <=> tried[c] # <<>> \/ failure[c] # "none")

\* A dial that failed or was refused is answered with its reason before the
\* connection ends, once and where the protocol has an answer; a tunnel is granted
\* only over a dial that was made.
AnswersTell ==
  \A c \in Conns :
    /\ at[c] \in Over /\ failure[c] \in {"loop", "down", "failed"}
         => answer[c] = Refusal(visit[c].kind, failure[c])
    /\ answer[c] = "granted" => tried[c] # <<>> /\ failure[c] \in {"none", "broken"}

\* The rules a connection was accepted with hold for every socket it has opened:
\* none through an upstream where a never rule matches, none directly where the
\* first other rule matching is require, none at all to the front end itself.
RulesAreKept ==
  \A c \in Conns : LET v == visit[c]
                       M(i) == v.to \in v.rules[i].matches IN
    \A k \in 1..Len(tried[c]) :
      /\ v.to # Own
      /\ tried[c][k] # Direct => \E i \in 1..Len(v.rules) : M(i)
      /\ tried[c][k] # Direct => \A i \in 1..Len(v.rules) : M(i) => v.rules[i].class # "never"
      /\ tried[c][k] = Direct =>
           \A i \in 1..Len(v.rules) :
             M(i) /\ v.rules[i].class = "require" =>
               \E j \in 1..Len(v.rules) :
                 M(j) /\ (v.rules[j].class = "never" \/ (j < i /\ v.rules[j].class = "prefer"))

\* The event reports the way that carried the connection, or was tried last, and
\* says that nothing was dialled only if nothing was.
EventTells ==
  \A c \in Conns : at[c] \in Over =>
    LET last == tried[c][Len(tried[c])] IN
    /\ hop[c] = "none" <=> tried[c] = <<>>
    /\ hop[c] = "upstream" => via[c] = last
    /\ hop[c] \in {"direct", "fallback_direct"} => last = Direct /\ via[c] = None
    /\ Len(tried[c]) > 1 => hop[c] = "fallback_direct"

\* Of an HTTP request with a length, what is passed on is its body and nothing of
\* what the client sends after it, wherever the read that found the head ended;
\* and a relay that ends well has passed on all of it the client sent.
OnlyItsBody ==
  \A c \in Conns : LET v == visit[c] IN
    v.kind = "absolute" /\ v.length # Streamed =>
      /\ carried[c] <= v.length
      /\ at[c] \in Over /\ failure[c] = "none" /\ tried[c] # <<>> => carried[c] = Least(v.length, v.sent)

=============================================================================
