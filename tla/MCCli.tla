------------------------------- MODULE MCCli -------------------------------
(***************************************************************************)
(* Plans for the command line.  A key is the name of a plan and two words; *)
(* a plan named "test" asks about the destination that is its second word, *)
(* under rules made of its first.                                          *)
(***************************************************************************)
EXTENDS Cli
CONSTANTS x, y, script, h4, s4, h6, s6, f4, u1, u2

Four == [http |-> h4, socks |-> s4]
Six == [http |-> h6, socks |-> s6]
Pairs == {Four, Six}

Nothing == [deaths |-> 0, starts |-> 0, io |-> 0, binds |-> 0, refusals |-> 0, ends |-> 0,
            changes |-> 0, lines |-> 0, days |-> 0, cuts |-> 0]

Off == [kind \in {"http", "https", "socks"} |-> [on |-> FALSE, at |-> Nowhere]]
Quiet == [init |-> "missing", logs |-> "writable", answering |-> {u1}]

Plan(xs, ys, lines) ==
  [calls |-> [c \in {x, y, script} |-> CASE c = x -> xs [] c = y -> ys [] OTHER -> lines],
   fallbacks |-> TRUE, root |-> TRUE, left |-> Nothing, world |-> Quiet, worlds |-> {Quiet},
   settings |-> Off]

Verb(verb) == [verb |-> verb]
Rule(class, kind, value, long) ==
  [verb |-> "rule", class |-> class, kind |-> kind, value |-> value, long |-> long]
Test(target) == [verb |-> "test", target |-> target]
Listen(listen) == [verb |-> "listen", listen |-> listen]
Forward(listen, target) == [verb |-> "forward", listen |-> listen, target |-> target]
Proxy(action) == [verb |-> "proxy", action |-> action]
Logs(follow, cutoff) == [verb |-> "logs", follow |-> follow, cutoff |-> cutoff]
Upstream(list) == [verb |-> "upstream", list |-> list]

Written(socket) == [socket |-> socket, scheme |-> TRUE]
Spelled(socket) == [socket |-> socket, scheme |-> FALSE]
Both == <<Written(u1), Written(u2)>>
Twice == <<Written(u1), Spelled(u1)>>

Dot == <<".">>
To(host) == host \o <<":", "1">>
Example == <<"a">>

-----------------------------------------------------------------------------
(* Words: of a suffix rule, and of a destination's host *)

Letters == {"a", "A", ".", "*", " "}
SuffixRules == UNION {[1..n -> Letters] : n \in 0..2} \cup {<<"a", ".", "a">>, <<"a", ".", ".">>}
Hosts == UNION {[1..n -> {"a", "."}] : n \in 1..3}
           \cup {<<"A">>, <<"A", ".">>, <<"a", ".", "A">>, <<"a", "A", ".">>}

\* A never rule for the suffix behind a rule for everything with that letter,
\* and rules for a network, a port and a bad value.
TestPlan(suffix, host) ==
  Plan(<<Rule("prefer", "keyword", <<"A">>, FALSE), Rule("never", "suffix", suffix, FALSE),
         Test(To(host))>>, <<>>, <<>>)

OtherHosts == {<<"0", "1">>, <<"1", "1">>, <<":", "0", "1">>, <<"[", ":", "0", "1", "]">>,
               <<"[", "]">>, <<"b">>, <<"0", "1", ".">>}
Networks == {<<"0", "0", "/", "1">>, <<"0", "1", "/", "1", "0">>, <<"1", "1", "/", "1", "1">>,
             <<":", "0", "1", "/", "0">>, <<"0", "/", "1">>}

NetworkPlan(network, host) ==
  Plan(<<Rule("require", "port", <<"+", "1">>, FALSE), Rule("never", "cidr", network, FALSE),
         Upstream(<<Written(u1)>>), Test(To(host)), Verb("rules"),
         Test(host \o <<":", "1", "0", "0">>), Test(host)>>, <<>>, <<>>)

-----------------------------------------------------------------------------
(* The other plans *)

Dying == [Nothing EXCEPT !.deaths = 1, !.starts = 1]

EditsPlan ==
  [Plan(<<Verb("help"), Rule("never", "keyword", Example, FALSE), Upstream(Both), Listen(Six)>>,
        <<Verb("unknown"), Rule("never", "suffix", <<"*">>, FALSE), Upstream(Twice), Verb("off")>>,
        <<>>)
   EXCEPT !.left = [Dying EXCEPT !.io = 1, !.binds = 1]]

ForwardsPlan ==
  [Plan(<<Forward(f4, To(Example)), Verb("reload"), Verb("status")>>,
        <<Forward(f4, To(Example)), Rule("never", "port", <<"1">>, TRUE), Verb("tail")>>, <<>>)
   EXCEPT !.left = [Dying EXCEPT !.binds = 1, !.refusals = 1]]

LoadsPlan ==
  [Plan(<<Verb("reload")>>, <<Rule("never", "keyword", Example, FALSE)>>,
        <<Upstream(Both), Listen(Six), Forward(f4, To(Example))>>)
   EXCEPT !.world.init = "executable",
          !.left = [Dying EXCEPT !.ends = 1, !.binds = 1]]

\* The init file loses its permission to be run.
PlainPlan ==
  [Plan(<<Verb("reload"), Verb("on")>>, <<>>, <<Upstream(Twice), Upstream(<<Written(u1)>>)>>)
   EXCEPT !.world.init = "executable",
          !.worlds = {[Quiet EXCEPT !.init = "plain"], [Quiet EXCEPT !.init = "not_file"]},
          !.left = [Nothing EXCEPT !.changes = 1, !.ends = 1]]

\* A daemon that does not know lists.
OldPlan ==
  [Plan(<<Verb("reload")>>, <<Verb("off")>>, <<Upstream(Both), Upstream(<<Written(u1)>>)>>)
   EXCEPT !.world.init = "executable", !.fallbacks = FALSE,
          !.left = [Dying EXCEPT !.ends = 1, !.io = 1]]

ProxyPlan ==
  [Plan(<<Proxy("on"), Verb("doctor")>>, <<Listen(Six), Proxy("off"), Proxy("status")>>, <<>>)
   EXCEPT !.left = [Nothing EXCEPT !.refusals = 1]]

UserPlan == [Plan(<<Proxy("on"), Proxy("off"), Verb("doctor")>>, <<>>, <<>>)
             EXCEPT !.root = FALSE, !.left = [Nothing EXCEPT !.deaths = 1]]

On == [kind \in {"http", "https", "socks"} |-> [on |-> TRUE, at |-> AddressOf(kind, Four)]]

\* The script leaves nothing to find: then the front ends move and the settings
\* follow them, or the surroundings change.
DoctorPlan ==
  [Plan(<<Verb("doctor")>>, <<Listen(Six), Proxy("on")>>, <<Upstream(<<Written(u1)>>)>>)
   EXCEPT !.world.init = "executable", !.settings = On, !.left = [Nothing EXCEPT !.refusals = 1]]

ChecksPlan ==
  [Plan(<<Verb("doctor")>>, <<>>, <<Upstream(Both)>>)
   EXCEPT !.world.init = "executable", !.settings = On,
          !.worlds = {[init |-> "executable", logs |-> "writable", answering |-> {}],
                      [init |-> "executable", logs |-> "writable", answering |-> {u2}],
                      [init |-> "plain", logs |-> "writable", answering |-> {u1}],
                      [init |-> "executable", logs |-> "locked", answering |-> {u2}]},
          !.left = [Dying EXCEPT !.changes = 1, !.refusals = 1, !.io = 1]]

LogsPlan(follow, cutoff, bounds) ==
  [Plan(<<Logs(follow, cutoff)>>, <<>>, <<>>) EXCEPT !.left = bounds]

Writing4 == [Dying EXCEPT !.lines = 4, !.days = 2, !.io = 1]
Writing3 == [Dying EXCEPT !.lines = 3, !.days = 2]
Cutting == [Nothing EXCEPT !.lines = 3, !.days = 1, !.cuts = 1, !.io = 1]

-----------------------------------------------------------------------------
Others == {"edits", "forwards", "loads", "plain", "old", "proxy", "user", "doctor", "checks",
           "logs", "since", "follow", "cut"}

Keys == {<<"test", suffix, host>> : suffix \in SuffixRules, host \in Hosts}
          \cup {<<"network", network, host>> : network \in Networks, host \in OtherHosts}
          \cup {<<name, <<>>, <<>>>> : name \in Others}

PlanAt(key) ==
  CASE key[1] = "test" -> TestPlan(key[2], key[3])
    [] key[1] = "network" -> NetworkPlan(key[2], key[3])
    [] key[1] = "edits" -> EditsPlan
    [] key[1] = "forwards" -> ForwardsPlan
    [] key[1] = "loads" -> LoadsPlan
    [] key[1] = "plain" -> PlainPlan
    [] key[1] = "old" -> OldPlan
    [] key[1] = "proxy" -> ProxyPlan
    [] key[1] = "user" -> UserPlan
    [] key[1] = "doctor" -> DoctorPlan
    [] key[1] = "checks" -> ChecksPlan
    [] key[1] = "logs" -> LogsPlan(FALSE, 0, Writing4)
    [] key[1] = "since" -> LogsPlan(FALSE, 2, Writing4)
    [] key[1] = "follow" -> LogsPlan(TRUE, 0, Writing3)
    [] key[1] = "cut" -> LogsPlan(TRUE, 0, Cutting)
=============================================================================
