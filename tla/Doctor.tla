------------------------------- MODULE Doctor -------------------------------
(***************************************************************************)
(* The seven checks of `nhop doctor`, their report and its exit code.      *)
(* Source: src/nhop/src/cli/doctor.rs.  What a check says when it fails is *)
(* left out; whether it passed is what the exit code is made of.           *)
(***************************************************************************)
EXTENDS SystemProxy

CHECKS == <<"daemon_reachable", "ports_bound", "system_proxy", "upstream_reachable",
            "init_file", "last_load", "log_writable">>

CheckNames == {CHECKS[i] : i \in DOMAIN CHECKS}

\* What is found at the paths of the init script and of the log's directory.
InitFiles == {"missing", "not_file", "plain", "executable"}
LogDirs == {"missing", "not_dir", "locked", "writable"}

PortsBound(bound) == bound
InitFileOk(found) == found = "executable"
LastLoadOk(last) == last = "ok"
LogWritable(found) == found = "writable"

\* Fault: a setting that is off is passed over.
SystemProxyOkOff(read, listen) ==
  \A i \in DOMAIN read :
    read[i] # Nowhere => EndpointSpelled(read[i]) = AddressSpelled(AddressOf(ProxyKinds[i], listen))

\* read: the three settings, or fewer when one could not be read.
SystemProxyOk(read, listen) ==
  /\ Len(read) = 3
  /\ \A i \in DOMAIN read :
       /\ read[i] # Nowhere
       /\ EndpointSpelled(read[i]) = AddressSpelled(AddressOf(ProxyKinds[i], listen))

\* Every upstream is dialled, each on its own; reached: the entries that answered
\* theirs.  One is enough, and there has to be one.
UpstreamReachable(entries, reached) == \E i \in DOMAIN entries : i \in reached

\* findings: the outcome of each check made; one that was not made has failed.
Report(findings) ==
  [i \in DOMAIN CHECKS |->
     [name |-> CHECKS[i], ok |-> CHECKS[i] \in DOMAIN findings /\ findings[CHECKS[i]]]]

\* An upstream that is down is the one failure with a code of its own.
ExitOf(checks) ==
  LET failed == {checks[i].name : i \in {j \in DOMAIN checks : ~checks[j].ok}}
  IN  CASE failed = {} -> 0
        [] failed = {"upstream_reachable"} -> 3
        [] OTHER -> 1
=============================================================================
