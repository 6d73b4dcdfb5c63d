----------------------------- MODULE SystemProxy -----------------------------
(***************************************************************************)
(* The proxy settings macOS keeps for a network service, the calls of      *)
(* networksetup that change them, and what is read back.                   *)
(* Source: src/nhop/src/cli/system_proxy.rs.                               *)
(***************************************************************************)
EXTENDS Integers, Sequences

CONSTANTS Addresses,   \* socket addresses a front end can have
          V6           \* those of them that are IPv6

ProxyKinds == <<"http", "https", "socks">>

\* A setting is on or off, and keeps its server and port while it is off.  No
\* address, or one whose server is empty or port zero, is nowhere to connect to.
Nowhere == "nowhere"
ASSUME AddressesAssumption == V6 \subseteq Addresses /\ Nowhere \notin Addresses

Setting == [on : BOOLEAN, at : Addresses \cup {Nowhere}]
Settings == [{"http", "https", "socks"} -> Setting]

AddressOf(kind, listen) == IF kind = "socks" THEN listen.socks ELSE listen.http

\* One invocation of networksetup: a setting pointed somewhere and turned on,
\* a setting turned off, or the bypass list.
Enabling(listen) ==
  [i \in 1..4 |-> IF i = 4 THEN [flag |-> "bypass", kind |-> "http", at |-> Nowhere]
                  ELSE [flag |-> "write", kind |-> ProxyKinds[i],
                        at |-> AddressOf(ProxyKinds[i], listen)]]

Disabling == [i \in 1..3 |-> [flag |-> "state", kind |-> ProxyKinds[i], at |-> Nowhere]]

Invoked(settings, invocation) ==
  CASE invocation.flag = "write" ->
         [settings EXCEPT ![invocation.kind] = [on |-> TRUE, at |-> invocation.at]]
    [] invocation.flag = "state" -> [settings EXCEPT ![invocation.kind].on = FALSE]
    [] OTHER -> settings

\* The report of one setting, read: nothing when it is off or names no address.
ParseReport(setting) == IF setting.on THEN setting.at ELSE Nowhere

\* The two spellings that are compared: host:port of a setting, whatever the
\* host is, and a socket address, which puts an IPv6 host in brackets.
EndpointSpelled(address) == [host |-> address, bracketed |-> FALSE]
AddressSpelled(address) == [host |-> address, bracketed |-> address \in V6]
=============================================================================
