----------------------------- MODULE AtomicLoad -----------------------------
(***************************************************************************)
(* What the README promises of loads: "Loads are atomic" - an init script  *)
(* replaces the configuration with all it declares, at one instant, or     *)
(* leaves the routing alone; while it runs nobody edits the configuration. *)
(* There is no staging here, no load id, no process and no queue.          *)
(***************************************************************************)
EXTENDS Config

CONSTANTS Scripts,      \* a script by the path of its file
          DefaultPort   \* where the front ends listen at first

\* A step is a command, and whether the script waits for the answer to it.
Steps == {[op |-> c.op, arg |-> c.arg, waited |-> w] : c \in Commands, w \in BOOLEAN}

VARIABLES config, running
vars == <<config, running>>

Boot == [Nothing EXCEPT !.listen = DefaultPort]

\* The orders the steps of a script may take effect in, none of them twice: every
\* step it waits for comes before whatever follows it, and one it does not wait
\* for may be late, or too late to count.
Orders(script) ==
  LET waited == {k \in DOMAIN script : script[k].waited} IN
  {order \in UNION {[1..n -> DOMAIN script] : n \in 0..Len(script)} :
     /\ \A i, j \in DOMAIN order : order[i] = order[j] => i = j
     /\ \A k \in waited : \E i \in DOMAIN order : order[i] = k
     /\ \A i, j \in DOMAIN order : order[i] \in waited /\ order[i] < order[j] => i < j}

\* What a script has declared after each of its steps, taken in an order.
Stages(script, order) ==
  LET stage[n \in 0..Len(order)] ==
        IF n = 0 THEN Nothing ELSE Applied(stage[n - 1], script[order[n]])
  IN  stage

Init == config = Boot /\ running = Unset

Edit == /\ running = Unset
        /\ \E c \in Commands : ~Invalid(config, c) /\ config' = Applied(config, c)
        /\ UNCHANGED running

Begin == /\ running = Unset
         /\ running' \in DOMAIN Scripts
         /\ UNCHANGED config

\* None of the steps is refused.
Commit ==
  /\ running # Unset
  /\ running' = Unset
  /\ LET script == Scripts[running] IN
     \E order \in Orders(script) :
       /\ \A n \in DOMAIN order : ~Invalid(Stages(script, order)[n - 1], script[order[n]])
       /\ config' = Replaced(config, Stages(script, order)[Len(order)])

\* A load that fails leaves the routing alone, though its front ends may have
\* moved already.
Discard == /\ running # Unset
           /\ running' = Unset
           /\ \E listen \in Ports : config' \in {config, Moved(config, listen)}

Restart == config' = Boot /\ running' = Unset

Next == Edit \/ Begin \/ Commit \/ Discard \/ Restart

Spec == Init /\ [][Next]_vars

=============================================================================
