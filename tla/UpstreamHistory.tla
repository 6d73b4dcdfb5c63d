--------------------------- MODULE UpstreamHistory ---------------------------
(***************************************************************************)
(* The upstream hop with a history of what the probes answered: a record   *)
(* of each probe of the round in progress and of the round before it, kept *)
(* beside the specification and read by no action of it.                   *)
(***************************************************************************)
EXTENDS Upstream

VARIABLE answers

hvars == <<lists, verdict, dial, patrol, observed, logged, answers>>

Answer == [health : Handles, seen : HealthStates]

HInit == Init /\ answers = [before |-> {}, this |-> {}]

\* A round begins: what was answered last becomes the round before.
HRoundStarts == RoundStarts /\ answers' = [before |-> answers.this, this |-> {}]

HProbeReturns(h, seen) ==
  /\ ProbeReturns(h, seen)
  /\ answers' = [answers EXCEPT !.this = @ \cup {[health |-> h, seen |-> seen]}]

HNext ==
  \/ HRoundStarts
  \/ \E h \in Handles, seen \in HealthStates : HProbeReturns(h, seen)
  \/ UNCHANGED answers /\ ( \/ Tick
                            \/ \E next \in Lists : Publish(next)
                            \/ \E d \in Dials : DialStep(d)
                            \/ RoundEnds
                            \/ PatrolObserves )

HSpec == HInit /\ [][HNext]_hvars

-----------------------------------------------------------------------------
\* Shapes of the history.
HTypeOK == answers \in [before : SUBSET Answer, this : SUBSET Answer]

\* Every pending sequence rests on an answer about its own handle: of the round
\* before while its probe is out in this one, of this round once it is joined.
PendingAnswered ==
  \A p \in patrol.pending :
    [health |-> p.health, seen |-> p.target] \in
      IF p.health \in patrol.out THEN answers.before ELSE answers.this

\* A probe moves a verdict only when the probe of the round before, of the same
\* handle, saw the same: not on one stray answer, not across a dial that turned
\* the verdict in between, not across a removal of the address.
TwoProbesAgree ==
  [][\A h \in Handles :
       TurnedByProbe(h) => [health |-> h, seen |-> verdict'[h].state] \in answers.before]_hvars

=============================================================================
