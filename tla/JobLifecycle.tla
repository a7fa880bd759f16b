---------------------------- MODULE JobLifecycle ----------------------------
(***************************************************************************)
(* What the job subsystem promises about an execution, without tables,     *)
(* queues, leases or tokens: it is accepted, started at most once, and     *)
(* settled; once it was started an outcome that is in doubt is only ever   *)
(* settled, never started again.                                           *)
(***************************************************************************)
EXTENDS Naturals

CONSTANT Execs

VARIABLES phase, starts

Phases == {"absent", "accepted", "running", "ambiguous", "settled"}

Init ==
    /\ phase = [e \in Execs |-> "absent"]
    /\ starts = [e \in Execs |-> 0]

Move(e, from, to) ==
    /\ phase[e] \in from
    /\ phase' = [phase EXCEPT ![e] = to]

Accept(e) == Move(e, {"absent"}, "accepted") /\ UNCHANGED starts

Start(e) ==
    /\ Move(e, {"accepted"}, "running")
    /\ starts' = [starts EXCEPT ![e] = @ + 1]

Doubt(e) == Move(e, {"running"}, "ambiguous") /\ UNCHANGED starts

Settle(e) ==
    Move(e, {"accepted", "running", "ambiguous"}, "settled") /\ UNCHANGED starts

\* A new execution takes the place of one whose outcome is not in doubt.
Supersede(e, n) ==
    /\ phase[e] \in {"accepted", "running", "settled"}
    /\ phase[n] = "absent"
    /\ phase' = [phase EXCEPT ![e] = "settled", ![n] = "accepted"]
    /\ UNCHANGED starts

Next ==
    \E e \in Execs :
        \/ Accept(e) \/ Start(e) \/ Doubt(e) \/ Settle(e)
        \/ \E n \in Execs : Supersede(e, n)

Spec == Init /\ [][Next]_<<phase, starts>>
=============================================================================
