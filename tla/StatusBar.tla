------------------------------ MODULE StatusBar ------------------------------
(* What slstatus is for: each status of the bar shows a text of a module     *)
(* that was configured for it, and texts arrive in the order they were sent, *)
(* which is a matter of sending one at a time.  When it has been told to     *)
(* stop it no longer waits for that.                                         *)
EXTENDS Naturals

CONSTANTS
    Slots,      \* statuses of the bar
    Targets,    \* per module: the statuses its texts may go to
    Carriers    \* processes that carry a text to the bar

Modules == DOMAIN Targets

VARIABLES
    shown,      \* per status: the module whose text it shows, 0 if none
    onWay,      \* per carrier: the module and the status of its text, or none
    stopping,   \* whether it has been told to stop
    stopped     \* whether it has

vars == <<shown, onWay, stopping, stopped>>

None == [mod |-> 0, slot |-> <<>>]      \* what no carrier carries
Idle == {c \in Carriers : onWay[c] = None}

Init ==
    /\ shown = [s \in Slots |-> 0]
    /\ onWay = [c \in Carriers |-> None]
    /\ stopping = FALSE /\ stopped = FALSE

Publish(c) ==
    /\ ~stopped /\ c \in Idle
    /\ stopping \/ Idle = Carriers
    /\ \E m \in Modules : \E s \in Targets[m] :
          onWay' = [onWay EXCEPT ![c] = [mod |-> m, slot |-> s]]
    /\ UNCHANGED <<shown, stopping, stopped>>

Arrive(c) ==
    /\ c \in Carriers \ Idle
    /\ shown' = [shown EXCEPT ![onWay[c].slot] = onWay[c].mod]
    /\ onWay' = [onWay EXCEPT ![c] = None]
    /\ UNCHANGED <<stopping, stopped>>

Lose(c) ==
    /\ c \in Carriers \ Idle
    /\ onWay' = [onWay EXCEPT ![c] = None]
    /\ UNCHANGED <<shown, stopping, stopped>>

AskToStop == ~stopped /\ stopping' = TRUE /\ UNCHANGED <<shown, onWay, stopped>>
Stop == ~stopped /\ stopped' = TRUE /\ UNCHANGED <<shown, onWay, stopping>>

Next == (\E c \in Carriers : Publish(c) \/ Arrive(c) \/ Lose(c)) \/ AskToStop \/ Stop

Spec == Init /\ [][Next]_vars
=============================================================================
