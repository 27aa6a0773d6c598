------------------------------ MODULE Dispatch ------------------------------
(***************************************************************************)
(* DataController.sendSignal: a submitted report is offered to the         *)
(* municipalities one after the other.                                     *)
(***************************************************************************)
EXTENDS Region

CONSTANTS
    Missing,          \* nil
    ReportLocations   \* where reports are made

\* CLLocationCoordinate2D.init(), the location of every municipality there is.
Zero == [latitude |-> 0, longitude |-> 0]
Municipalities == {"Sofia", "Blagoevgrad", "Varna"}
Location == [m \in Municipalities |-> Zero]

VARIABLES
    form,       \* where the report in forms.last was made
    waiting,    \* the municipalities the loop has not come to
    received    \* each municipality's forms: nil, since init leaves them so, or a set

vars == <<form, waiting, received>>

Init ==
    /\ form \in ReportLocations
    /\ waiting = Municipalities
    /\ received = [m \in Municipalities |-> Missing]

\* sendForm: forms?.append(form).
Received(m) == IF received[m] = Missing THEN Missing ELSE received[m] \cup {form}

Offer(m) ==
    /\ waiting' = waiting \ {m}
    /\ received' = IF LiesInside(form, <<Location[m]>>)
                   THEN [received EXCEPT ![m] = Received(m)]
                   ELSE received
    /\ UNCHANGED form

Next == \E m \in waiting : Offer(m)

Spec == Init /\ [][Next]_vars

\* "send signal to the corresponding municipality" (DataController:48): a report made
\* at the very place of a municipality has reached it when the loop ends.
CorrespondingMunicipalityReceives ==
    waiting = {} =>
        \A m \in Municipalities :
            form = Location[m] => received[m] # Missing /\ form \in received[m]
=============================================================================
