--------------------------- MODULE OrderedUpload ---------------------------
(***************************************************************************)
(* What the upload of writes promises: every user's writes reach the       *)
(* server one after the other in the order they were made, and one leaves  *)
(* the phone once the server has decided on it.  Streams, pipelines,       *)
(* answers, time-outs and restarts are left out.                           *)
(***************************************************************************)
EXTENDS Naturals, Sequences

CONSTANT Users

VARIABLES
    owner,        \* who made each write, in the order they were made
    waiting,      \* for each user, the writes on the phone, by their numbers
    committed,    \* the writes that the server has stored
    refused       \* and those that it has refused

Init ==
    /\ owner = <<>>
    /\ waiting = [u \in Users |-> <<>>]
    /\ committed = {} /\ refused = {}

Make(u) ==
    /\ owner' = Append(owner, u)
    /\ waiting' = [waiting EXCEPT ![u] = Append(@, Len(owner) + 1)]
    /\ UNCHANGED <<committed, refused>>

\* The server decides on a write, perhaps again, and on none before its elder ones.
Decide(n) ==
    /\ \A m \in 1..(n - 1) : owner[m] = owner[n] => m \in committed \cup refused
    /\ \/ committed' = committed \cup {n} /\ UNCHANGED refused
       \/ refused' = refused \cup {n} /\ UNCHANGED committed
    /\ UNCHANGED <<owner, waiting>>

Release(u) ==
    /\ waiting[u] # <<>> /\ Head(waiting[u]) \in committed \cup refused
    /\ waiting' = [waiting EXCEPT ![u] = Tail(@)]
    /\ UNCHANGED <<owner, committed, refused>>

Next ==
    \/ \E u \in Users : Make(u) \/ Release(u)
    \/ \E n \in DOMAIN owner : Decide(n)

Spec == Init /\ [][Next]_<<owner, waiting, committed, refused>>
=============================================================================
