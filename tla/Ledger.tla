------------------------------- MODULE Ledger -------------------------------
(***************************************************************************)
(* What a person who submits a report is promised.                         *)
(*                                                                         *)
(* A write that the app hands over is first only in memory.  A crash loses *)
(* the writes that are still there, all at once.  A write that was put on  *)
(* disk is kept until the server has stored it or refused it, whatever     *)
(* happens to the phone and whoever signs in meanwhile; nothing reaches    *)
(* the server that was not handed over and kept.  Queues, users, streams,  *)
(* answers and screens are left out.                                       *)
(***************************************************************************)
EXTENDS Naturals

CONSTANTS
    Accounts,     \* whose documents the server holds
    NoProfile     \* an account without a profile

VARIABLES
    waiting,      \* writes handed over, in memory
    kept,         \* writes on disk
    stored,       \* reports that the server holds
    profile,      \* the profile that the server holds for each account
    refused,      \* the numbers of the writes that it refused
    handed        \* how many writes have been handed over

ledger == <<waiting, kept, stored, profile, refused, handed>>

Init ==
    /\ waiting = {} /\ kept = {} /\ stored = {} /\ refused = {}
    /\ profile = [u \in Accounts |-> NoProfile]
    /\ handed = 0

\* The app hands a write over; writes are numbered.
HandOver(kind, owner, data) ==
    /\ handed' = handed + 1
    /\ waiting' = waiting \cup {[id |-> handed', kind |-> kind, owner |-> owner, data |-> data]}
    /\ UNCHANGED <<kept, stored, profile, refused>>

\* It reaches the disk.
Keep(w) ==
    /\ w \in waiting
    /\ waiting' = waiting \ {w}
    /\ kept' = kept \cup {w}
    /\ UNCHANGED <<stored, profile, refused, handed>>

\* The server stores a kept write, for the first time or again.
Store(w) ==
    /\ w \in kept
    /\ \/ /\ w.kind = "form"
          /\ stored' = stored \cup {w}
          /\ UNCHANGED profile
       \/ /\ w.kind = "profile"
          /\ profile' = [profile EXCEPT ![w.owner] = w.data]
          /\ UNCHANGED stored
    /\ UNCHANGED <<waiting, kept, refused, handed>>

Refuse(w) ==
    /\ w \in kept
    /\ refused' = refused \cup {w.id}
    /\ UNCHANGED <<waiting, kept, stored, profile, handed>>

Decided(w) ==
    \/ w.id \in refused
    \/ w.kind = "form" /\ w \in stored
    \/ w.kind = "profile" /\ profile[w.owner] = w.data

\* A kept write is given up only once the server has decided on it.
GiveUp(w) ==
    /\ w \in kept /\ Decided(w)
    /\ kept' = kept \ {w}
    /\ UNCHANGED <<waiting, stored, profile, refused, handed>>

Crash ==
    /\ waiting' = {}
    /\ UNCHANGED <<kept, stored, profile, refused, handed>>

Next ==
    \/ \E kind \in {"profile", "form"}, owner, data \in Accounts : HandOver(kind, owner, data)
    \/ \E w \in waiting : Keep(w)
    \/ \E w \in kept : Store(w) \/ Refuse(w) \/ GiveUp(w)
    \/ Crash

Spec == Init /\ [][Next]_ledger
=============================================================================
