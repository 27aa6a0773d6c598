----------------------------- MODULE MCSession -----------------------------
(* Session on a small instance: two people who pass the phone between them. *)
EXTENDS Session, TLC

\* The people are interchangeable: no definition of Session names one.
PersonSymmetry == Permutations(Persons)
=============================================================================
