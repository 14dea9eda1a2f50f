----------------------------- MODULE MCTransport -----------------------------
(* Instances of Transport for TLC; the .cfg files give the constants.      *)
EXTENDS TransportProps, TLC

\* The senders are interchangeable; sound for the safety run only.
Symmetry == Permutations(Senders)
=============================================================================
