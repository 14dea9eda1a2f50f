---------------------------- MODULE MCSignalGuard ----------------------------
(* Small instances of SignalGuard.                                         *)
EXTENDS SignalGuardProps, TLC

CONSTANTS SEGV, BUS, KILL, ILL

\* The chain of install_signal_handlers; SIGFPE is treated like SIGILL.
Chain == <<SEGV, BUS, KILL, ILL>>

Symmetry == Permutations(Threads)
=============================================================================
