-------------------------- MODULE MCControllerLoop --------------------------
(***************************************************************************)
(* Instances of ControllerLoop for TLC.                                    *)
(***************************************************************************)
EXTENDS ControllerLoop

\* The three ways Reconcile can go: an early return before and one after the
\* capability check, and the full run.
MCThreeKinds == {"valid", "disabled", "badNamespaces"}

\* One early return and the full run, for the run that is slow.
MCTwoKinds == {"valid", "disabled"}

=============================================================================
