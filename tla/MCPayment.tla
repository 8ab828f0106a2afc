------------------------------ MODULE MCPayment ------------------------------
(***************************************************************************)
(* InFlightLock and ExternalCallGuard for TLC. They have no variable in    *)
(* common and every property is about one of them, so it is enough to look *)
(* at behaviours in which one of them runs and the other never begins.     *)
(***************************************************************************)
EXTENDS InFlightLock, ExternalCallGuard

PaymentInit == PayInit /\ Init

PaymentNext ==
    \/ PayNext /\ Init /\ UNCHANGED vars
    \/ Next /\ PayInit /\ UNCHANGED payVars

PaymentSpec ==
    /\ PaymentInit /\ [][PaymentNext]_<<payVars, vars>>
    /\ PayFairness /\ GuardFairness

=============================================================================
