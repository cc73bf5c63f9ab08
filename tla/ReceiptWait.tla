----------------------------- MODULE ReceiptWait -----------------------------
(***************************************************************************)
(* What a receipt wait promises its caller, as the design states it: it    *)
(* ends CONFIRMED only for a successful transaction buried `depth' blocks  *)
(* deep, FAILED_ONCHAIN only for a mined transaction that failed,          *)
(* TIMED_OUT only once its deadline has passed, RPC_UNAVAILABLE when the   *)
(* node keeps failing, and, when it has a deadline, it ends.  The detailed *)
(* waiters (ReceiptWaiter, ConfirmationWaiter) are shown to implement it.  *)
(***************************************************************************)
EXTENDS ReceiptChain

VARIABLES
    result,   \* "pending" until the wait returns
    expired,  \* the context's deadline has passed
    depth     \* the confirmations asked for (0: the receipt suffices);
              \* an argument of the call, it never changes

waitVars == <<result, expired, depth, chainVars>>

Outcome == {"confirmed", "failedOnchain", "timedOut", "rpcUnavailable"}

WaitInit ==
    /\ ChainInit
    /\ result = "pending"
    /\ expired = FALSE
    /\ depth \in Nat

Confirm ==
    /\ result = "pending"
    /\ mined = "successful"
    /\ minedBlock + depth <= head
    /\ result' = "confirmed"
    /\ UNCHANGED <<expired, depth, chainVars>>

FailOnchain ==
    /\ result = "pending"
    /\ mined = "failed"
    /\ result' = "failedOnchain"
    /\ UNCHANGED <<expired, depth, chainVars>>

TimeOut ==
    /\ result = "pending"
    /\ expired
    /\ result' = "timedOut"
    /\ UNCHANGED <<expired, depth, chainVars>>

GiveUp ==
    /\ result = "pending"
    /\ result' = "rpcUnavailable"
    /\ UNCHANGED <<expired, depth, chainVars>>

Expire ==
    /\ result = "pending"
    /\ ~expired
    /\ expired' = TRUE
    /\ UNCHANGED <<result, depth, chainVars>>

Chain ==
    /\ ChainNext
    /\ UNCHANGED <<result, expired, depth>>

WaitNext == Confirm \/ FailOnchain \/ TimeOut \/ GiveUp \/ Expire \/ Chain

WaitSpec == WaitInit /\ [][WaitNext]_waitVars

\* A wait with a deadline: the deadline comes, and a wait past its
\* deadline returns.
WaitFairSpec == WaitSpec /\ WF_waitVars(Expire) /\ WF_waitVars(TimeOut)

=============================================================================
