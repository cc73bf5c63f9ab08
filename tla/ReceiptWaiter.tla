---------------------------- MODULE ReceiptWaiter ----------------------------
(***************************************************************************)
(* WaitForReceiptWithConfig (txutil, src/unnamed/part_002), the wait the   *)
(* pdp Manager runs after each send: a ticker-driven poll of               *)
(* TransactionReceipt under a context with a deadline, NotFound told apart *)
(* from RPC errors, and a counter of consecutive RPC errors.               *)
(*                                                                         *)
(* The select of the loop is modelled as it runs: once the deadline has    *)
(* passed, both ctx.Done() and a pending tick may be ready and Go picks    *)
(* either; a TransactionReceipt issued with an expired context fails with  *)
(* the context's error, which is not NotFound and so counts as an RPC      *)
(* error.  Time is abstracted to the number of ticks: MaxPolls is the      *)
(* number of ticks that fit in the timeout, and the deadline passes at     *)
(* some point after the polls, at the latest after the last of them.       *)
(***************************************************************************)
EXTENDS ReceiptChain, Sequences

CONSTANTS
    MaxConsecutiveErrors, \* ReceiptWaitConfig.MaxConsecutiveErrors (0: default)
    MaxPolls              \* ticks before the deadline (Timeout / PollInterval)

ASSUME RWConstantsAssumption ==
    /\ MaxConsecutiveErrors \in Nat
    /\ MaxPolls \in Nat

\* maxErrors after the defaulting of a zero configuration value.
maxErrors == IF MaxConsecutiveErrors = 0 THEN 5 ELSE MaxConsecutiveErrors

\* What a poll saw, kept as a history of the wait for the properties.
Answer == {"notFound", "rpcError", "receipt"}

VARIABLES
    rwState,            \* "polling" or how the call returned
    consecutiveErrors,
    pollCount,
    expired,            \* ctx.Done() is ready
    answers             \* history: the answer of every poll, in order

rwVars == <<rwState, consecutiveErrors, pollCount, expired, answers>>
vars == <<rwVars, chainVars>>

RWState == {"polling", "found", "failedStatus", "timeout", "rpcFailure"}

TypeOK ==
    /\ ChainTypeOK
    /\ rwState \in RWState
    /\ consecutiveErrors \in 0..maxErrors
    /\ pollCount \in 0..MaxPolls
    /\ expired \in BOOLEAN
    /\ answers \in Seq(Answer)
    /\ Len(answers) = pollCount

Init ==
    /\ ChainInit
    /\ rwState = "polling"
    /\ consecutiveErrors = 0
    /\ pollCount = 0
    /\ expired = FALSE
    /\ answers = <<>>

\* case <-ctx.Done(): return ErrReceiptTimeout.
CtxDone ==
    /\ rwState = "polling"
    /\ expired
    /\ rwState' = "timeout"
    /\ UNCHANGED <<consecutiveErrors, pollCount, expired, answers, chainVars>>

\* case <-ticker.C, the common part: pollCount++ and the call.
Tick(answer) ==
    /\ rwState = "polling"
    /\ pollCount < MaxPolls
    /\ pollCount' = pollCount + 1
    /\ answers' = Append(answers, answer)

\* Mutant: NotFound continues without resetting the counter.
PollNotFoundNoReset ==
    /\ Tick("notFound")
    /\ ~expired
    /\ mined = NotMined
    /\ UNCHANGED <<consecutiveErrors, rwState, expired, chainVars>>

\* errors.Is(err, ethereum.NotFound): reset the counter and continue.
PollNotFound ==
    /\ Tick("notFound")
    /\ ~expired
    /\ mined = NotMined
    /\ consecutiveErrors' = 0
    /\ UNCHANGED <<rwState, expired, chainVars>>

\* Mutant: the counter is incremented before the comparison with >, so
\* the wait gives up one error late.
PollRPCErrorLate ==
    /\ Tick("rpcError")
    /\ consecutiveErrors' = consecutiveErrors + 1
    /\ rwState' = IF consecutiveErrors > maxErrors THEN "rpcFailure" ELSE "polling"
    /\ UNCHANGED <<expired, chainVars>>

\* Any other error (the node, the connection, or the expired context):
\* count it; at maxErrors return ErrReceiptRPCFailure.
PollRPCError ==
    /\ Tick("rpcError")
    /\ consecutiveErrors' = consecutiveErrors + 1
    /\ rwState' = IF consecutiveErrors + 1 >= maxErrors THEN "rpcFailure" ELSE "polling"
    /\ UNCHANGED <<expired, chainVars>>

\* Mutant: the status of the receipt is not checked.
PollReceiptNoStatus ==
    /\ Tick("receipt")
    /\ ~expired
    /\ mined # NotMined
    /\ rwState' = "found"
    /\ UNCHANGED <<consecutiveErrors, expired, chainVars>>

\* A receipt: return it, with an error when its status is not successful.
PollReceipt ==
    /\ Tick("receipt")
    /\ ~expired
    /\ mined # NotMined
    /\ rwState' = IF mined = "successful" THEN "found" ELSE "failedStatus"
    /\ UNCHANGED <<consecutiveErrors, expired, chainVars>>

\* The deadline of context.WithTimeout passes.
Expire ==
    /\ rwState = "polling"
    /\ ~expired
    /\ expired' = TRUE
    /\ UNCHANGED <<rwState, consecutiveErrors, pollCount, answers, chainVars>>

Chain ==
    /\ ChainNext
    /\ UNCHANGED rwVars

Next ==
    \/ CtxDone \/ PollNotFound \/ PollRPCError \/ PollReceipt
    \/ Expire \/ Chain

Spec == Init /\ [][Next]_vars

\* The deadline of context.WithTimeout comes, and the select then returns
\* through ctx.Done() unless a tick returns first: the runtime guarantees
\* both, nothing else is assumed (the node may answer anything).
FairSpec == Spec /\ WF_vars(Expire) /\ WF_vars(CtxDone)

-----------------------------------------------------------------------------
(* Properties *)

\* Number of RPC errors at the end of the history, since the last other
\* answer.
TrailingErrors ==
    LET k == Len(answers)
        streaks == {j \in 0..k : \A i \in (k - j + 1)..k : answers[i] = "rpcError"}
    IN  CHOOSE j \in streaks : \A i \in streaks : i <= j

\* The spec's scenario for the consecutive-error tolerance: the wait is
\* still polling exactly while fewer than maxErrors RPC errors have come
\* in a row (a NotFound in between starts the count again), and it gives
\* up with ErrReceiptRPCFailure exactly at the maxErrors-th.
ErrorStreakRespected ==
    /\ rwState = "polling" => TrailingErrors < maxErrors
    /\ rwState = "rpcFailure" => TrailingErrors = maxErrors

\* WaitForReceiptWithConfig implements the promise of a receipt wait
\* (ReceiptWait, no confirmation depth): how it returns is justified by
\* the chain and the deadline, and, the deadline being certain, it returns.
RW == INSTANCE ReceiptWait WITH
        depth <- 0,
        result <- CASE rwState = "polling"      -> "pending"
                    [] rwState = "found"        -> "confirmed"
                    [] rwState = "failedStatus" -> "failedOnchain"
                    [] rwState = "timeout"      -> "timedOut"
                    [] rwState = "rpcFailure"   -> "rpcUnavailable"

ImplementsReceiptWait == RW!WaitFairSpec

=============================================================================
