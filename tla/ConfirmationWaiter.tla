-------------------------- MODULE ConfirmationWaiter --------------------------
(***************************************************************************)
(* WaitForConfirmation (txutil, second version in src/unnamed/part_002),   *)
(* the wait of WaitForTransactionWithRetry: every tick it fetches the      *)
(* receipt and, when a confirmation depth is asked for, the head height;   *)
(* NotFound resets a counter of consecutive errors, other errors count,    *)
(* and five of them end the wait.  It has no deadline of its own: it ends  *)
(* on ctx.Done() only when the caller's context ends, which the model lets *)
(* happen at any time or never.                                            *)
(***************************************************************************)
EXTENDS ReceiptChain, Sequences

CONSTANTS
    MaxConfirmations,  \* the calls checked ask for 0..MaxConfirmations
    MaxPolls           \* the model stops the ticker after this many ticks

ASSUME CWConstantsAssumption ==
    /\ MaxConfirmations \in Nat
    /\ MaxPolls \in Nat

\* The limit written in the code (consecutiveErrors >= 5).
ErrorLimit == 5

\* What a poll saw: the receipt lookup's answer, and for a found receipt
\* when a depth is required, what BlockNumber gave.
Answer == {"notFound", "rpcError", "receipt", "headError", "shallow"}

VARIABLES
    cwState,            \* "polling" or how the call returned
    consecutiveErrors,
    pollCount,
    expired,            \* the caller's ctx is done
    answers,            \* history: the answer of every poll, in order
    confirmations       \* the argument of the call

cwVars == <<cwState, consecutiveErrors, pollCount, expired, answers, confirmations>>
vars == <<cwVars, chainVars>>

CWState == {"polling", "found", "failedStatus", "canceled", "rpcFailure"}

TypeOK ==
    /\ ChainTypeOK
    /\ cwState \in CWState
    /\ consecutiveErrors \in 0..ErrorLimit
    /\ pollCount \in 0..MaxPolls
    /\ expired \in BOOLEAN
    /\ answers \in Seq(Answer)
    /\ confirmations \in 0..MaxConfirmations

Init ==
    /\ ChainInit
    /\ cwState = "polling"
    /\ consecutiveErrors = 0
    /\ pollCount = 0
    /\ expired = FALSE
    /\ answers = <<>>
    /\ confirmations \in 0..MaxConfirmations

\* case <-ctx.Done(): return ctx.Err().
CtxDone ==
    /\ cwState = "polling"
    /\ expired
    /\ cwState' = "canceled"
    /\ UNCHANGED <<consecutiveErrors, pollCount, expired, answers, confirmations, chainVars>>

\* case <-ticker.C: pollCount++, and what the calls answered.
Tick(answer) ==
    /\ cwState = "polling"
    /\ pollCount < MaxPolls
    /\ pollCount' = pollCount + 1
    /\ answers' = Append(answers, answer)

\* consecutiveErrors after another error: give up at the fifth in a row.
AfterError(count) == IF count >= ErrorLimit THEN "rpcFailure" ELSE "polling"

\* The receipt lookup answers NotFound: reset the counter, continue.
PollNotFound ==
    /\ Tick("notFound")
    /\ ~expired
    /\ mined = NotMined
    /\ consecutiveErrors' = 0
    /\ UNCHANGED <<cwState, expired, confirmations, chainVars>>

\* Mutant: the error is counted but the count is never compared.
PollRPCErrorNoLimit ==
    /\ Tick("rpcError")
    /\ consecutiveErrors' = consecutiveErrors + 1
    /\ UNCHANGED <<cwState, expired, confirmations, chainVars>>

\* The receipt lookup fails otherwise (also any lookup issued once the
\* caller's context is done).
PollRPCError ==
    /\ Tick("rpcError")
    /\ consecutiveErrors' = consecutiveErrors + 1
    /\ cwState' = AfterError(consecutiveErrors + 1)
    /\ UNCHANGED <<expired, confirmations, chainVars>>

\* A receipt whose status is not successful: return it with an error.
PollFailedStatus ==
    /\ Tick("receipt")
    /\ ~expired
    /\ mined = "failed"
    /\ consecutiveErrors' = 0
    /\ cwState' = "failedStatus"
    /\ UNCHANGED <<expired, confirmations, chainVars>>

\* A successful receipt and no depth required: return it.
PollNoDepth ==
    /\ Tick("receipt")
    /\ ~expired
    /\ mined = "successful"
    /\ confirmations = 0
    /\ consecutiveErrors' = 0
    /\ cwState' = "found"
    /\ UNCHANGED <<expired, confirmations, chainVars>>

\* A successful receipt resets the counter (consecutiveErrors = 0), then
\* BlockNumber fails and counts an error (consecutiveErrors++): the count
\* starts again from 0 at every such poll.  BlockNumber may fail whether
\* or not the context has ended meanwhile.
PollHeadError ==
    /\ Tick("headError")
    /\ mined = "successful"
    /\ confirmations > 0
    /\ consecutiveErrors' = 0 + 1
    /\ cwState' = AfterError(0 + 1)
    /\ UNCHANGED <<expired, confirmations, chainVars>>

\* Mutant: the depth is not compared with the confirmations asked for.
PollDepthIgnored ==
    /\ Tick(IF minedBlock <= head THEN "receipt" ELSE "shallow")
    /\ ~expired
    /\ mined = "successful"
    /\ confirmations > 0
    /\ consecutiveErrors' = 0
    /\ cwState' = IF minedBlock <= head THEN "found" ELSE "polling"
    /\ UNCHANGED <<expired, confirmations, chainVars>>

\* A successful receipt and the head: return once the receipt's block is
\* confirmations deep, else reset the counter and continue.
PollDepth ==
    /\ Tick(IF minedBlock + confirmations <= head THEN "receipt" ELSE "shallow")
    /\ ~expired
    /\ mined = "successful"
    /\ confirmations > 0
    /\ consecutiveErrors' = 0
    /\ cwState' = IF minedBlock + confirmations <= head THEN "found" ELSE "polling"
    /\ UNCHANGED <<expired, confirmations, chainVars>>

\* The caller's context ends (cancelled, or its own deadline).
Expire ==
    /\ cwState = "polling"
    /\ ~expired
    /\ expired' = TRUE
    /\ UNCHANGED <<cwState, consecutiveErrors, pollCount, answers, confirmations, chainVars>>

Chain ==
    /\ ChainNext
    /\ UNCHANGED cwVars

Next ==
    \/ CtxDone \/ PollNotFound \/ PollRPCError \/ PollFailedStatus
    \/ PollNoDepth \/ PollHeadError \/ PollDepth \/ Expire \/ Chain

Spec == Init /\ [][Next]_vars

-----------------------------------------------------------------------------
(* Properties *)

\* Number of polls at the end of the history in which the receipt was
\* found and BlockNumber then failed.
TrailingHeadErrors ==
    LET k == Len(answers)
        streaks == {j \in 0..k : \A i \in (k - j + 1)..k : answers[i] = "headError"}
    IN  CHOOSE j \in streaks : \A i \in streaks : i <= j

\* The design's tolerance of RPC errors (spec 4.5): every network error
\* other than NotFound counts, and reaching the limit ends the wait with
\* RPC_UNAVAILABLE.  A node whose BlockNumber fails on five polls in a row,
\* with nothing but the same receipt in between, keeps failing: the wait
\* should have given up.  The code resets the counter on the receipt
\* (line 141) before BlockNumber fails, so the count never passes 1.
ErrorPollsBounded ==
    cwState = "polling" => TrailingHeadErrors < ErrorLimit

\* WaitForConfirmation implements the safety of a receipt wait with a
\* confirmation depth: it returns the receipt only for a successful
\* transaction `confirmations' blocks deep, a failure only for a failed one,
\* and a cancellation only once the context is done.
CW == INSTANCE ReceiptWait WITH
        depth <- confirmations,
        result <- CASE cwState = "polling"      -> "pending"
                    [] cwState = "found"        -> "confirmed"
                    [] cwState = "failedStatus" -> "failedOnchain"
                    [] cwState = "canceled"     -> "timedOut"
                    [] cwState = "rpcFailure"   -> "rpcUnavailable"

ImplementsReceiptWait == CW!WaitSpec

=============================================================================
