----------------------- MODULE ConfirmationWaiterProofs -----------------------
(***************************************************************************)
(* Proofs about WaitForConfirmation (ConfirmationWaiter), for every        *)
(* MaxConfirmations, MaxPolls and MaxHead: its states are well typed, and  *)
(* every step it takes is a step of the abstract receipt wait with the     *)
(* confirmation depth of the call (ReceiptWait).                           *)
(***************************************************************************)
EXTENDS ConfirmationWaiter, TLAPS

\* The chain never reports a receipt above its head.
MinedBelowHead == minedBlock <= head

\* A wait still polling has counted fewer than five errors in a row.
PollingBelowLimit == cwState = "polling" => consecutiveErrors < ErrorLimit

IInv == TypeOK /\ MinedBelowHead /\ PollingBelowLimit

-----------------------------------------------------------------------------

LEMMA InitIInv == Init => IInv
<1> SUFFICES ASSUME Init PROVE IInv
    OBVIOUS
<1>1. ChainTypeOK /\ MinedBelowHead
    BY MaxHeadAssumption
    DEF Init, ChainTypeOK, ChainInit, TxStatus, NotMined, MinedBelowHead
<1>2. cwState \in CWState /\ expired \in BOOLEAN
    BY DEF Init, CWState
<1>3. consecutiveErrors \in 0..ErrorLimit /\ PollingBelowLimit
    BY DEF Init, ErrorLimit, PollingBelowLimit
<1>4. pollCount \in 0..MaxPolls /\ answers \in Seq(Answer)
      /\ confirmations \in 0..MaxConfirmations
    BY CWConstantsAssumption DEF Init
<1>5. QED
    BY <1>1, <1>2, <1>3, <1>4 DEF IInv, TypeOK

\* The steps of the waiter leave the chain alone; the chain's steps keep
\* the receipt at or below the head.
LEMMA StepChain == IInv /\ [Next]_vars => (ChainTypeOK /\ MinedBelowHead)'
<1> SUFFICES ASSUME IInv, [Next]_vars PROVE (ChainTypeOK /\ MinedBelowHead)'
    OBVIOUS
<1>1. CASE Chain
    BY <1>1, MaxHeadAssumption
    DEF IInv, TypeOK, Chain, ChainNext, MineTx, NewBlock, ChainTypeOK, MinedBelowHead
<1>2. CASE ~Chain
    <2>1. UNCHANGED chainVars
        BY <1>2 DEF Next, vars, cwVars, CtxDone, PollNotFound, PollRPCError,
                    PollFailedStatus, PollNoDepth, PollHeadError, PollDepth, Expire
    <2>2. QED
        BY <2>1 DEF IInv, TypeOK, chainVars, ChainTypeOK, MinedBelowHead
<1>3. QED
    BY <1>1, <1>2

\* The waiter's own variables keep their types, and a wait that keeps
\* polling has fewer than five errors in a row.
LEMMA StepWaiter ==
    IInv /\ [Next]_vars =>
        /\ cwState' \in CWState
        /\ consecutiveErrors' \in 0..ErrorLimit
        /\ pollCount' \in 0..MaxPolls
        /\ expired' \in BOOLEAN
        /\ answers' \in Seq(Answer)
        /\ confirmations' \in 0..MaxConfirmations
        /\ PollingBelowLimit'
<1> SUFFICES ASSUME IInv, [Next]_vars
             PROVE  /\ cwState' \in CWState
                    /\ consecutiveErrors' \in 0..ErrorLimit
                    /\ pollCount' \in 0..MaxPolls
                    /\ expired' \in BOOLEAN
                    /\ answers' \in Seq(Answer)
                    /\ confirmations' \in 0..MaxConfirmations
                    /\ PollingBelowLimit'
    OBVIOUS
<1>0. /\ cwState \in CWState /\ consecutiveErrors \in 0..ErrorLimit
      /\ pollCount \in 0..MaxPolls /\ expired \in BOOLEAN
      /\ answers \in Seq(Answer) /\ confirmations \in 0..MaxConfirmations
      /\ cwState = "polling" => consecutiveErrors < ErrorLimit
      /\ MaxPolls \in Nat
    BY CWConstantsAssumption DEF IInv, TypeOK, PollingBelowLimit
<1> USE DEF CWState, ErrorLimit, PollingBelowLimit
<1>1. CASE CtxDone
    BY <1>0, <1>1 DEF CtxDone
<1>2. CASE PollNotFound
    BY <1>0, <1>2 DEF PollNotFound, Tick, Answer
<1>3. CASE PollRPCError
    BY <1>0, <1>3 DEF PollRPCError, Tick, Answer, AfterError
<1>4. CASE PollFailedStatus
    BY <1>0, <1>4 DEF PollFailedStatus, Tick, Answer
<1>5. CASE PollNoDepth
    BY <1>0, <1>5 DEF PollNoDepth, Tick, Answer
<1>6. CASE PollHeadError
    BY <1>0, <1>6 DEF PollHeadError, Tick, Answer, AfterError
<1>7. CASE PollDepth
    BY <1>0, <1>7 DEF PollDepth, Tick, Answer
<1>8. CASE Expire
    BY <1>0, <1>8 DEF Expire
<1>9. CASE Chain
    BY <1>0, <1>9 DEF Chain, cwVars
<1>10. CASE UNCHANGED vars
    BY <1>0, <1>10 DEF vars, cwVars
<1>11. QED
    BY <1>1, <1>2, <1>3, <1>4, <1>5, <1>6, <1>7, <1>8, <1>9, <1>10 DEF Next

LEMMA StepIInv == IInv /\ [Next]_vars => IInv'
    BY StepChain, StepWaiter DEF IInv, TypeOK

-----------------------------------------------------------------------------
(* Theorems *)

\* Every reachable state of WaitForConfirmation is well typed: in
\* particular the counter of consecutive errors never passes five.
THEOREM TypeCorrect == Spec => []TypeOK
<1>1. IInv => TypeOK
    BY DEF IInv
<1>2. QED
    BY InitIInv, StepIInv, <1>1, PTL DEF Spec

\* Each step of WaitForConfirmation is a step of the abstract receipt wait
\* with depth `confirmations', or leaves its result pending.
LEMMA StepRefines == IInv /\ [Next]_vars => [CW!WaitNext]_CW!waitVars
<1> SUFFICES ASSUME IInv, [Next]_vars PROVE [CW!WaitNext]_CW!waitVars
    OBVIOUS
<1> USE DEF CW!chainVars, CW!waitVars, chainVars
<1>0. /\ minedBlock <= head /\ minedBlock \in Nat /\ head \in Nat
      /\ confirmations \in Nat
      /\ mined \in TxStatus \cup {NotMined}
    BY MaxHeadAssumption, CWConstantsAssumption
    DEF IInv, TypeOK, ChainTypeOK, MinedBelowHead
<1>1. CASE CtxDone
    BY <1>1 DEF CtxDone, CW!WaitNext, CW!TimeOut
<1>2. CASE PollNotFound
    BY <1>2 DEF PollNotFound, Tick
<1>3. CASE PollRPCError
    BY <1>3 DEF PollRPCError, Tick, AfterError, CW!WaitNext, CW!GiveUp
<1>4. CASE PollFailedStatus
    <2>1. CW!FailOnchain
        BY <1>4 DEF PollFailedStatus, Tick, CW!FailOnchain
    <2>2. QED
        BY <2>1 DEF CW!WaitNext
<1>5. CASE PollNoDepth
    <2>1. CW!Confirm
        BY <1>0, <1>5 DEF PollNoDepth, Tick, CW!Confirm
    <2>2. QED
        BY <2>1 DEF CW!WaitNext
<1>6. CASE PollHeadError
    BY <1>6 DEF PollHeadError, Tick, AfterError, ErrorLimit
<1>7. CASE PollDepth
    <2>1. CASE minedBlock + confirmations <= head
        <3>1. CW!Confirm
            BY <1>0, <1>7, <2>1 DEF PollDepth, Tick, CW!Confirm
        <3>2. QED
            BY <3>1 DEF CW!WaitNext
    <2>2. CASE ~(minedBlock + confirmations <= head)
        BY <1>7, <2>2 DEF PollDepth, Tick
    <2>3. QED
        BY <2>1, <2>2
<1>8. CASE Expire
    BY <1>8 DEF Expire, CW!WaitNext, CW!Expire
<1>9. CASE Chain
    BY <1>9 DEF Chain, cwVars, CW!WaitNext, CW!Chain, CW!ChainNext, ChainNext,
                CW!MineTx, CW!NewBlock, MineTx, NewBlock, CW!NotMined,
                CW!TxStatus, NotMined, TxStatus
<1>10. CASE UNCHANGED vars
    BY <1>10 DEF vars, cwVars
<1>11. QED
    BY <1>1, <1>2, <1>3, <1>4, <1>5, <1>6, <1>7, <1>8, <1>9, <1>10 DEF Next

\* Every behaviour of WaitForConfirmation is a behaviour of the abstract
\* receipt wait with the depth the caller asked for: it returns the
\* receipt only for a transaction mined with success `confirmations'
\* blocks deep, a failure only for one mined with failure, and a
\* cancellation only once the caller's context is done.
THEOREM RefinesReceiptWait == Spec => CW!WaitSpec
<1>1. Init => CW!WaitInit
    BY CWConstantsAssumption
    DEF Init, CW!WaitInit, ChainInit, CW!ChainInit, CW!NotMined, NotMined
<1>2. Spec => []IInv
    BY InitIInv, StepIInv, PTL DEF Spec
<1>3. []IInv /\ [][Next]_vars => [][CW!WaitNext]_CW!waitVars
    BY StepRefines, PTL
<1>4. QED
    BY <1>1, <1>2, <1>3, PTL DEF Spec, CW!WaitSpec

=============================================================================
