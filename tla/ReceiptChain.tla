---------------------------- MODULE ReceiptChain ----------------------------
(***************************************************************************)
(* What a receipt waiter observes of the chain for the one transaction it  *)
(* waits for: whether and with which status the transaction was mined, in  *)
(* which block, and the current head.  This is the environment of the      *)
(* library (the node behind ethclient), not code of this repository.       *)
(***************************************************************************)
EXTENDS Naturals

CONSTANT MaxHead   \* the model stops the chain at this height

ASSUME MaxHeadAssumption == MaxHead \in Nat

\* No receipt yet: TransactionReceipt answers ethereum.NotFound.
NotMined == "notMined"

TxStatus == {"successful", "failed"}

VARIABLES
    mined,       \* NotMined, or the status of the receipt
    minedBlock,  \* receipt.BlockNumber once mined
    head         \* the height BlockNumber reports

chainVars == <<mined, minedBlock, head>>

ChainTypeOK ==
    /\ mined \in TxStatus \cup {NotMined}
    /\ minedBlock \in 0..MaxHead
    /\ head \in 0..MaxHead

ChainInit ==
    /\ mined = NotMined
    /\ minedBlock = 0
    /\ head = 0

\* The transaction is included in the next block, with either status.
MineTx ==
    /\ mined = NotMined
    /\ head < MaxHead
    /\ \E s \in TxStatus : mined' = s
    /\ head' = head + 1
    /\ minedBlock' = head + 1

\* Another block is produced.
NewBlock ==
    /\ head < MaxHead
    /\ head' = head + 1
    /\ UNCHANGED <<mined, minedBlock>>

ChainNext == MineTx \/ NewBlock

=============================================================================
