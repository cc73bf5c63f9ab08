------------------------------- MODULE Ledger -------------------------------
(***************************************************************************)
(* The node behind ethclient, as far as one sender account is concerned:   *)
(* the account nonce on chain, the transactions of the sender waiting in   *)
(* the node's pool, and the receipts of the mined ones.  This is the       *)
(* environment of the library (go-ethereum / Lotus semantics), not code of *)
(* this repository: a transaction is admitted if its nonce is not below    *)
(* the account nonce, replacing a pooled one with the same nonce when its  *)
(* price bump is enough; only the transaction whose nonce equals the       *)
(* account nonce can be mined, so a nonce gap stalls every later one.      *)
(***************************************************************************)
EXTENDS Naturals

\* A transaction of the sender: its nonce and its identity (hash).
Tx == [nonce : Nat, id : Nat]

\* types.ReceiptStatusSuccessful and the failed (reverted) status.
Status == {"successful", "failed"}

Receipt == [id : Nat, status : Status]

VARIABLES
    chainNonce, \* nonce of the account on chain: number of mined txs
    pool,       \* the sender's transactions in the node's pool
    receipts    \* receipts of the sender's mined transactions

ledgerVars == <<chainNonce, pool, receipts>>

LTypeOK ==
    /\ chainNonce \in Nat
    /\ pool \subseteq Tx
    /\ receipts \subseteq Receipt

\* A fresh account: nothing sent, nothing mined.
LInit ==
    /\ chainNonce = 0
    /\ pool = {}
    /\ receipts = {}

PoolNonces == {t.nonce : t \in pool}

\* PendingNonceAt: the account nonce advanced past every pooled
\* transaction that directly follows it without a gap (it is the account
\* nonce or one past a pooled nonce).
PendingNonceAt ==
    CHOOSE k \in {chainNonce} \cup {t.nonce + 1 : t \in pool} :
        /\ k \notin PoolNonces
        /\ \A j \in chainNonce..(k - 1) : j \in PoolNonces

\* SendTransaction reaches the node and the node admits tx, replacing a
\* pooled transaction with the same nonce.  A nonce below the account
\* nonce is refused ("nonce too low").
Admit(tx) ==
    /\ tx.nonce >= chainNonce
    /\ pool' = {t \in pool : t.nonce # tx.nonce} \cup {tx}
    /\ UNCHANGED <<chainNonce, receipts>>

\* A block includes the pooled transaction carrying the account nonce; it
\* succeeds or reverts.
MineBlock ==
    \E t \in pool, s \in Status :
        /\ t.nonce = chainNonce
        /\ chainNonce' = chainNonce + 1
        /\ pool' = pool \ {t}
        /\ receipts' = receipts \cup {[id |-> t.id, status |-> s]}

\* TransactionReceipt(id) finds a receipt with this status.
HasReceipt(id, s) == [id |-> id, status |-> s] \in receipts

\* The transaction id is in the pool or has been mined.
Known(id) == (\E t \in pool : t.id = id) \/ (\E s \in Status : HasReceipt(id, s))

=============================================================================
