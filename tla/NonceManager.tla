---------------------------- MODULE NonceManager ----------------------------
(***************************************************************************)
(* The nonce manager of pkg/txutil/nonce.go: one per sender address,       *)
(* guarded by a single mutex, so each method is one atomic step.           *)
(*                                                                         *)
(*   nonce        the cached counter, a *uint64; NoNonce stands for nil,     *)
(*                "must fetch PendingNonceAt from the network first".      *)
(*   pendingTxs   map[uint64]bool of nonces handed out and not yet marked  *)
(*                confirmed or failed (only ever read for its size).       *)
(*   reclaimable  the []uint64 pool filled by MarkFailed.  GetNonce sorts  *)
(*                it before taking element 0, so its order is never        *)
(*                observed: it is kept as a multiset, a count per nonce.   *)
(*                                                                         *)
(* The operators below are the methods; the value a method fetches from    *)
(* the network (PendingNonceAt) is a parameter, supplied by the module     *)
(* that composes the manager with a ledger.                                *)
(***************************************************************************)
EXTENDS Naturals

CONSTANTS
    MaxNonce,   \* largest nonce value the model lets the counter reach
    NoNonce     \* model value standing for a nil *uint64

ASSUME MaxNonceAssumption == MaxNonce \in Nat

ASSUME NoNonceAssumption == NoNonce \notin Nat

Nonces == 0..MaxNonce

VARIABLES nonce, pendingTxs, reclaimable

nmVars == <<nonce, pendingTxs, reclaimable>>

NMTypeOK ==
    /\ nonce \in Nonces \cup {NoNonce}
    /\ pendingTxs \subseteq Nonces
    /\ reclaimable \in [Nonces -> Nat]

\* NewNonceManager: no cached nonce, empty map, nil slice.
NMInit ==
    /\ nonce = NoNonce
    /\ pendingTxs = {}
    /\ reclaimable = [n \in Nonces |-> 0]

\* len(nm.reclaimable) > 0
HasReclaimable == \E n \in Nonces : reclaimable[n] > 0

\* nm.reclaimable[0] after sort.Slice ascending: the smallest pooled nonce.
MinReclaimable == CHOOSE n \in Nonces :
                      /\ reclaimable[n] > 0
                      /\ \A m \in Nonces : reclaimable[m] > 0 => n <= m

\* Mutant: the pool branch forgets nm.reclaimable = nm.reclaimable[1:].
GetNonceReclaimedKeepsPool(n) ==
    /\ HasReclaimable
    /\ n = MinReclaimable
    /\ pendingTxs' = pendingTxs \cup {n}
    /\ UNCHANGED <<nonce, reclaimable>>

\* GetNonce, first branch: reuse the smallest reclaimed nonce.
GetNonceReclaimed(n) ==
    /\ HasReclaimable
    /\ n = MinReclaimable
    /\ reclaimable' = [reclaimable EXCEPT ![n] = @ - 1]
    /\ pendingTxs' = pendingTxs \cup {n}
    /\ UNCHANGED nonce

\* Mutant: the counter is not cached; every GetNonce asks PendingNonceAt,
\* as contracts/payments.go does.
GetNonceFromCounterRefetch(fetched, n) ==
    /\ ~HasReclaimable
    /\ n = fetched
    /\ n < MaxNonce
    /\ nonce' = n + 1
    /\ pendingTxs' = pendingTxs \cup {n}
    /\ UNCHANGED reclaimable

\* GetNonce, second branch: fetch the counter if it is nil (the fetch
\* succeeded and returned `fetched`), hand out its value and increment it.
\* The model stops the counter at MaxNonce.
GetNonceFromCounter(fetched, n) ==
    /\ ~HasReclaimable
    /\ n = IF nonce = NoNonce THEN fetched ELSE nonce
    /\ n < MaxNonce
    /\ nonce' = n + 1
    /\ pendingTxs' = pendingTxs \cup {n}
    /\ UNCHANGED reclaimable

\* GetNonce returning n (no error).
GetNonce(fetched, n) ==
    \/ GetNonceReclaimed(n)
    \/ GetNonceFromCounter(fetched, n)

\* GetNonce returns the error of a failed PendingNonceAt: this happens only
\* when the pool is empty and the counter is still nil; nothing changes.
GetNonceFetchFails ==
    /\ ~HasReclaimable
    /\ nonce = NoNonce

\* MarkConfirmed: delete(nm.pendingTxs, nonce).
MarkConfirmed(n) ==
    /\ pendingTxs' = pendingTxs \ {n}
    /\ UNCHANGED <<nonce, reclaimable>>

\* MarkFailed: delete from pendingTxs and append to the reclaimable pool.
MarkFailed(n) ==
    /\ pendingTxs' = pendingTxs \ {n}
    /\ reclaimable' = [reclaimable EXCEPT ![n] = @ + 1]
    /\ UNCHANGED nonce

\* Reset after a successful PendingNonceAt returning `fetched`.
Reset(fetched) ==
    /\ nonce' = fetched
    /\ pendingTxs' = {}
    /\ reclaimable' = [n \in Nonces |-> 0]

=============================================================================
