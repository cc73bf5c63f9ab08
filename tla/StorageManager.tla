---------------------------- MODULE StorageManager ----------------------------
(***************************************************************************)
(* storage.Manager (src/unnamed/part_014), driven by one caller that calls *)
(* Upload again after each return, against the PDP server (pdp/server.go)  *)
(* and the chain behind it.                                                *)
(*                                                                         *)
(* An Upload ensures a data set (creating one through the server when      *)
(* dataSetID is 0, or loading the clientDataSetID of the existing one),    *)
(* uploads and parks the piece, then asks the server to add it to the data *)
(* set.  Each server request is answered, lost after the server took it,   *)
(* or fails before reaching it; each wait (retry.Poll with a deadline)     *)
(* ends when the server reports the work done, or with an error or its     *)
(* timeout, which the model lets happen at any poll.  The server turns     *)
(* each request it took into a chain message, which succeeds or fails.     *)
(***************************************************************************)
EXTENDS Naturals, Sequences, FiniteSets

CONSTANTS
    Pieces,         \* the pieces the caller uploads
    MaxClientIds,   \* randomBigInt values drawn: 1..MaxClientIds
    MaxRequests,    \* bound on the create and add requests the server takes
    MaxUploads      \* bound on the Upload calls

ASSUME StorageManagerAssumption ==
    /\ Pieces # {}
    /\ MaxClientIds \in Nat \ {0}
    /\ MaxRequests \in Nat
    /\ MaxUploads \in Nat

\* clientDataSetID values; 0 is the big.NewInt(0) of NewManager.
ClientIds == 1..MaxClientIds

\* The data set the caller may configure (Options.DataSetID), created
\* beforehand with client id 1.
ExistingDataSet == 1

\* A request the server took: CreateDataSet or AddPieces, what it carries
\* (the signed clientDataSetId, the data set and piece of an add), the data
\* set a create produced, and how its chain message ended.
Request == [kind : {"create", "add"}, client : 0..MaxClientIds,
            ds : Nat, piece : Pieces \cup {"none"},
            state : {"pending", "done", "failed"}]

VARIABLES
    dataSetID,        \* Manager.dataSetID
    clientDataSetID,  \* Manager.clientDataSetID
    loaded,           \* Manager.clientDataSetIDLoaded
    hasFetcher,       \* Manager.dataSetInfoFetcher # nil (never changes)
    pc,               \* where the caller's Upload is
    piece,            \* the piece of the Upload in progress
    curReq,           \* the request the Upload waits on
    uploads,          \* Upload calls so far
    results,          \* history: the UploadResults returned
    reqs,             \* the requests the server took, by index
    dataSets,         \* the data sets on chain: [id, client]
    added,            \* the pieces added on chain: [ds, piece, req]
    parked,           \* the pieces parked on the server
    lastErr           \* the error the last Upload returned ("none": success)

managerVars == <<dataSetID, clientDataSetID, loaded, hasFetcher>>
callVars == <<pc, piece, curReq, uploads, results, lastErr>>
serverVars == <<reqs, dataSets, added, parked>>
vars == <<managerVars, callVars, serverVars>>

\* The errors Upload returns, by the step that failed.
UploadError == {"noFetcher", "fetchDataSet", "createDataSet", "waitDataSet",
                "noDataSetID", "uploadPiece", "waitPiece", "addPieces",
                "waitAddition", "noPieceIDs"}

PC == {"idle", "ensure", "waitCreate", "upload", "waitPiece", "add", "waitAdd"}

TypeOK ==
    /\ dataSetID \in Nat
    /\ clientDataSetID \in 0..MaxClientIds
    /\ loaded \in BOOLEAN
    /\ hasFetcher \in BOOLEAN
    /\ pc \in PC
    /\ piece \in Pieces \cup {"none"}
    /\ curReq \in 0..MaxRequests
    /\ uploads \in 0..MaxUploads
    /\ results \subseteq [piece : Pieces, ds : Nat]
    /\ reqs \in Seq(Request)
    /\ dataSets \subseteq [id : Nat, client : ClientIds]
    /\ added \subseteq [ds : Nat, piece : Pieces, req : Nat]
    /\ parked \subseteq Pieces
    /\ lastErr \in UploadError \cup {"none"}

\* NewManager as Client.Storage calls it: no data set, or the configured
\* one with a DataSetInfoFetcher; NewManager called directly may also
\* omit the fetcher, or pass the data set's id WithClientDataSetID.
Init ==
    /\ \/ dataSetID = 0 /\ hasFetcher = FALSE /\ loaded = FALSE
       \/ dataSetID = ExistingDataSet /\ hasFetcher \in BOOLEAN /\ loaded = FALSE
       \/ dataSetID = ExistingDataSet /\ hasFetcher = FALSE /\ loaded = TRUE
    /\ clientDataSetID = IF loaded THEN 1 ELSE 0
    /\ dataSets = IF dataSetID = 0 THEN {}
                  ELSE {[id |-> ExistingDataSet, client |-> 1]}
    /\ pc = "idle"
    /\ piece = "none"
    /\ curReq = 0
    /\ uploads = 0
    /\ results = {}
    /\ reqs = <<>>
    /\ added = {}
    /\ parked = {}
    /\ lastErr = "none"

\* The Upload returns the error err.
Fail(err) ==
    /\ pc' = "idle"
    /\ piece' = "none"
    /\ lastErr' = err

\* Upload / UploadBytes: the PieceCID is given or computed (CalculatePieceCID
\* failing returns an error before anything changes).
StartUpload ==
    /\ pc = "idle"
    /\ uploads < MaxUploads
    /\ \E p \in Pieces : piece' = p
    /\ pc' = "ensure"
    /\ uploads' = uploads + 1
    /\ UNCHANGED <<managerVars, curReq, results, serverVars, lastErr>>

\* Mutant: ensureDataSet skips ensureClientDataSetID.
EnsureLoadedUnchecked ==
    /\ pc = "ensure"
    /\ dataSetID # 0
    /\ pc' = "upload"
    /\ UNCHANGED <<managerVars, piece, curReq, uploads, results, serverVars, lastErr>>

\* ensureDataSet with a data set: ensureClientDataSetID has the id loaded.
EnsureLoaded ==
    /\ pc = "ensure"
    /\ dataSetID # 0
    /\ loaded
    /\ pc' = "upload"
    /\ UNCHANGED <<managerVars, piece, curReq, uploads, results, serverVars, lastErr>>

\* Mutant: the nil check of the fetcher is dropped; the call panics.
EnsureNoFetcherNilDeref ==
    /\ pc = "ensure"
    /\ dataSetID # 0 /\ ~loaded /\ ~hasFetcher
    /\ pc' = "panicked"
    /\ UNCHANGED <<managerVars, piece, curReq, uploads, results, serverVars, lastErr>>

\* No id loaded and no DataSetInfoFetcher configured: an error.
EnsureNoFetcher ==
    /\ pc = "ensure"
    /\ dataSetID # 0 /\ ~loaded /\ ~hasFetcher
    /\ Fail("noFetcher")
    /\ UNCHANGED <<managerVars, curReq, uploads, results, serverVars>>

\* GetDataSet answers: keep the data set's ClientDataSetID.
FetchClientId ==
    /\ pc = "ensure"
    /\ dataSetID # 0 /\ ~loaded /\ hasFetcher
    /\ \E d \in dataSets :
          /\ d.id = dataSetID
          /\ clientDataSetID' = d.client
    /\ loaded' = TRUE
    /\ pc' = "upload"
    /\ UNCHANGED <<dataSetID, hasFetcher, piece, curReq, uploads, results, serverVars, lastErr>>

\* GetDataSet fails: an error.
FetchFails ==
    /\ pc = "ensure"
    /\ dataSetID # 0 /\ ~loaded /\ hasFetcher
    /\ Fail("fetchDataSet")
    /\ UNCHANGED <<managerVars, curReq, uploads, results, serverVars>>

\* randomBigInt: a 256-bit value, taken as one never drawn before.
FreshClientIds == ClientIds \ ({1} \cup {reqs[i].client : i \in DOMAIN reqs})

\* ensureDataSet with no data set: a new clientDataSetID is stored and
\* marked loaded first; then signing, encoding or the POST fails before
\* the server takes the request.
CreateNotSent ==
    /\ pc = "ensure"
    /\ dataSetID = 0
    /\ \E c \in FreshClientIds : clientDataSetID' = c
    /\ loaded' = TRUE
    /\ Fail("createDataSet")
    /\ UNCHANGED <<dataSetID, hasFetcher, curReq, uploads, results, serverVars>>

\* The server takes the CreateDataSet request (it will send the create
\* message signed for clientDataSetID); the Location answer reaches the
\* client, which waits, or is lost (a transport error, a bad Location),
\* and the Upload returns an error.
CreateTaken(answered) ==
    /\ pc = "ensure"
    /\ dataSetID = 0
    /\ Len(reqs) < MaxRequests
    /\ \E c \in FreshClientIds :
          /\ clientDataSetID' = c
          /\ reqs' = Append(reqs, [kind |-> "create", client |-> c, ds |-> 0,
                                   piece |-> "none", state |-> "pending"])
    /\ loaded' = TRUE
    /\ IF answered
         THEN pc' = "waitCreate" /\ curReq' = Len(reqs) + 1 /\ UNCHANGED <<piece, lastErr>>
         ELSE Fail("createDataSet") /\ UNCHANGED curReq
    /\ UNCHANGED <<dataSetID, hasFetcher, uploads, results, dataSets, added, parked>>

\* WaitForDataSetCreation sees dataSetCreated with an id: keep it.
WaitCreateDone ==
    /\ pc = "waitCreate"
    /\ reqs[curReq].state = "done"
    /\ dataSetID' = reqs[curReq].ds
    /\ pc' = "upload"
    /\ UNCHANGED <<clientDataSetID, loaded, hasFetcher, piece, curReq, uploads, results, serverVars, lastErr>>

\* dataSetCreated without a dataSetId: an error.
WaitCreateNoID ==
    /\ pc = "waitCreate"
    /\ reqs[curReq].state = "done"
    /\ Fail("noDataSetID")
    /\ UNCHANGED <<managerVars, curReq, uploads, results, serverVars>>

\* retry.Poll returns an error: a status request failed (any error, a 404
\* included, ends the poll) or the deadline passed.
WaitCreateFails ==
    /\ pc = "waitCreate"
    /\ Fail("waitDataSet")
    /\ UNCHANGED <<managerVars, curReq, uploads, results, serverVars>>

\* UploadPiece: session, PUT and finalize succeed; the server parks it.
UploadPieceOk ==
    /\ pc = "upload"
    /\ parked' = parked \cup {piece}
    /\ pc' = "waitPiece"
    /\ UNCHANGED <<managerVars, piece, curReq, uploads, results, reqs, dataSets, added, lastErr>>

\* One of the three requests of UploadPiece fails.
UploadPieceFails ==
    /\ pc = "upload"
    /\ Fail("uploadPiece")
    /\ UNCHANGED <<managerVars, curReq, uploads, results, serverVars>>

\* WaitForPiece: FindPiece finds the parked piece.
WaitPieceDone ==
    /\ pc = "waitPiece"
    /\ piece \in parked
    /\ pc' = "add"
    /\ UNCHANGED <<managerVars, piece, curReq, uploads, results, serverVars, lastErr>>

\* FindPiece fails otherwise than "piece not found", or the deadline.
WaitPieceFails ==
    /\ pc = "waitPiece"
    /\ Fail("waitPiece")
    /\ UNCHANGED <<managerVars, curReq, uploads, results, serverVars>>

\* addPieceToDataSet: signing, encoding or the POST fails before the
\* server takes the request.
AddNotSent ==
    /\ pc = "add"
    /\ Fail("addPieces")
    /\ UNCHANGED <<managerVars, curReq, uploads, results, serverVars>>

\* The server takes AddPieces for dataSetID, signed for clientDataSetID;
\* the answer reaches the client, or is lost.
AddTaken(answered) ==
    /\ pc = "add"
    /\ Len(reqs) < MaxRequests
    /\ reqs' = Append(reqs, [kind |-> "add", client |-> clientDataSetID,
                             ds |-> dataSetID, piece |-> piece,
                             state |-> "pending"])
    /\ IF answered
         THEN pc' = "waitAdd" /\ curReq' = Len(reqs) + 1 /\ UNCHANGED <<piece, lastErr>>
         ELSE Fail("addPieces") /\ UNCHANGED curReq
    /\ UNCHANGED <<managerVars, uploads, results, dataSets, added, parked>>

\* Mutant: the wait returns on the first status, without addMessageOk.
WaitAddDoneUnchecked ==
    /\ pc = "waitAdd"
    /\ results' = results \cup {[piece |-> piece, ds |-> dataSetID]}
    /\ pc' = "idle"
    /\ piece' = "none"
    /\ lastErr' = "none"
    /\ UNCHANGED <<managerVars, curReq, uploads, serverVars>>

\* WaitForPieceAddition sees addMessageOk with piece ids: the Upload
\* returns the UploadResult with the Manager's dataSetID.
WaitAddDone ==
    /\ pc = "waitAdd"
    /\ reqs[curReq].state = "done"
    /\ results' = results \cup {[piece |-> piece, ds |-> dataSetID]}
    /\ pc' = "idle"
    /\ piece' = "none"
    /\ lastErr' = "none"
    /\ UNCHANGED <<managerVars, curReq, uploads, serverVars>>

\* addMessageOk without confirmed piece ids: an error.
WaitAddNoIDs ==
    /\ pc = "waitAdd"
    /\ reqs[curReq].state = "done"
    /\ Fail("noPieceIDs")
    /\ UNCHANGED <<managerVars, curReq, uploads, results, serverVars>>

\* A status request fails, or the deadline passes (a failed add message
\* never sets addMessageOk, so its wait ends here).
WaitAddFails ==
    /\ pc = "waitAdd"
    /\ Fail("waitAddition")
    /\ UNCHANGED <<managerVars, curReq, uploads, results, serverVars>>

-----------------------------------------------------------------------------
(* The server and the chain *)

\* The create message of a pending request lands: a new data set with the
\* signed client id, or a failed message.
ChainCreate ==
    \E i \in DOMAIN reqs :
        /\ reqs[i].kind = "create"
        /\ reqs[i].state = "pending"
        /\ \/ LET id == Cardinality(dataSets) + 2
              IN  /\ dataSets' = dataSets \cup {[id |-> id, client |-> reqs[i].client]}
                  /\ reqs' = [reqs EXCEPT ![i].state = "done", ![i].ds = id]
           \/ /\ reqs' = [reqs EXCEPT ![i].state = "failed"]
              /\ UNCHANGED dataSets
        /\ UNCHANGED <<managerVars, callVars, added, parked>>

\* The add message of a pending request lands: the contract accepts it
\* only when it is signed for the data set's clientDataSetId; it may fail
\* anyway.
ChainAdd ==
    \E i \in DOMAIN reqs :
        /\ reqs[i].kind = "add"
        /\ reqs[i].state = "pending"
        /\ \/ /\ [id |-> reqs[i].ds, client |-> reqs[i].client] \in dataSets
              /\ added' = added \cup {[ds |-> reqs[i].ds, piece |-> reqs[i].piece, req |-> i]}
              /\ reqs' = [reqs EXCEPT ![i].state = "done"]
           \/ /\ reqs' = [reqs EXCEPT ![i].state = "failed"]
              /\ UNCHANGED added
        /\ UNCHANGED <<managerVars, callVars, dataSets, parked>>

Next ==
    \/ StartUpload \/ EnsureLoaded \/ EnsureNoFetcher \/ FetchClientId
    \/ FetchFails \/ CreateNotSent \/ \E a \in BOOLEAN : CreateTaken(a)
    \/ WaitCreateDone \/ WaitCreateNoID \/ WaitCreateFails
    \/ UploadPieceOk \/ UploadPieceFails \/ WaitPieceDone \/ WaitPieceFails
    \/ AddNotSent \/ \E a \in BOOLEAN : AddTaken(a)
    \/ WaitAddDone \/ WaitAddNoIDs \/ WaitAddFails
    \/ ChainCreate \/ ChainAdd

Spec == Init /\ [][Next]_vars

-----------------------------------------------------------------------------
(* Properties *)

\* Every UploadResult names a piece that the chain added to the data set
\* the result names: Upload returns success only once the add message
\* that carries this piece landed in that data set.
ResultPieceOnChain ==
    \A r \in results : \E a \in added : a.ds = r.ds /\ a.piece = r.piece

\* Every AddPieces request the Manager sends is signed for the
\* clientDataSetId of the data set it targets, so the contract can accept
\* it: the id created, fetched or configured is the one of dataSetID.
AddsSignedForDataSet ==
    \A i \in DOMAIN reqs :
        reqs[i].kind = "add" =>
            [id |-> reqs[i].ds, client |-> reqs[i].client] \in dataSets

\* The Manager holds one data set: of the CreateDataSet requests it sends,
\* at most one ends in a data set on chain.  An Upload that returned an
\* error after the server took the request leaves dataSetID at 0, and the
\* next Upload would create a second data set, the first one orphaned.
SingleDataSet ==
    Cardinality({i \in DOMAIN reqs :
                    reqs[i].kind = "create" /\ reqs[i].state = "done"}) <= 1

=============================================================================
