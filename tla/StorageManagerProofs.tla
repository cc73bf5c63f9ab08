------------------------ MODULE StorageManagerProofs ------------------------
(***************************************************************************)
(* Proofs about storage.Manager (StorageManager), for every set of pieces  *)
(* and every bound on client ids, requests and Uploads: its states are     *)
(* well typed, every AddPieces request it sends is signed for the          *)
(* clientDataSetId of the data set it targets (AddsSignedForDataSet), and  *)
(* every UploadResult it returns names a piece the chain added to that     *)
(* data set (ResultPieceOnChain).                                          *)
(***************************************************************************)
EXTENDS StorageManager, FiniteSetTheorems, TLAPS

\* The types the argument needs.
TypeInv ==
    /\ reqs \in Seq(Request)
    /\ dataSets \subseteq [id : Nat, client : 0..MaxClientIds]
    /\ IsFiniteSet(dataSets)
    /\ dataSetID \in Nat
    /\ clientDataSetID \in 0..MaxClientIds
    /\ piece \in Pieces \cup {"none"}
    /\ curReq \in Nat

\* The Manager's pair (dataSetID, clientDataSetID) as a data set record.
Current == [id |-> dataSetID, client |-> clientDataSetID]

\* A create request that landed produced the data set it records.
CreatedOnChain ==
    \A i \in DOMAIN reqs :
        reqs[i].kind = "create" /\ reqs[i].state = "done" =>
            [id |-> reqs[i].ds, client |-> reqs[i].client] \in dataSets

\* The create the Upload waits on carries the Manager's clientDataSetID.
WaitingOwnCreate ==
    pc = "waitCreate" =>
        /\ curReq \in DOMAIN reqs
        /\ reqs[curReq].kind = "create"
        /\ reqs[curReq].client = clientDataSetID

\* A loaded id of a data set is that data set's client id.
LoadedMatches == dataSetID # 0 /\ loaded => Current \in dataSets

\* Past ensureDataSet, the Manager's pair is a data set on chain.
EnsuredMatches ==
    pc \in {"upload", "waitPiece", "add", "waitAdd"} => Current \in dataSets

\* The part of the invariant that AddsSignedForDataSet rests on.
SignedInv ==
    /\ TypeInv
    /\ CreatedOnChain
    /\ WaitingOwnCreate
    /\ LoadedMatches
    /\ EnsuredMatches
    /\ AddsSignedForDataSet

\* An Upload in progress holds a piece.
BusyPiece == pc # "idle" => piece \in Pieces

\* A create request carries a drawn client id, an add request a piece.
RequestShapes ==
    \A i \in DOMAIN reqs :
        /\ reqs[i].kind = "create" => reqs[i].client \in ClientIds
        /\ reqs[i].kind = "add" => reqs[i].piece \in Pieces

\* The part of the invariant that TypeOK rests on.
TypesInv ==
    /\ TypeOK
    /\ IsFiniteSet(dataSets)
    /\ Len(reqs) <= MaxRequests
    /\ BusyPiece
    /\ RequestShapes

\* The add the Upload waits on is its own: its data set and its piece.
WaitingOwnAdd ==
    pc = "waitAdd" =>
        /\ curReq \in DOMAIN reqs
        /\ reqs[curReq].kind = "add"
        /\ reqs[curReq].ds = dataSetID
        /\ reqs[curReq].piece = piece

\* An add request that landed added its piece to its data set.
AddedOnChain ==
    \A i \in DOMAIN reqs :
        reqs[i].kind = "add" /\ reqs[i].state = "done" =>
            [ds |-> reqs[i].ds, piece |-> reqs[i].piece, req |-> i] \in added

\* The part of the invariant that ResultPieceOnChain rests on.
ResultInv == WaitingOwnAdd /\ AddedOnChain /\ ResultPieceOnChain

IInv == SignedInv /\ TypesInv /\ ResultInv

-----------------------------------------------------------------------------

\* Updating one element of a sequence with a value of its element type
\* leaves a sequence of that type with the same domain.
LEMMA SeqUpdate ==
    ASSUME NEW S, NEW s \in Seq(S), NEW i \in DOMAIN s, NEW x \in S
    PROVE  /\ [s EXCEPT ![i] = x] \in Seq(S)
           /\ DOMAIN [s EXCEPT ![i] = x] = DOMAIN s
    OBVIOUS

LEMMA InitSigned == Init => SignedInv
<1> SUFFICES ASSUME Init PROVE SignedInv
    OBVIOUS
<1>1. TypeInv
    <2>1. reqs \in Seq(Request) /\ curReq \in Nat /\ piece \in Pieces \cup {"none"}
        BY DEF Init
    <2>2. dataSetID \in Nat /\ clientDataSetID \in 0..MaxClientIds
        BY StorageManagerAssumption DEF Init, ExistingDataSet
    <2>3. dataSets \subseteq [id : Nat, client : 0..MaxClientIds]
        BY StorageManagerAssumption DEF Init, ExistingDataSet
    <2>4. IsFiniteSet(dataSets)
        BY FS_EmptySet, FS_Singleton DEF Init
    <2>5. QED
        BY <2>1, <2>2, <2>3, <2>4 DEF TypeInv
<1>2. CreatedOnChain /\ WaitingOwnCreate /\ EnsuredMatches /\ AddsSignedForDataSet
    BY DEF Init, CreatedOnChain, WaitingOwnCreate, EnsuredMatches, AddsSignedForDataSet
<1>3. LoadedMatches
    BY DEF Init, LoadedMatches, Current, ExistingDataSet
<1>4. QED
    BY <1>1, <1>2, <1>3 DEF SignedInv

\* Every step of the Manager, the server and the chain keeps SignedInv.
LEMMA StepSigned == SignedInv /\ [Next]_vars => SignedInv'
<1> SUFFICES ASSUME SignedInv, [Next]_vars PROVE SignedInv'
    OBVIOUS
<1> USE DEF SignedInv, TypeInv, CreatedOnChain, WaitingOwnCreate, LoadedMatches,
            EnsuredMatches, AddsSignedForDataSet, Current
<1>1. CASE StartUpload
    BY <1>1 DEF StartUpload, managerVars, serverVars
<1>2. CASE EnsureLoaded
    BY <1>2 DEF EnsureLoaded, managerVars, serverVars
<1>3. CASE EnsureNoFetcher
    BY <1>3 DEF EnsureNoFetcher, Fail, managerVars, serverVars
<1>4. CASE FetchClientId
    BY <1>4 DEF FetchClientId, serverVars
<1>5. CASE FetchFails
    BY <1>5 DEF FetchFails, Fail, managerVars, serverVars
<1>6. CASE CreateNotSent
    BY <1>6 DEF CreateNotSent, Fail, FreshClientIds, ClientIds, serverVars
<1>7. CASE \E a \in BOOLEAN : CreateTaken(a)
    <2>1. PICK a \in BOOLEAN, c \in FreshClientIds :
              /\ clientDataSetID' = c
              /\ reqs' = Append(reqs, [kind |-> "create", client |-> c, ds |-> 0,
                                       piece |-> "none", state |-> "pending"])
              /\ loaded' = TRUE
              /\ IF a THEN pc' = "waitCreate" /\ curReq' = Len(reqs) + 1
                         /\ UNCHANGED <<piece, lastErr>>
                   ELSE Fail("createDataSet") /\ UNCHANGED curReq
              /\ UNCHANGED <<dataSetID, hasFetcher, uploads, results, dataSets, added, parked>>
        BY <1>7 DEF CreateTaken
    <2>2. c \in 0..MaxClientIds /\ dataSetID = 0
        BY <1>7, <2>1 DEF FreshClientIds, ClientIds, CreateTaken
    <2>3. /\ reqs' \in Seq(Request) /\ Len(reqs') = Len(reqs) + 1
          /\ reqs'[Len(reqs) + 1].kind = "create"
          /\ reqs'[Len(reqs) + 1].client = c
          /\ reqs'[Len(reqs) + 1].state = "pending"
          /\ \A j \in DOMAIN reqs : reqs'[j] = reqs[j]
        BY <2>1, <2>2 DEF Request
    <2>4. /\ pc' \in {"waitCreate", "idle"}
          /\ pc' = "waitCreate" => curReq' = Len(reqs) + 1
          /\ piece' \in Pieces \cup {"none"} /\ curReq' \in Nat
        BY <2>1 DEF Fail
    <2>5. DOMAIN reqs' = DOMAIN reqs \cup {Len(reqs) + 1}
          /\ Len(reqs) + 1 \notin DOMAIN reqs
        BY <2>3
    <2>6. TypeInv'
        BY <2>1, <2>2, <2>3, <2>4
    <2>7. CreatedOnChain' /\ AddsSignedForDataSet'
        BY <2>1, <2>3, <2>5
    <2>8. WaitingOwnCreate'
        BY <2>1, <2>3, <2>4, <2>5
    <2>9. LoadedMatches' /\ EnsuredMatches'
        BY <2>1, <2>2, <2>4
    <2>10. QED
        BY <2>6, <2>7, <2>8, <2>9
<1>8. CASE WaitCreateDone
    BY <1>8 DEF WaitCreateDone, serverVars
<1>9. CASE WaitCreateNoID
    BY <1>9 DEF WaitCreateNoID, Fail, managerVars, serverVars
<1>10. CASE WaitCreateFails
    BY <1>10 DEF WaitCreateFails, Fail, managerVars, serverVars
<1>11. CASE UploadPieceOk
    BY <1>11 DEF UploadPieceOk, managerVars
<1>12. CASE UploadPieceFails
    BY <1>12 DEF UploadPieceFails, Fail, managerVars, serverVars
<1>13. CASE WaitPieceDone
    BY <1>13 DEF WaitPieceDone, managerVars, serverVars
<1>14. CASE WaitPieceFails
    BY <1>14 DEF WaitPieceFails, Fail, managerVars, serverVars
<1>15. CASE AddNotSent
    BY <1>15 DEF AddNotSent, Fail, managerVars, serverVars
<1>16. CASE \E a \in BOOLEAN : AddTaken(a)
    BY <1>16 DEF AddTaken, Fail, managerVars, Request
<1>17. CASE WaitAddDone
    BY <1>17 DEF WaitAddDone, managerVars, serverVars
<1>18. CASE WaitAddNoIDs
    BY <1>18 DEF WaitAddNoIDs, Fail, managerVars, serverVars
<1>19. CASE WaitAddFails
    BY <1>19 DEF WaitAddFails, Fail, managerVars, serverVars
<1>20. CASE ChainCreate
    <2>1. PICK i \in DOMAIN reqs :
              /\ reqs[i].kind = "create"
              /\ reqs[i].state = "pending"
              /\ \/ LET id == Cardinality(dataSets) + 2
                    IN  /\ dataSets' = dataSets \cup {[id |-> id, client |-> reqs[i].client]}
                        /\ reqs' = [reqs EXCEPT ![i].state = "done", ![i].ds = id]
                 \/ /\ reqs' = [reqs EXCEPT ![i].state = "failed"]
                    /\ UNCHANGED dataSets
              /\ UNCHANGED <<managerVars, callVars, added, parked>>
        BY <1>20 DEF ChainCreate
    <2>2. UNCHANGED <<dataSetID, clientDataSetID, loaded, pc, curReq, piece>>
        BY <2>1 DEF managerVars, callVars
    <2>3. reqs[i] \in Request
        OBVIOUS
    <2>4. CASE reqs' = [reqs EXCEPT ![i].state = "failed"] /\ UNCHANGED dataSets
        <3> DEFINE r == [reqs[i] EXCEPT !.state = "failed"]
        <3>1. r \in Request /\ r.kind = "create"
            BY <2>1, <2>3 DEF Request
        <3>2. reqs' = [reqs EXCEPT ![i] = r]
            BY <2>4
        <3>3. reqs' \in Seq(Request) /\ DOMAIN reqs' = DOMAIN reqs
            BY <3>1, <3>2, SeqUpdate
        <3>4. \A j \in DOMAIN reqs : j # i => reqs'[j] = reqs[j]
            BY <3>2
        <3>5. reqs'[i] = r
            BY <3>2
        <3>6. QED
            BY <2>2, <2>4, <3>1, <3>3, <3>4, <3>5
    <2>5. CASE /\ dataSets' = dataSets \cup {[id |-> Cardinality(dataSets) + 2,
                                               client |-> reqs[i].client]}
               /\ reqs' = [reqs EXCEPT ![i].state = "done",
                                       ![i].ds = Cardinality(dataSets) + 2]
        <3> DEFINE n == Cardinality(dataSets) + 2
                   r == [reqs[i] EXCEPT !.state = "done", !.ds = n]
        <3>1. n \in Nat
            BY FS_CardinalityType
        <3>2. r \in Request /\ r.kind = "create" /\ r.client = reqs[i].client
              /\ r.ds = n
            BY <2>1, <2>3, <3>1 DEF Request
        <3>3. reqs' = [reqs EXCEPT ![i] = r]
            BY <2>5
        <3>4. reqs' \in Seq(Request) /\ DOMAIN reqs' = DOMAIN reqs
            BY <3>2, <3>3, SeqUpdate
        <3>5. \A j \in DOMAIN reqs : j # i => reqs'[j] = reqs[j]
            BY <3>3
        <3>6. reqs'[i] = r
            BY <3>3
        <3>7. IsFiniteSet(dataSets') /\ dataSets \subseteq dataSets'
            BY <2>5, FS_AddElement
        <3>8. dataSets' \subseteq [id : Nat, client : 0..MaxClientIds]
            BY <2>3, <2>5, <3>1 DEF Request
        <3>9. [id |-> n, client |-> reqs[i].client] \in dataSets'
            BY <2>5
        <3>10. CreatedOnChain'
            BY <3>2, <3>4, <3>5, <3>6, <3>7, <3>9
        <3>11. AddsSignedForDataSet'
            BY <3>2, <3>4, <3>5, <3>6, <3>7
        <3>12. WaitingOwnCreate' /\ LoadedMatches' /\ EnsuredMatches'
            BY <2>2, <3>2, <3>4, <3>5, <3>6, <3>7
        <3>13. QED
            BY <2>2, <3>4, <3>7, <3>8, <3>10, <3>11, <3>12
    <2>6. QED
        BY <2>1, <2>4, <2>5
<1>21. CASE ChainAdd
    <2>1. PICK i \in DOMAIN reqs :
              /\ reqs[i].kind = "add"
              /\ reqs[i].state = "pending"
              /\ \E st \in {"done", "failed"} : reqs' = [reqs EXCEPT ![i].state = st]
              /\ UNCHANGED <<managerVars, callVars, dataSets, parked>>
        BY <1>21 DEF ChainAdd
    <2>2. PICK st \in {"done", "failed"} : reqs' = [reqs EXCEPT ![i].state = st]
        BY <2>1
    <2>3. UNCHANGED <<dataSetID, clientDataSetID, loaded, pc, curReq, piece, dataSets>>
        BY <2>1 DEF managerVars, callVars
    <2>4. reqs[i] \in Request
        OBVIOUS
    <2> DEFINE r == [reqs[i] EXCEPT !.state = st]
    <2>5. r \in Request /\ r.kind = "add" /\ r.client = reqs[i].client /\ r.ds = reqs[i].ds
        BY <2>1, <2>4 DEF Request
    <2>6. reqs' = [reqs EXCEPT ![i] = r]
        BY <2>2
    <2>7. reqs' \in Seq(Request) /\ DOMAIN reqs' = DOMAIN reqs
        BY <2>5, <2>6, SeqUpdate
    <2>8. \A j \in DOMAIN reqs : j # i => reqs'[j] = reqs[j]
        BY <2>6
    <2>9. reqs'[i] = r
        BY <2>6
    <2>10. QED
        BY <2>1, <2>3, <2>5, <2>7, <2>8, <2>9
<1>22. CASE UNCHANGED vars
    BY <1>22 DEF vars, managerVars, callVars, serverVars
<1>23. QED
    BY <1>1, <1>2, <1>3, <1>4, <1>5, <1>6, <1>7, <1>8, <1>9, <1>10, <1>11,
       <1>12, <1>13, <1>14, <1>15, <1>16, <1>17, <1>18, <1>19, <1>20, <1>21,
       <1>22 DEF Next

LEMMA InitTypes == Init => TypesInv
<1> SUFFICES ASSUME Init PROVE TypesInv
    OBVIOUS
<1>1. /\ dataSetID \in {0, ExistingDataSet}
      /\ loaded \in BOOLEAN /\ hasFetcher \in BOOLEAN
      /\ clientDataSetID = IF loaded THEN 1 ELSE 0
    BY DEF Init
<1>8. dataSetID \in Nat /\ clientDataSetID \in 0..MaxClientIds
    BY <1>1, StorageManagerAssumption DEF ExistingDataSet
<1>2. pc \in PC /\ piece \in Pieces \cup {"none"} /\ BusyPiece
    BY DEF Init, PC, BusyPiece
<1>3. curReq \in 0..MaxRequests /\ uploads \in 0..MaxUploads
    BY StorageManagerAssumption DEF Init
<1>4. /\ results \subseteq [piece : Pieces, ds : Nat]
      /\ added \subseteq [ds : Nat, piece : Pieces, req : Nat]
      /\ parked \subseteq Pieces /\ lastErr \in UploadError \cup {"none"}
    BY DEF Init
<1>5. reqs \in Seq(Request) /\ Len(reqs) <= MaxRequests /\ RequestShapes
    BY StorageManagerAssumption DEF Init, RequestShapes
<1>6. dataSets \subseteq [id : Nat, client : ClientIds] /\ IsFiniteSet(dataSets)
    <2>1. CASE dataSetID = 0
        BY <2>1, FS_EmptySet DEF Init
    <2>2. CASE dataSetID # 0
        <3>1. dataSets = {[id |-> ExistingDataSet, client |-> 1]}
            BY <2>2 DEF Init
        <3>2. 1 \in ClientIds
            BY StorageManagerAssumption DEF ClientIds
        <3>3. [id |-> ExistingDataSet, client |-> 1] \in [id : Nat, client : ClientIds]
            BY <3>2 DEF ExistingDataSet
        <3>4. IsFiniteSet({[id |-> ExistingDataSet, client |-> 1]})
            BY FS_Singleton
        <3>5. QED
            BY <3>1, <3>3, <3>4
    <2>3. QED
        BY <2>1, <2>2
<1>7. QED
    BY <1>1, <1>2, <1>3, <1>4, <1>5, <1>6, <1>8 DEF TypesInv, TypeOK

\* Every step keeps TypesInv.  (The data set id a create wait installs is
\* a natural number because the wait is on a request: SignedInv.)
LEMMA StepTypes == SignedInv /\ TypesInv /\ [Next]_vars => TypesInv'
<1> SUFFICES ASSUME SignedInv, TypesInv, [Next]_vars PROVE TypesInv'
    OBVIOUS
<1>0. /\ MaxClientIds \in Nat /\ MaxRequests \in Nat /\ MaxUploads \in Nat
      /\ ClientIds \subseteq 0..MaxClientIds
    BY StorageManagerAssumption DEF ClientIds
<1> USE DEF TypesInv, TypeOK, BusyPiece, RequestShapes, PC, UploadError
<1>1. CASE StartUpload
    BY <1>0, <1>1 DEF StartUpload, managerVars, serverVars
<1>2. CASE EnsureLoaded
    BY <1>2 DEF EnsureLoaded, managerVars, serverVars
<1>3. CASE EnsureNoFetcher
    BY <1>3 DEF EnsureNoFetcher, Fail, managerVars, serverVars
<1>4. CASE FetchClientId
    BY <1>0, <1>4 DEF FetchClientId, serverVars
<1>5. CASE FetchFails
    BY <1>5 DEF FetchFails, Fail, managerVars, serverVars
<1>6. CASE CreateNotSent
    BY <1>0, <1>6 DEF CreateNotSent, Fail, FreshClientIds, serverVars
<1>7. CASE \E a \in BOOLEAN : CreateTaken(a)
    <2>1. PICK a \in BOOLEAN, c \in FreshClientIds :
              /\ clientDataSetID' = c
              /\ reqs' = Append(reqs, [kind |-> "create", client |-> c, ds |-> 0,
                                       piece |-> "none", state |-> "pending"])
              /\ loaded' = TRUE
              /\ IF a THEN pc' = "waitCreate" /\ curReq' = Len(reqs) + 1
                         /\ UNCHANGED <<piece, lastErr>>
                   ELSE Fail("createDataSet") /\ UNCHANGED curReq
              /\ UNCHANGED <<dataSetID, hasFetcher, uploads, results, dataSets, added, parked>>
              /\ Len(reqs) < MaxRequests
        BY <1>7 DEF CreateTaken
    <2>2. c \in ClientIds /\ c \in 0..MaxClientIds /\ pc = "ensure"
        BY <1>0, <1>7 DEF FreshClientIds, CreateTaken
    <2>3. /\ reqs' \in Seq(Request) /\ Len(reqs') = Len(reqs) + 1
          /\ reqs'[Len(reqs) + 1].kind = "create"
          /\ reqs'[Len(reqs) + 1].client = c
          /\ \A j \in DOMAIN reqs : reqs'[j] = reqs[j]
          /\ DOMAIN reqs' = DOMAIN reqs \cup {Len(reqs) + 1}
        BY <2>1, <2>2 DEF Request
    <2>4. /\ pc' \in PC /\ (pc' # "idle" => piece' \in Pieces)
          /\ piece' \in Pieces \cup {"none"} /\ curReq' \in 0..MaxRequests
          /\ lastErr' \in UploadError \cup {"none"}
        <3>1. Len(reqs) \in Nat /\ Len(reqs) + 1 \in 0..MaxRequests
            BY <1>0, <2>1
        <3>2. CASE a
            BY <2>1, <2>2, <3>1, <3>2
        <3>3. CASE ~a
            BY <2>1, <3>3 DEF Fail
        <3>4. QED
            BY <3>2, <3>3
    <2>5. RequestShapes'
        BY <2>2, <2>3
    <2>6. QED
        BY <1>0, <2>1, <2>2, <2>3, <2>4, <2>5
<1>8. CASE WaitCreateDone
    <2>1. curReq \in DOMAIN reqs
        BY <1>8 DEF WaitCreateDone, SignedInv, WaitingOwnCreate
    <2>2. reqs[curReq] \in Request
        BY <2>1
    <2>3. reqs[curReq].ds \in Nat
        BY <2>2 DEF Request
    <2>4. pc = "waitCreate" /\ pc' = "upload" /\ piece' = piece /\ piece \in Pieces
        BY <1>8 DEF WaitCreateDone
    <2>5. UNCHANGED <<clientDataSetID, loaded, hasFetcher, curReq, uploads, results,
                      lastErr, reqs, dataSets, added, parked>>
        BY <1>8 DEF WaitCreateDone, serverVars
    <2>6. QED
        BY <1>8, <2>3, <2>4, <2>5 DEF WaitCreateDone
<1>9. CASE WaitCreateNoID
    BY <1>9 DEF WaitCreateNoID, Fail, managerVars, serverVars
<1>10. CASE WaitCreateFails
    BY <1>10 DEF WaitCreateFails, Fail, managerVars, serverVars
<1>11. CASE UploadPieceOk
    BY <1>11 DEF UploadPieceOk, managerVars
<1>12. CASE UploadPieceFails
    BY <1>12 DEF UploadPieceFails, Fail, managerVars, serverVars
<1>13. CASE WaitPieceDone
    BY <1>13 DEF WaitPieceDone, managerVars, serverVars
<1>14. CASE WaitPieceFails
    BY <1>14 DEF WaitPieceFails, Fail, managerVars, serverVars
<1>15. CASE AddNotSent
    BY <1>15 DEF AddNotSent, Fail, managerVars, serverVars
<1>16. CASE \E a \in BOOLEAN : AddTaken(a)
    <2>1. PICK a \in BOOLEAN :
              /\ pc = "add"
              /\ Len(reqs) < MaxRequests
              /\ reqs' = Append(reqs, [kind |-> "add", client |-> clientDataSetID,
                                       ds |-> dataSetID, piece |-> piece,
                                       state |-> "pending"])
              /\ IF a THEN pc' = "waitAdd" /\ curReq' = Len(reqs) + 1
                         /\ UNCHANGED <<piece, lastErr>>
                   ELSE Fail("addPieces") /\ UNCHANGED curReq
              /\ UNCHANGED <<managerVars, uploads, results, dataSets, added, parked>>
        BY <1>16 DEF AddTaken
    <2>2. piece \in Pieces
        BY <2>1
    <2>3. /\ reqs' \in Seq(Request) /\ Len(reqs') = Len(reqs) + 1
          /\ reqs'[Len(reqs) + 1].kind = "add"
          /\ reqs'[Len(reqs) + 1].piece = piece
          /\ \A j \in DOMAIN reqs : reqs'[j] = reqs[j]
          /\ DOMAIN reqs' = DOMAIN reqs \cup {Len(reqs) + 1}
        BY <1>0, <2>1, <2>2 DEF Request
    <2>4. /\ pc' \in PC /\ (pc' # "idle" => piece' \in Pieces)
          /\ piece' \in Pieces \cup {"none"} /\ curReq' \in 0..MaxRequests
          /\ lastErr' \in UploadError \cup {"none"}
        <3>1. Len(reqs) \in Nat /\ Len(reqs) + 1 \in 0..MaxRequests
            BY <1>0, <2>1
        <3>2. CASE a
            BY <2>1, <2>2, <3>1, <3>2
        <3>3. CASE ~a
            BY <2>1, <3>3 DEF Fail
        <3>4. QED
            BY <3>2, <3>3
    <2>5. RequestShapes'
        BY <2>2, <2>3
    <2>6. QED
        BY <1>0, <2>1, <2>3, <2>4, <2>5 DEF managerVars
<1>17. CASE WaitAddDone
    BY <1>17 DEF WaitAddDone, managerVars, serverVars
<1>18. CASE WaitAddNoIDs
    BY <1>18 DEF WaitAddNoIDs, Fail, managerVars, serverVars
<1>19. CASE WaitAddFails
    BY <1>19 DEF WaitAddFails, Fail, managerVars, serverVars
<1>20. CASE ChainCreate
    <2>1. PICK i \in DOMAIN reqs :
              /\ reqs[i].kind = "create"
              /\ reqs[i].state = "pending"
              /\ \/ LET id == Cardinality(dataSets) + 2
                    IN  /\ dataSets' = dataSets \cup {[id |-> id, client |-> reqs[i].client]}
                        /\ reqs' = [reqs EXCEPT ![i].state = "done", ![i].ds = id]
                 \/ /\ reqs' = [reqs EXCEPT ![i].state = "failed"]
                    /\ UNCHANGED dataSets
              /\ UNCHANGED <<managerVars, callVars, added, parked>>
        BY <1>20 DEF ChainCreate
    <2>2. reqs[i] \in Request /\ reqs[i].client \in ClientIds
        BY <2>1
    <2>3. UNCHANGED <<managerVars, callVars, added, parked>>
        BY <2>1
    <2>4. CASE reqs' = [reqs EXCEPT ![i].state = "failed"] /\ UNCHANGED dataSets
        <3> DEFINE r == [reqs[i] EXCEPT !.state = "failed"]
        <3>1. r \in Request /\ r.kind = "create" /\ r.client = reqs[i].client
            BY <2>1, <2>2 DEF Request
        <3>2. reqs' = [reqs EXCEPT ![i] = r]
            BY <2>4
        <3>3. reqs' \in Seq(Request) /\ DOMAIN reqs' = DOMAIN reqs /\ Len(reqs') = Len(reqs)
            BY <3>1, <3>2, SeqUpdate
        <3>4. RequestShapes'
            BY <2>2, <3>1, <3>2, <3>3
        <3>5. QED
            BY <2>3, <2>4, <3>3, <3>4 DEF managerVars, callVars
    <2>5. CASE /\ dataSets' = dataSets \cup {[id |-> Cardinality(dataSets) + 2,
                                               client |-> reqs[i].client]}
               /\ reqs' = [reqs EXCEPT ![i].state = "done",
                                       ![i].ds = Cardinality(dataSets) + 2]
        <3> DEFINE n == Cardinality(dataSets) + 2
                   r == [reqs[i] EXCEPT !.state = "done", !.ds = n]
        <3>1. n \in Nat
            BY FS_CardinalityType
        <3>2. r \in Request /\ r.kind = "create" /\ r.client = reqs[i].client
            BY <2>1, <2>2, <3>1 DEF Request
        <3>3. reqs' = [reqs EXCEPT ![i] = r]
            BY <2>5
        <3>4. reqs' \in Seq(Request) /\ DOMAIN reqs' = DOMAIN reqs /\ Len(reqs') = Len(reqs)
            BY <3>2, <3>3, SeqUpdate
        <3>5. RequestShapes'
            BY <2>2, <3>2, <3>3, <3>4
        <3>6. IsFiniteSet(dataSets')
            BY <2>5, FS_AddElement
        <3>8. dataSets' \subseteq [id : Nat, client : ClientIds]
            BY <2>2, <2>5, <3>1
        <3>7. QED
            BY <2>3, <3>4, <3>5, <3>6, <3>8 DEF managerVars, callVars
    <2>6. QED
        BY <2>1, <2>4, <2>5
<1>21. CASE ChainAdd
    <2>1. PICK i \in DOMAIN reqs :
              /\ reqs[i].kind = "add"
              /\ reqs[i].state = "pending"
              /\ \/ /\ [id |-> reqs[i].ds, client |-> reqs[i].client] \in dataSets
                    /\ added' = added \cup {[ds |-> reqs[i].ds, piece |-> reqs[i].piece, req |-> i]}
                    /\ reqs' = [reqs EXCEPT ![i].state = "done"]
                 \/ /\ reqs' = [reqs EXCEPT ![i].state = "failed"]
                    /\ UNCHANGED added
              /\ UNCHANGED <<managerVars, callVars, dataSets, parked>>
        BY <1>21 DEF ChainAdd
    <2>2. reqs[i] \in Request /\ reqs[i].piece \in Pieces /\ i \in Nat
        BY <2>1
    <2>3. PICK st \in {"done", "failed"} : reqs' = [reqs EXCEPT ![i].state = st]
        BY <2>1
    <2> DEFINE r == [reqs[i] EXCEPT !.state = st]
    <2>4. r \in Request /\ r.kind = "add" /\ r.piece = reqs[i].piece
        BY <2>1, <2>2 DEF Request
    <2>5. reqs' = [reqs EXCEPT ![i] = r]
        BY <2>3
    <2>6. reqs' \in Seq(Request) /\ DOMAIN reqs' = DOMAIN reqs /\ Len(reqs') = Len(reqs)
        BY <2>4, <2>5, SeqUpdate
    <2>7. RequestShapes'
        BY <2>2, <2>4, <2>5, <2>6
    <2>8. added' \subseteq [ds : Nat, piece : Pieces, req : Nat]
        BY <2>1, <2>2 DEF Request
    <2>9. QED
        BY <2>1, <2>6, <2>7, <2>8 DEF managerVars, callVars
<1>22. CASE UNCHANGED vars
    BY <1>22 DEF vars, managerVars, callVars, serverVars
<1>23. QED
    BY <1>1, <1>2, <1>3, <1>4, <1>5, <1>6, <1>7, <1>8, <1>9, <1>10, <1>11,
       <1>12, <1>13, <1>14, <1>15, <1>16, <1>17, <1>18, <1>19, <1>20, <1>21,
       <1>22 DEF Next

\* Appending a request keeps the earlier ones where they were.
LEMMA AppendRequest ==
    ASSUME NEW s \in Seq(Request), NEW r \in Request
    PROVE  /\ Append(s, r) \in Seq(Request)
           /\ DOMAIN Append(s, r) = DOMAIN s \cup {Len(s) + 1}
           /\ Len(s) + 1 \notin DOMAIN s
           /\ Append(s, r)[Len(s) + 1] = r
           /\ \A j \in DOMAIN s : Append(s, r)[j] = s[j]
    OBVIOUS

LEMMA InitResult == Init => ResultInv
    BY DEF Init, ResultInv, WaitingOwnAdd, AddedOnChain, ResultPieceOnChain

\* Every step keeps ResultInv.
LEMMA StepResult == TypesInv /\ ResultInv /\ [Next]_vars => ResultInv'
<1> SUFFICES ASSUME TypesInv, ResultInv, [Next]_vars PROVE ResultInv'
    OBVIOUS
<1>0. reqs \in Seq(Request)
    BY DEF TypesInv, TypeOK
<1> USE DEF ResultInv, WaitingOwnAdd, AddedOnChain, ResultPieceOnChain
\* Steps that leave the requests, the chain's pieces and the results
\* alone, and do not enter or stay in the add wait.
<1>1. ASSUME UNCHANGED <<reqs, added, results>>, pc' # "waitAdd"
      PROVE  ResultInv'
    BY <1>1
<1>2. CASE StartUpload \/ EnsureLoaded \/ EnsureNoFetcher \/ FetchClientId
           \/ FetchFails \/ CreateNotSent \/ WaitCreateDone \/ WaitCreateNoID
           \/ WaitCreateFails \/ UploadPieceOk \/ UploadPieceFails
           \/ WaitPieceDone \/ WaitPieceFails \/ AddNotSent \/ WaitAddNoIDs
           \/ WaitAddFails
    <2>1. UNCHANGED <<reqs, added, results>> /\ pc' # "waitAdd"
        BY <1>2 DEF StartUpload, EnsureLoaded, EnsureNoFetcher, FetchClientId,
                    FetchFails, CreateNotSent, WaitCreateDone, WaitCreateNoID,
                    WaitCreateFails, UploadPieceOk, UploadPieceFails,
                    WaitPieceDone, WaitPieceFails, AddNotSent, WaitAddNoIDs,
                    WaitAddFails, Fail, serverVars
    <2>2. QED
        BY <1>1, <2>1
<1>3. CASE \E a \in BOOLEAN : CreateTaken(a)
    <2>1. PICK c \in FreshClientIds :
              /\ reqs' = Append(reqs, [kind |-> "create", client |-> c, ds |-> 0,
                                       piece |-> "none", state |-> "pending"])
              /\ pc' \in {"waitCreate", "idle"}
              /\ UNCHANGED <<results, added>>
        BY <1>3 DEF CreateTaken, Fail
    <2>2. [kind |-> "create", client |-> c, ds |-> 0, piece |-> "none",
           state |-> "pending"] \in Request
        BY StorageManagerAssumption DEF FreshClientIds, ClientIds, Request
    <2> DEFINE r == [kind |-> "create", client |-> c, ds |-> 0, piece |-> "none",
                     state |-> "pending"]
    <2>3. /\ DOMAIN reqs' = DOMAIN reqs \cup {Len(reqs) + 1}
          /\ reqs'[Len(reqs) + 1] = r
          /\ \A j \in DOMAIN reqs : reqs'[j] = reqs[j]
        BY <1>0, <2>1, <2>2, AppendRequest
    <2>4. WaitingOwnAdd'
        BY <2>1
    <2>5. AddedOnChain'
        BY <2>1, <2>3
    <2>6. ResultPieceOnChain'
        BY <2>1
    <2>7. QED
        BY <2>4, <2>5, <2>6
<1>4. CASE \E a \in BOOLEAN : AddTaken(a)
    <2>1. PICK a \in BOOLEAN :
              /\ reqs' = Append(reqs, [kind |-> "add", client |-> clientDataSetID,
                                       ds |-> dataSetID, piece |-> piece,
                                       state |-> "pending"])
              /\ IF a THEN pc' = "waitAdd" /\ curReq' = Len(reqs) + 1
                         /\ UNCHANGED <<piece, lastErr>>
                   ELSE Fail("addPieces") /\ UNCHANGED curReq
              /\ UNCHANGED <<managerVars, results, added>>
        BY <1>4 DEF AddTaken
    <2> DEFINE r == [kind |-> "add", client |-> clientDataSetID, ds |-> dataSetID,
                     piece |-> piece, state |-> "pending"]
    <2>2. r \in Request
        BY <1>4 DEF AddTaken, TypesInv, TypeOK, BusyPiece, Request
    <2>3. /\ DOMAIN reqs' = DOMAIN reqs \cup {Len(reqs) + 1}
          /\ Len(reqs) + 1 \notin DOMAIN reqs
          /\ reqs'[Len(reqs) + 1] = r
          /\ \A j \in DOMAIN reqs : reqs'[j] = reqs[j]
        BY <1>0, <2>1, <2>2, AppendRequest
    <2>4. AddedOnChain' /\ ResultPieceOnChain'
        BY <2>1, <2>3
    <2>5. WaitingOwnAdd'
        BY <2>1, <2>3 DEF Fail, managerVars
    <2>6. QED
        BY <2>4, <2>5
<1>5. CASE WaitAddDone
    <2>1. pc = "waitAdd" /\ reqs[curReq].state = "done"
        BY <1>5 DEF WaitAddDone
    <2>2. [ds |-> dataSetID, piece |-> piece, req |-> curReq] \in added
        BY <2>1
    <2>3. results' = results \cup {[piece |-> piece, ds |-> dataSetID]}
          /\ UNCHANGED <<reqs, added>> /\ pc' = "idle"
        BY <1>5 DEF WaitAddDone, serverVars
    <2>4. QED
        BY <2>2, <2>3
<1>6. CASE ChainCreate
    <2>1. PICK i \in DOMAIN reqs :
              /\ reqs[i].kind = "create"
              /\ \/ reqs' = [reqs EXCEPT ![i].state = "done",
                                         ![i].ds = Cardinality(dataSets) + 2]
                 \/ reqs' = [reqs EXCEPT ![i].state = "failed"]
              /\ UNCHANGED <<managerVars, callVars, added>>
        BY <1>6 DEF ChainCreate
    <2>2. reqs[i] \in Request
        BY <1>0
    <2>3. PICK r : /\ reqs' = [reqs EXCEPT ![i] = r]
                  /\ r.kind = "create"
        <3>1. CASE reqs' = [reqs EXCEPT ![i].state = "failed"]
            <4> DEFINE r1 == [reqs[i] EXCEPT !.state = "failed"]
            <4>1. r1.kind = "create"
                BY <2>1, <2>2 DEF Request
            <4>2. QED
                BY <3>1, <4>1
        <3>2. CASE reqs' = [reqs EXCEPT ![i].state = "done",
                                        ![i].ds = Cardinality(dataSets) + 2]
            <4> DEFINE r2 == [reqs[i] EXCEPT !.state = "done",
                                             !.ds = Cardinality(dataSets) + 2]
            <4>1. r2.kind = "create"
                BY <2>1, <2>2 DEF Request
            <4>2. QED
                BY <3>2, <4>1
        <3>3. QED
            BY <2>1, <3>1, <3>2
    <2>4. /\ DOMAIN reqs' = DOMAIN reqs
          /\ reqs'[i].kind = "create"
          /\ \A j \in DOMAIN reqs : j # i => reqs'[j] = reqs[j]
        BY <2>3
    <2>5. QED
        BY <2>1, <2>4 DEF managerVars, callVars
<1>7. CASE ChainAdd
    <2>1. PICK i \in DOMAIN reqs :
              /\ reqs[i].kind = "add"
              /\ \/ /\ added' = added \cup {[ds |-> reqs[i].ds, piece |-> reqs[i].piece, req |-> i]}
                    /\ reqs' = [reqs EXCEPT ![i].state = "done"]
                 \/ /\ reqs' = [reqs EXCEPT ![i].state = "failed"]
                    /\ UNCHANGED added
              /\ UNCHANGED <<managerVars, callVars>>
        BY <1>7 DEF ChainAdd
    <2>2. reqs[i] \in Request
        BY <1>0
    <2>3. PICK st \in {"done", "failed"} :
              /\ reqs' = [reqs EXCEPT ![i] = [reqs[i] EXCEPT !.state = st]]
              /\ st = "done" => [ds |-> reqs[i].ds, piece |-> reqs[i].piece, req |-> i] \in added'
              /\ added \subseteq added'
        BY <2>1
    <2> DEFINE r == [reqs[i] EXCEPT !.state = st]
    <2>4. r.kind = "add" /\ r.ds = reqs[i].ds /\ r.piece = reqs[i].piece /\ r.state = st
        BY <2>1, <2>2 DEF Request
    <2>5. DOMAIN reqs' = DOMAIN reqs /\ reqs'[i] = r
          /\ \A j \in DOMAIN reqs : j # i => reqs'[j] = reqs[j]
        BY <2>3
    <2>6. UNCHANGED <<pc, curReq, dataSetID, piece, results>>
        BY <2>1 DEF managerVars, callVars
    <2>7. AddedOnChain'
        BY <2>3, <2>4, <2>5
    <2>8. WaitingOwnAdd'
        BY <2>4, <2>5, <2>6
    <2>9. ResultPieceOnChain'
        BY <2>3, <2>6
    <2>10. QED
        BY <2>7, <2>8, <2>9
<1>8. CASE UNCHANGED vars
    BY <1>8 DEF vars, managerVars, callVars, serverVars
<1>9. QED
    BY <1>2, <1>3, <1>4, <1>5, <1>6, <1>7, <1>8 DEF Next

\* Every AddPieces request the Manager sends is signed for the
\* clientDataSetId of the data set it targets (storage.Manager's
\* ensureDataSet, ensureClientDataSetID and addPieceToDataSet).
THEOREM AddsSignedInv == Spec => []AddsSignedForDataSet
<1>1. SignedInv => AddsSignedForDataSet
    BY DEF SignedInv
<1>2. QED
    BY InitSigned, StepSigned, <1>1, PTL DEF Spec

LEMMA InitIInv == Init => IInv
    BY InitSigned, InitTypes, InitResult DEF IInv

LEMMA StepIInv == IInv /\ [Next]_vars => IInv'
    BY StepSigned, StepTypes, StepResult DEF IInv

\* Every reachable state of the Manager, the server and the chain is well
\* typed, for every set of pieces and every bound: in particular every
\* UploadResult names a piece, and the Manager's clientDataSetID is one
\* of the ids drawn, or 0.
THEOREM TypeCorrect == Spec => []TypeOK
<1>1. IInv => TypeOK
    BY DEF IInv, TypesInv
<1>2. QED
    BY InitIInv, StepIInv, <1>1, PTL DEF Spec

\* Upload returns an UploadResult only for a piece the chain added to the
\* data set the result names (WaitForPieceAddition returns only once the
\* add message of this Upload's AddPieces request landed).
THEOREM ResultOnChainInv == Spec => []ResultPieceOnChain
<1>1. IInv => ResultPieceOnChain
    BY DEF IInv, ResultInv
<1>2. QED
    BY InitIInv, StepIInv, <1>1, PTL DEF Spec

=============================================================================
