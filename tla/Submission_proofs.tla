---------------------------- MODULE Submission_proofs ----------------------------
(***************************************************************************)
(* Theorems about Submission, for every set of transactions, organizations *)
(* and requests, and any number of crashes.                                *)
(***************************************************************************)
EXTENDS Submission, FiniteSetTheorems, TLAPS

(* Types whose use cases make further rows. *)
Storing == {"CREATE_ORGANIZATION", "PROPOSAL_CONTRIBUTOR", "PROPOSAL_PROJECT"}

TablesTypeOK ==
    /\ DOMAIN transactions \subseteq Transactions
    /\ \A tx \in DOMAIN transactions : transactions[tx] \in Row
    /\ chain \in [Transactions -> ChainStatus]
    /\ on_chain \subseteq Orgs
    /\ organizations \subseteq Orgs
    /\ proposals \in [Transactions -> Nat]

RequestsTypeOK ==
    requests \in [Requests -> [transaction : Transactions \cup {NoTransaction}, step : Step,
                               resubmission : BOOLEAN]]

(* The levels that are not rolled back.                                    *)
Stable == {"confirmed", "finalized"}

(* The transaction did what it says, as far as its use case awaits.        *)
Landed(tx) == Committed(tx) /\ ~chain[tx].err

(* What is not prepared is nowhere, and organizations are confirmed with   *)
(* their transactions.                                                     *)
ChainSound ==
    /\ \A tx \in Transactions : tx \notin DOMAIN transactions =>
         chain[tx].level = "unsent" /\ proposals[tx] = 0
    /\ \A tx \in DOMAIN transactions :
         chain[tx].level \in Stable /\ ~chain[tx].err
         /\ transactions[tx].type = "CREATE_ORGANIZATION"
           => transactions[tx].organization \in on_chain

(* What a request has reached, others have not taken back.                 *)
Answered(r) ==
    /\ Landed(requests[r].transaction)
    /\ Type(r) # "COMPLETE_TASK" => transactions[requests[r].transaction].recorded
    /\ Type(r) = "CREATE_ORGANIZATION" => Organization(r) \in organizations
    /\ Type(r) = "PROPOSAL_CONTRIBUTOR" => proposals[requests[r].transaction] > 0

RequestSound(r) ==
    /\ requests[r].step # "none" => requests[r].transaction \in DOMAIN transactions
    /\ requests[r].step = "update" =>
         Landed(requests[r].transaction) /\ Type(r) # "COMPLETE_TASK"
    /\ requests[r].step = "create" =>
         /\ Landed(requests[r].transaction)
         /\ transactions[requests[r].transaction].recorded
         /\ Type(r) \in Storing
    /\ requests[r].step = "answered" => Answered(r)
    /\ requests[r].resubmission =>
         /\ requests[r].step \in {"find", "send", "refused"}
         /\ chain[requests[r].transaction].level = "finalized"

RequestsSound == \A r \in Requests : RequestSound(r)

(* Requests that came to the end of a transaction; each has made a row of  *)
(* its proposal at most once.                                              *)
Over(tx) == {r \in Requests : /\ requests[r].transaction = tx
                              /\ requests[r].step \in {"answered", "interrupted"}}

RowsCounted == \A tx \in Transactions : proposals[tx] <= Cardinality(Over(tx))

SubmissionInv ==
    /\ TablesTypeOK
    /\ RequestsTypeOK
    /\ ChainSound
    /\ RecordedIsOnChain
    /\ RequestsSound
    /\ RowsCounted

-----------------------------------------------------------------------------
(* What every step leaves: rows, and what the network has confirmed.       *)
Grows ==
    /\ \A tx \in DOMAIN transactions :
         /\ tx \in DOMAIN transactions'
         /\ transactions'[tx].type = transactions[tx].type
         /\ transactions'[tx].organization = transactions[tx].organization
         /\ transactions[tx].recorded => transactions'[tx].recorded
    /\ \A tx \in Transactions : chain[tx].level \in Stable =>
         /\ chain'[tx].level \in Stable /\ chain'[tx].err = chain[tx].err
         /\ chain[tx].level = "finalized" => chain'[tx].level = "finalized"
    /\ organizations \subseteq organizations'
    /\ \A tx \in Transactions : proposals[tx] > 0 => proposals'[tx] > 0

(* The use cases that store a txHash, those that make further rows, and    *)
(* what each of them awaits.                                               *)
LEMMA UseCases ==
    /\ \A type \in TransactionTypes : "update" \in UseCase[type].steps <=> type # "COMPLETE_TASK"
    /\ \A type \in TransactionTypes : "create" \in UseCase[type].steps <=> type \in Storing
    /\ \A type \in TransactionTypes : UseCase[type].commitment \in Stable
  <1>1. ASSUME NEW type \in TransactionTypes
        PROVE  /\ "update" \in UseCase[type].steps <=> type # "COMPLETE_TASK"
               /\ "create" \in UseCase[type].steps <=> type \in Storing
               /\ UseCase[type].commitment \in Stable
    BY DEF TransactionTypes, VoteTypes, UseCase, CompleteTask, CreateTask, EnableWithdraw,
           VoteProposal, StoresMore, Carry, Storing, Stable
  <1> QED
    BY <1>1

(* What has the commitment that its use case awaits is not rolled back.    *)
LEMMA CommittedIsStable ==
    ASSUME TablesTypeOK, NEW tx \in DOMAIN transactions
    PROVE  /\ Committed(tx) => chain[tx].level \in Stable
           /\ chain[tx].level = "finalized" => Committed(tx)
  <1>1. UseCase[transactions[tx].type].commitment \in Stable
    BY UseCases DEF TablesTypeOK, Row
  <1> QED
    BY <1>1 DEF Committed, AtLeast, Stable

(* So a step leaves what has landed.                                       *)
LEMMA LandedStays ==
    ASSUME TablesTypeOK, Grows, NEW tx \in DOMAIN transactions, Landed(tx)
    PROVE  Landed(tx)'
  <1> DEFINE c == UseCase[transactions[tx].type].commitment
  <1>1. c \in Stable /\ tx \in Transactions
    BY UseCases DEF TablesTypeOK, Row
  <1>2. UseCase[transactions'[tx].type].commitment = c
    BY DEF Grows
  <1>3. chain[tx].level \in AtLeast[c] /\ ~chain[tx].err
    BY DEF Landed, Committed
  <1> HIDE DEF c
  <1>4. /\ chain[tx].level \in Stable
        /\ chain'[tx].level \in Stable /\ chain'[tx].err = chain[tx].err
        /\ chain[tx].level = "finalized" => chain'[tx].level = "finalized"
    BY <1>1, <1>3 DEF AtLeast, Stable, Grows
  <1>5. chain'[tx].level \in AtLeast[c]
    BY <1>1, <1>3, <1>4 DEF AtLeast, Stable
  <1> QED
    BY <1>2, <1>3, <1>4, <1>5 DEF Landed, Committed

(* A request that stands still stays sound while the rest grows.           *)
LEMMA StandsStill ==
    ASSUME SubmissionInv, Grows
    PROVE  \A r \in Requests :
             requests'[r] = requests[r] => RequestSound(r)'
  <1> SUFFICES ASSUME NEW r \in Requests, requests'[r] = requests[r]
               PROVE  RequestSound(r)'
    OBVIOUS
  <1>1. RequestSound(r) /\ requests[r] \in [transaction : Transactions \cup {NoTransaction},
                                            step : Step, resubmission : BOOLEAN]
    BY DEF SubmissionInv, RequestsSound, RequestsTypeOK
  <1>2. CASE requests[r].step = "none"
    BY <1>1, <1>2 DEF RequestSound
  <1>3. CASE requests[r].step # "none"
    <2> DEFINE tx == requests[r].transaction
    <2>1. tx \in DOMAIN transactions /\ tx \in Transactions
      BY <1>1, <1>3 DEF RequestSound, SubmissionInv, TablesTypeOK
    <2>2. /\ Landed(tx) => Landed(tx)'
          /\ chain[tx].level = "finalized" => chain'[tx].level = "finalized"
      BY <2>1, LandedStays DEF SubmissionInv, Grows, Stable
    <2> QED
      BY <1>1, <1>3, <2>1, <2>2 DEF RequestSound, Grows, Answered, Type, Organization
  <1> QED
    BY <1>2, <1>3

(* Rows are counted by the requests that are over: a request that moves on *)
(* may add one as it ends.                                                 *)
LEMMA MoveCounts ==
    ASSUME SubmissionInv, NEW r \in Requests, NEW s \in Step, requests[r].step \in Running,
           Goto(r, s), proposals' \in [Transactions -> Nat],
           \A tx \in Transactions :
             \/ proposals'[tx] = proposals[tx]
             \/ /\ tx = requests[r].transaction /\ s \in {"answered", "interrupted"}
                /\ proposals'[tx] = proposals[tx] + 1
    PROVE  RowsCounted'
  <1> SUFFICES ASSUME NEW tx \in Transactions
               PROVE  proposals'[tx] <= Cardinality(Over(tx)')
    BY DEF RowsCounted, Over
  <1>1. /\ requests'[r].transaction = requests[r].transaction /\ requests'[r].step = s
        /\ \A q \in Requests : q # r => requests'[q] = requests[q]
    BY DEF Goto, SubmissionInv, RequestsTypeOK
  <1>2. IsFiniteSet(Over(tx)) /\ IsFiniteSet(Over(tx)') /\ IsFiniteSet(Over(tx) \cup {r})
    <2>1. Over(tx) \in SUBSET Requests /\ Over(tx)' \in SUBSET Requests
          /\ Over(tx) \cup {r} \in SUBSET Requests
      BY DEF Over
    <2> QED
      BY <2>1, SubmissionAssumption, FS_Subset
  <1>3. r \notin Over(tx) /\ Over(tx) \subseteq Over(tx)'
    BY <1>1 DEF Over, Running
  <1>4. /\ Cardinality(Over(tx)) \in Nat /\ Cardinality(Over(tx)') \in Nat
        /\ Cardinality(Over(tx)) <= Cardinality(Over(tx)')
    BY <1>2, <1>3, FS_CardinalityType, FS_Subset
  <1>5. /\ proposals[tx] \in Nat /\ proposals'[tx] \in Nat
        /\ proposals[tx] <= Cardinality(Over(tx))
    BY DEF SubmissionInv, TablesTypeOK, RowsCounted
  <1>6. CASE proposals'[tx] = proposals[tx]
    BY <1>4, <1>5, <1>6
  <1>7. CASE /\ tx = requests[r].transaction /\ s \in {"answered", "interrupted"}
             /\ proposals'[tx] = proposals[tx] + 1
    <2>1. Over(tx)' = Over(tx) \cup {r}
      BY <1>1, <1>7 DEF Over
    <2>2. Cardinality(Over(tx)') = Cardinality(Over(tx)) + 1
      BY <1>2, <1>3, <2>1, FS_AddElement
    <2> QED
      BY <1>4, <1>5, <1>7, <2>2
  <1> QED
    BY <1>6, <1>7

(* A step of one request keeps the invariant when it is sound itself.      *)
LEMMA MoveKeeps ==
    ASSUME SubmissionInv, NEW r \in Requests, NEW s \in Step, requests[r].step \in Running,
           Goto(r, s), Grows, TablesTypeOK', ChainSound', RecordedIsOnChain', RequestSound(r)',
           \A tx \in Transactions :
             \/ proposals'[tx] = proposals[tx]
             \/ /\ tx = requests[r].transaction /\ s \in {"answered", "interrupted"}
                /\ proposals'[tx] = proposals[tx] + 1
    PROVE  SubmissionInv'
  <1>1. RowsCounted'
    BY MoveCounts DEF TablesTypeOK
  <1>2. /\ RequestsTypeOK'
        /\ \A q \in Requests : q # r => requests'[q] = requests[q]
    BY DEF Goto, SubmissionInv, RequestsTypeOK
  <1>3. RequestsSound'
    <2> SUFFICES ASSUME NEW q \in Requests
                 PROVE  RequestSound(q)'
      BY DEF RequestsSound
    <2>1. CASE q = r
      BY <2>1
    <2>2. CASE q # r
      BY <1>2, <2>2, StandsStill
    <2> QED
      BY <2>1, <2>2
  <1> QED
    BY <1>1, <1>2, <1>3 DEF SubmissionInv

(* A step of no request keeps the invariant when the rest grows.           *)
LEMMA RestKeeps ==
    ASSUME SubmissionInv, Grows, TablesTypeOK', ChainSound', RecordedIsOnChain',
           UNCHANGED <<requests, proposals>>
    PROVE  SubmissionInv'
  <1>1. RequestsSound'
    <2> SUFFICES ASSUME NEW q \in Requests
                 PROVE  RequestSound(q)'
      BY DEF RequestsSound
    <2> QED
      BY StandsStill
  <1> QED
    BY <1>1 DEF SubmissionInv, RequestsTypeOK, RowsCounted, Over

(* Before anything is prepared the invariant holds.                        *)
THEOREM SubmissionInit == Init => SubmissionInv
  <1> SUFFICES ASSUME Init PROVE SubmissionInv
    OBVIOUS
  <1>1. TablesTypeOK /\ RequestsTypeOK /\ ChainSound /\ RecordedIsOnChain
    BY DEF Init, TablesTypeOK, RequestsTypeOK, ChainSound, RecordedIsOnChain, ChainStatus, Step
  <1>2. RequestsSound
    BY DEF Init, RequestsSound, RequestSound
  <1>3. RowsCounted
    <2> SUFFICES ASSUME NEW tx \in Transactions
                 PROVE  proposals[tx] <= Cardinality(Over(tx))
      BY DEF RowsCounted
    <2>1. Over(tx) \in SUBSET Requests
      BY DEF Over
    <2>2. Cardinality(Over(tx)) \in Nat
      BY <2>1, SubmissionAssumption, FS_Subset, FS_CardinalityType
    <2> QED
      BY <2>2 DEF Init
  <1> QED
    BY <1>1, <1>2, <1>3 DEF SubmissionInv

(* A prepared transaction is a new row, of something not yet sent.         *)
LEMMA PrepareKeeps ==
    ASSUME SubmissionInv, NEW tx \in Transactions, NEW type \in TransactionTypes, NEW o \in Orgs,
           CreateTransaction(tx, type, o)
    PROVE  SubmissionInv'
  <1> DEFINE row == [type |-> type, organization |-> o, recorded |-> FALSE]
  <1>1. /\ tx \notin DOMAIN transactions
        /\ DOMAIN transactions' = DOMAIN transactions \cup {tx}
        /\ transactions'[tx] = row
        /\ \A t \in DOMAIN transactions : transactions'[t] = transactions[t]
        /\ UNCHANGED <<organizations, proposals, chain, on_chain, requests>>
    BY DEF CreateTransaction, network
  <1>2. row \in Row /\ ~row.recorded
    BY DEF Row
  <1> HIDE DEF row
  <1>3. TablesTypeOK'
    BY <1>1, <1>2 DEF SubmissionInv, TablesTypeOK
  <1>4. Grows
    BY <1>1 DEF Grows
  <1>5. ChainSound'
    BY <1>1 DEF SubmissionInv, ChainSound, Stable
  <1>6. RecordedIsOnChain'
    <2>1. \A t \in DOMAIN transactions :
            transactions[t].recorded \/ proposals[t] > 0 => Landed(t)'
      BY <1>4, LandedStays DEF SubmissionInv, RecordedIsOnChain, Landed
    <2> QED
      BY <1>1, <1>2, <2>1 DEF SubmissionInv, RecordedIsOnChain, ChainSound, Landed
  <1> QED
    BY <1>1, <1>3, <1>4, <1>5, <1>6, RestKeeps

(* The network takes back what is not confirmed only; an organization is   *)
(* confirmed with the transaction that creates it.                         *)
LEMMA NetworkKeeps ==
    ASSUME SubmissionInv, NEW tx \in DOMAIN transactions,
           Execute(tx) \/ RollBack(tx) \/ Confirm(tx) \/ Finalize(tx) \/ Drop(tx)
    PROVE  SubmissionInv'
  <1>1. /\ tx \in Transactions /\ transactions[tx] \in Row
        /\ chain \in [Transactions -> ChainStatus] /\ chain[tx] \in ChainStatus
    BY DEF SubmissionInv, TablesTypeOK
  <1>2. PICK status \in ChainStatus :
          /\ chain' = [chain EXCEPT ![tx] = status]
          /\ chain[tx].level \in Stable =>
               chain[tx].level = "confirmed" /\ status.level = "finalized"
               /\ status.err = chain[tx].err
          /\ UNCHANGED <<transactions, organizations, proposals, requests>>
          /\ on_chain \subseteq on_chain' /\ on_chain' \subseteq Orgs
          /\ status.level \in Stable /\ ~status.err
             /\ transactions[tx].type = "CREATE_ORGANIZATION"
               => transactions[tx].organization \in on_chain'
    <2>1. CASE Execute(tx)
      <3>1. PICK err \in BOOLEAN :
              chain' = [chain EXCEPT ![tx] = [level |-> "processed", err |-> err]]
        BY <2>1 DEF Execute
      <3> [level |-> "processed", err |-> err] \in ChainStatus
        BY DEF ChainStatus, Executed
      <3> WITNESS [level |-> "processed", err |-> err] \in ChainStatus
      <3> QED
        BY <2>1, <3>1 DEF Execute, tables, Stable, SubmissionInv, TablesTypeOK
    <2>2. CASE RollBack(tx)
      <3> [level |-> "pending", err |-> FALSE] \in ChainStatus
        BY DEF ChainStatus
      <3> WITNESS [level |-> "pending", err |-> FALSE] \in ChainStatus
      <3> QED
        BY <2>2 DEF RollBack, tables, Stable, SubmissionInv, TablesTypeOK
    <2>3. CASE Confirm(tx)
      <3> DEFINE status == [chain[tx] EXCEPT !.level = "confirmed"]
      <3>1. /\ status \in ChainStatus /\ status.level = "confirmed" /\ status.err = chain[tx].err
            /\ chain' = [chain EXCEPT ![tx] = status] /\ chain[tx].level = "processed"
        BY <1>1, <2>3 DEF Confirm, Advance, ChainStatus, Executed
      <3> HIDE DEF status
      <3> status \in ChainStatus
        BY <3>1
      <3> WITNESS status \in ChainStatus
      <3> QED
        BY <1>1, <2>3, <3>1 DEF Confirm, tables, Stable, SubmissionInv, TablesTypeOK, Row
    <2>4. CASE Finalize(tx)
      <3> DEFINE status == [chain[tx] EXCEPT !.level = "finalized"]
      <3>1. /\ status \in ChainStatus /\ status.level = "finalized" /\ status.err = chain[tx].err
            /\ chain' = [chain EXCEPT ![tx] = status] /\ chain[tx].level = "confirmed"
        BY <1>1, <2>4 DEF Finalize, Advance, ChainStatus, Executed
      <3> HIDE DEF status
      <3> status \in ChainStatus
        BY <3>1
      <3> WITNESS status \in ChainStatus
      <3> QED
        BY <1>1, <2>4, <3>1 DEF Finalize, tables, Stable, SubmissionInv, TablesTypeOK, ChainSound
    <2>5. CASE Drop(tx)
      <3> DEFINE status == [chain[tx] EXCEPT !.level = "dropped"]
      <3>1. /\ status \in ChainStatus /\ status.level = "dropped"
            /\ chain' = [chain EXCEPT ![tx] = status] /\ chain[tx].level \in {"unsent", "pending"}
        BY <1>1, <2>5 DEF Drop, Advance, ChainStatus
      <3> HIDE DEF status
      <3> status \in ChainStatus
        BY <3>1
      <3> WITNESS status \in ChainStatus
      <3> QED
        BY <1>1, <2>5, <3>1 DEF Drop, tables, Stable, SubmissionInv, TablesTypeOK
    <2> QED
      BY <2>1, <2>2, <2>3, <2>4, <2>5
  <1>3. /\ chain'[tx] = status /\ chain' \in [Transactions -> ChainStatus]
        /\ \A t \in Transactions : t # tx => chain'[t] = chain[t]
    BY <1>1, <1>2
  <1>4. TablesTypeOK' /\ Grows
    BY <1>1, <1>2, <1>3 DEF SubmissionInv, TablesTypeOK, Grows, Stable
  <1>5. ChainSound'
    BY <1>1, <1>2, <1>3 DEF SubmissionInv, TablesTypeOK, ChainSound
  <1>6. RecordedIsOnChain'
    <2>1. \A t \in DOMAIN transactions :
            transactions[t].recorded \/ proposals[t] > 0 => Landed(t)'
      BY <1>4, LandedStays DEF SubmissionInv, RecordedIsOnChain, Landed
    <2> QED
      BY <1>2, <2>1 DEF SubmissionInv, RecordedIsOnChain, Landed
  <1> QED
    BY <1>2, <1>4, <1>5, <1>6, RestKeeps

(* A join stores an organization that is on the chain.                     *)
LEMMA JoinKeeps ==
    ASSUME SubmissionInv, NEW o \in Orgs, JoinUnknownOrganization(o)
    PROVE  SubmissionInv'
  <1>1. /\ organizations' = organizations \cup {o} /\ o \in on_chain
        /\ UNCHANGED <<transactions, proposals, chain, on_chain, requests>>
    BY DEF JoinUnknownOrganization, network
  <1>2. TablesTypeOK' /\ Grows /\ ChainSound' /\ RecordedIsOnChain'
    BY <1>1 DEF SubmissionInv, TablesTypeOK, Grows, ChainSound, RecordedIsOnChain, Committed
  <1> QED
    BY <1>1, <1>2, RestKeeps

(* A request starts at the beginning, for a row that exists.               *)
LEMMA SubmitKeeps ==
    ASSUME SubmissionInv, NEW r \in Requests, NEW tx \in Transactions, Submit(r, tx)
    PROVE  SubmissionInv'
  <1> DEFINE new == [transaction |-> tx, step |-> "find",
                     resubmission |-> chain[tx].level = "finalized"]
  <1>1. /\ requests[r].step = "none" /\ tx \in DOMAIN transactions
        /\ requests' = [requests EXCEPT ![r] = new]
        /\ UNCHANGED <<transactions, organizations, proposals, chain, on_chain>>
    BY DEF Submit, At, tables, network
  <1>2. new \in [transaction : Transactions \cup {NoTransaction}, step : Step,
                 resubmission : BOOLEAN]
    BY DEF Step, Running
  <1>3. /\ new.transaction = tx /\ new.step = "find"
        /\ new.resubmission => chain[tx].level = "finalized"
    OBVIOUS
  <1> HIDE DEF new
  <1>4. /\ RequestsTypeOK' /\ requests'[r] = new
        /\ \A q \in Requests : q # r => requests'[q] = requests[q]
    BY <1>1, <1>2 DEF SubmissionInv, RequestsTypeOK
  <1>5. TablesTypeOK' /\ Grows /\ ChainSound' /\ RecordedIsOnChain'
    BY <1>1 DEF SubmissionInv, TablesTypeOK, Grows, ChainSound, RecordedIsOnChain, Committed
  <1>6. RequestsSound'
    <2> SUFFICES ASSUME NEW q \in Requests
                 PROVE  RequestSound(q)'
      BY DEF RequestsSound
    <2>1. CASE q = r
      BY <1>1, <1>3, <1>4, <2>1 DEF RequestSound
    <2>2. CASE q # r
      BY <1>4, <1>5, <2>2, StandsStill
    <2> QED
      BY <2>1, <2>2
  <1>7. RowsCounted'
    <2> SUFFICES ASSUME NEW t \in Transactions
                 PROVE  Over(t)' = Over(t)
      BY <1>1 DEF SubmissionInv, RowsCounted
    <2> QED
      BY <1>1, <1>3, <1>4 DEF Over
  <1> QED
    BY <1>4, <1>5, <1>6, <1>7 DEF SubmissionInv

-----------------------------------------------------------------------------
(* What the lemmas below need of the request that moves.                   *)
LEMMA Moving ==
    ASSUME SubmissionInv, NEW r \in Requests, requests[r].step \in Running
    PROVE  /\ requests[r].transaction \in DOMAIN transactions
           /\ requests[r].transaction \in Transactions
           /\ transactions[requests[r].transaction] \in Row
           /\ Type(r) \in TransactionTypes /\ Organization(r) \in Orgs
           /\ RequestSound(r)
  BY DEF SubmissionInv, RequestsSound, RequestSound, Running, TablesTypeOK, Row, Type, Organization

(* A step that only moves a request on leaves everything else.             *)
LEMMA OnlyMoves ==
    ASSUME SubmissionInv, NEW r \in Requests, NEW s \in Step, requests[r].step \in Running,
           Goto(r, s), UNCHANGED <<transactions, organizations, proposals, chain, on_chain>>,
           s \in {"update", "create", "answered"} => RequestSound(r)',
           requests[r].resubmission => s \in {"send", "refused"}
    PROVE  SubmissionInv'
  <1>1. TablesTypeOK' /\ Grows /\ ChainSound' /\ RecordedIsOnChain'
    BY DEF SubmissionInv, TablesTypeOK, Grows, ChainSound, RecordedIsOnChain, Committed
  <1>2. /\ requests'[r].transaction = requests[r].transaction /\ requests'[r].step = s
        /\ requests'[r].resubmission = requests[r].resubmission
    BY DEF Goto, SubmissionInv, RequestsTypeOK
  <1>3. RequestSound(r)'
    <2>1. CASE s \in {"update", "create", "answered"}
      BY <2>1
    <2>2. CASE s \notin {"update", "create", "answered"}
      BY <1>2, <2>2, Moving DEF RequestSound
    <2> QED
      BY <2>1, <2>2
  <1> QED
    BY <1>1, <1>3, MoveKeeps

(* Reading moves a request on or ends it.                                  *)
LEMMA FindKeeps ==
    ASSUME SubmissionInv, NEW r \in Requests, FindTransaction(r)
    PROVE  SubmissionInv'
  <1>1. /\ requests[r].step \in Running
        /\ UNCHANGED <<transactions, organizations, proposals, chain, on_chain>>
    BY DEF FindTransaction, At, Running, tables, network
  <1>2. CASE Goto(r, "send")
    BY <1>1, <1>2, OnlyMoves DEF Step, Running
  <1>3. CASE Goto(r, "refused")
    BY <1>1, <1>3, OnlyMoves DEF Step
  <1> QED
    BY <1>2, <1>3 DEF FindTransaction

(* What is final is refused by the simulation.                             *)
LEMMA SendKeeps ==
    ASSUME SubmissionInv, NEW r \in Requests, SendRawTransaction(r)
    PROVE  SubmissionInv'
  <1> DEFINE tx == requests[r].transaction
  <1>1. /\ requests[r].step = "send" /\ requests[r].step \in Running
        /\ UNCHANGED <<transactions, organizations, proposals, on_chain>>
    BY DEF SendRawTransaction, At, Running, tables
  <1>2. CASE Simulated(tx) /\ Send(tx) /\ Goto(r, "confirm")
    <2>1. tx \in DOMAIN transactions /\ tx \in Transactions /\ RequestSound(r)
      BY <1>1, Moving
    <2>2. ~requests[r].resubmission
      BY <1>2, <2>1 DEF Simulated, RequestSound
    <2>3. /\ chain' \in [Transactions -> ChainStatus] /\ chain'[tx].err = chain[tx].err
          /\ chain[tx].level \in Stable \/ chain'[tx].level \in Stable
               => chain'[tx].level = chain[tx].level
          /\ \A t \in Transactions : t # tx => chain'[t] = chain[t]
      BY <1>2, <2>1 DEF Send, SubmissionInv, TablesTypeOK, ChainStatus, Stable
    <2>4. TablesTypeOK' /\ Grows
      BY <1>1, <2>3 DEF SubmissionInv, TablesTypeOK, Grows
    <2>5. ChainSound' /\ RecordedIsOnChain'
      <3>1. ChainSound'
        BY <1>1, <2>1, <2>3 DEF SubmissionInv, TablesTypeOK, ChainSound
      <3>2. \A t \in DOMAIN transactions :
              transactions[t].recorded \/ proposals[t] > 0 => Landed(t)'
        BY <2>4, LandedStays DEF SubmissionInv, RecordedIsOnChain, Landed
      <3> QED
        BY <1>1, <3>1, <3>2 DEF SubmissionInv, RecordedIsOnChain, Landed
    <2>6. /\ requests'[r].transaction = tx /\ requests'[r].step = "confirm"
          /\ ~requests'[r].resubmission
      BY <1>2, <2>2 DEF Goto, SubmissionInv, RequestsTypeOK
    <2>7. RequestSound(r)'
      BY <1>1, <2>1, <2>6 DEF RequestSound
    <2>8. "confirm" \in Step
      BY DEF Step, Running
    <2> QED
      BY <1>1, <1>2, <2>4, <2>5, <2>7, <2>8, MoveKeeps
  <1>3. CASE UNCHANGED chain /\ Goto(r, "refused")
    BY <1>1, <1>3, OnlyMoves DEF Step
  <1> QED
    BY <1>2, <1>3 DEF SendRawTransaction

(* A confirmed request goes on to store, or is answered when its use case  *)
(* stores nothing.                                                         *)
LEMMA ConfirmKeeps ==
    ASSUME SubmissionInv, NEW r \in Requests, ConfirmTransaction(r)
    PROVE  SubmissionInv'
  <1> DEFINE tx == requests[r].transaction
  <1>1. /\ requests[r].step = "confirm" /\ requests[r].step \in Running
        /\ UNCHANGED <<transactions, organizations, proposals, chain, on_chain>>
    BY DEF ConfirmTransaction, At, Running, tables, network
  <1>2. /\ tx \in DOMAIN transactions /\ Type(r) \in TransactionTypes
        /\ RequestSound(r) /\ ~requests[r].resubmission
    BY <1>1, Moving DEF RequestSound
  <1>3. CASE Confirmed(tx) /\ Proceed(r, "update")
    <2> DEFINE s == IF "update" \in UseCase[Type(r)].steps THEN "update" ELSE "answered"
    <2>1. /\ Goto(r, s) /\ s \in Step /\ Landed(tx)
          /\ s = "update" => Type(r) # "COMPLETE_TASK"
          /\ s = "answered" => Type(r) = "COMPLETE_TASK"
          /\ s \in {"update", "answered"}
      BY <1>2, <1>3, UseCases DEF Proceed, Confirmed, Landed, Step, Running
    <2> HIDE DEF s
    <2>2. /\ requests'[r].transaction = tx /\ requests'[r].step = s
          /\ ~requests'[r].resubmission
      BY <1>2, <2>1 DEF Goto, SubmissionInv, RequestsTypeOK
    <2>3. Landed(tx)'
      BY <1>1, <2>1, <2>2 DEF Landed, Committed
    <2>4. RequestSound(r)'
      BY <1>1, <1>2, <2>1, <2>2, <2>3 DEF RequestSound, Answered, Type, Organization
    <2> QED
      BY <1>1, <1>2, <2>1, <2>4, OnlyMoves
  <1>4. CASE Goto(r, "refused")
    BY <1>1, <1>4, OnlyMoves DEF Step
  <1>5. CASE Goto(r, "interrupted")
    BY <1>1, <1>2, <1>5, OnlyMoves DEF Step
  <1> QED
    BY <1>3, <1>4, <1>5 DEF ConfirmTransaction

(* The txHash is stored for what has the commitment awaited.               *)
LEMMA UpdateKeeps ==
    ASSUME SubmissionInv, NEW r \in Requests, UpdateTransaction(r)
    PROVE  SubmissionInv'
  <1> DEFINE tx == requests[r].transaction
             s  == IF "create" \in UseCase[Type(r)].steps THEN "create" ELSE "answered"
  <1>1. /\ requests[r].step = "update" /\ requests[r].step \in Running
        /\ transactions' = [transactions EXCEPT ![tx].recorded = TRUE]
        /\ Goto(r, s)
        /\ UNCHANGED <<organizations, proposals, chain, on_chain>>
    BY DEF UpdateTransaction, Proceed, At, Running, network
  <1>2. /\ tx \in DOMAIN transactions /\ tx \in Transactions /\ transactions[tx] \in Row
        /\ Type(r) \in TransactionTypes
        /\ Landed(tx) /\ ~requests[r].resubmission
    BY <1>1, Moving DEF RequestSound
  <1>3. /\ s \in Step /\ s \in {"create", "answered"}
        /\ s = "create" => Type(r) \in Storing
        /\ s = "answered" => Type(r) \notin Storing
    BY <1>2, UseCases DEF Step, Running
  <1> HIDE DEF s
  <1>4. /\ DOMAIN transactions' = DOMAIN transactions
        /\ transactions'[tx] \in Row /\ transactions'[tx].recorded
        /\ transactions'[tx].type = transactions[tx].type
        /\ transactions'[tx].organization = transactions[tx].organization
        /\ \A t \in DOMAIN transactions : t # tx => transactions'[t] = transactions[t]
    BY <1>1, <1>2 DEF Row
  <1>5. TablesTypeOK' /\ Grows
    BY <1>1, <1>4 DEF SubmissionInv, TablesTypeOK, Grows
  <1>6. ChainSound' /\ RecordedIsOnChain'
    <2>1. \A t \in DOMAIN transactions : Committed(t)' <=> Committed(t)
      BY <1>1, <1>4 DEF Committed
    <2> QED
      BY <1>1, <1>2, <1>4, <2>1 DEF SubmissionInv, ChainSound, RecordedIsOnChain, Landed
  <1>7. /\ requests'[r].transaction = tx /\ requests'[r].step = s
        /\ ~requests'[r].resubmission /\ Landed(tx)'
    <2>1. requests'[r].transaction = tx /\ requests'[r].step = s /\ ~requests'[r].resubmission
      BY <1>1, <1>2 DEF Goto, SubmissionInv, RequestsTypeOK
    <2> QED
      BY <1>1, <1>2, <1>4, <2>1 DEF Landed, Committed
  <1>8. RequestSound(r)'
    BY <1>1, <1>2, <1>3, <1>4, <1>7 DEF RequestSound, Answered, Type, Organization, Storing
  <1> QED
    BY <1>1, <1>3, <1>5, <1>6, <1>8, MoveKeeps

(* The rows of the other tables are stored after the txHash: the           *)
(* organization of a creation, or one more row of a proposal.              *)
LEMMA CreateKeeps ==
    ASSUME SubmissionInv, NEW r \in Requests,
           CreateOrganization(r) \/ CreateContributorProposal(r) \/ CreateProjectProposal(r)
    PROVE  SubmissionInv'
  <1> DEFINE tx == requests[r].transaction
  <1>1. /\ requests[r].step = "create" /\ requests[r].step \in Running
        /\ UNCHANGED <<transactions, chain, on_chain>>
    BY DEF CreateOrganization, CreateContributorProposal, CreateProjectProposal, At, Running, network
  <1>2. /\ tx \in DOMAIN transactions /\ tx \in Transactions /\ transactions[tx] \in Row
        /\ Landed(tx) /\ transactions[tx].recorded /\ ~requests[r].resubmission
    BY <1>1, Moving DEF RequestSound
  <1>3. PICK s \in {"answered", "interrupted"} :
          /\ Goto(r, s)
          /\ \/ /\ Type(r) = "CREATE_ORGANIZATION"
                /\ organizations' = organizations \cup {Organization(r)} /\ UNCHANGED proposals
             \/ /\ Type(r) \in {"PROPOSAL_CONTRIBUTOR", "PROPOSAL_PROJECT"}
                /\ UNCHANGED organizations
                /\ \/ proposals' = [proposals EXCEPT ![tx] = @ + 1]
                   \/ UNCHANGED proposals /\ Type(r) = "PROPOSAL_PROJECT"
    BY DEF CreateOrganization, CreateContributorProposal, CreateProjectProposal
  <1>4. s \in Step
    BY DEF Step
  <1>5. /\ proposals' \in [Transactions -> Nat]
        /\ \A t \in Transactions : t # tx => proposals'[t] = proposals[t]
        /\ proposals'[tx] = proposals[tx] \/ proposals'[tx] = proposals[tx] + 1
        /\ Type(r) = "PROPOSAL_CONTRIBUTOR" => proposals'[tx] > 0
        /\ \A t \in Transactions : proposals[t] > 0 => proposals'[t] > 0
    <2>1. proposals \in [Transactions -> Nat] /\ proposals[tx] \in Nat
      BY <1>2 DEF SubmissionInv, TablesTypeOK
    <2>2. CASE proposals' = [proposals EXCEPT ![tx] = @ + 1]
      BY <1>2, <2>1, <2>2
    <2>3. CASE UNCHANGED proposals /\ Type(r) # "PROPOSAL_CONTRIBUTOR"
      BY <2>1, <2>3
    <2> QED
      BY <1>3, <2>2, <2>3
  <1>6. /\ organizations \subseteq organizations' /\ organizations' \subseteq on_chain
        /\ Type(r) = "CREATE_ORGANIZATION" => Organization(r) \in organizations'
    <2>1. chain[tx].level \in Stable /\ ~chain[tx].err
      BY <1>2, CommittedIsStable DEF SubmissionInv, Landed
    <2> QED
      BY <1>2, <1>3, <2>1 DEF SubmissionInv, ChainSound, RecordedIsOnChain, Type, Organization
  <1>7. TablesTypeOK' /\ Grows
    BY <1>1, <1>5, <1>6 DEF SubmissionInv, TablesTypeOK, Grows
  <1>8. ChainSound' /\ RecordedIsOnChain'
    <2>1. \A t \in DOMAIN transactions : Committed(t)' <=> Committed(t)
      BY <1>1 DEF Committed
    <2> QED
      BY <1>1, <1>2, <1>5, <1>6, <2>1
      DEF SubmissionInv, TablesTypeOK, ChainSound, RecordedIsOnChain, Landed
  <1>9. /\ requests'[r].transaction = tx /\ requests'[r].step = s
        /\ ~requests'[r].resubmission /\ Landed(tx)'
    <2>1. requests'[r].transaction = tx /\ requests'[r].step = s /\ ~requests'[r].resubmission
      BY <1>2, <1>3 DEF Goto, SubmissionInv, RequestsTypeOK
    <2> QED
      BY <1>1, <1>2, <2>1 DEF Landed, Committed
  <1>10. RequestSound(r)'
    BY <1>1, <1>2, <1>5, <1>6, <1>9 DEF RequestSound, Answered, Type, Organization
  <1> QED
    BY <1>1, <1>3, <1>4, <1>5, <1>7, <1>8, <1>10, MoveKeeps

(* A crash ends every running request; what had been sent is on its way.   *)
LEMMA CrashKeeps ==
    ASSUME SubmissionInv, Crash
    PROVE  SubmissionInv'
  <1>1. UNCHANGED <<transactions, organizations, proposals, chain, on_chain>>
    BY DEF Crash, tables, network
  <1>2. /\ DOMAIN requests' = Requests
        /\ \A r \in Requests :
             \/ /\ requests[r].step \in {"find", "send"}
                /\ requests'[r] = [requests[r] EXCEPT !.step = "refused"]
             \/ /\ requests[r].step \in {"confirm", "update", "create"}
                /\ requests'[r] = [requests[r] EXCEPT !.step = "interrupted"]
             \/ requests'[r] = requests[r]
    BY DEF Crash
  <1>3. \A r \in Requests :
          /\ requests'[r].transaction = requests[r].transaction
          /\ requests'[r].resubmission = requests[r].resubmission
          /\ \/ requests[r].step \in {"find", "send"} /\ requests'[r].step = "refused"
             \/ requests[r].step \in {"confirm", "update", "create"}
                /\ requests'[r].step = "interrupted"
             \/ requests'[r] = requests[r]
          /\ requests'[r] \in [transaction : Transactions \cup {NoTransaction}, step : Step,
                               resubmission : BOOLEAN]
    BY <1>2 DEF SubmissionInv, RequestsTypeOK, Step
  <1>4. RequestsTypeOK'
    <2>1. requests' = [r \in Requests |-> requests'[r]]
      BY DEF Crash
    <2> QED
      BY <1>3, <2>1 DEF RequestsTypeOK
  <1>5. TablesTypeOK' /\ Grows /\ ChainSound' /\ RecordedIsOnChain'
    BY <1>1 DEF SubmissionInv, TablesTypeOK, Grows, ChainSound, RecordedIsOnChain, Committed
  <1>6. RequestsSound'
    <2> SUFFICES ASSUME NEW q \in Requests
                 PROVE  RequestSound(q)'
      BY DEF RequestsSound
    <2>1. CASE requests'[q] = requests[q]
      BY <1>5, <2>1, StandsStill
    <2>2. CASE requests'[q] # requests[q]
      <3>1. RequestSound(q)
        BY DEF SubmissionInv, RequestsSound
      <3> QED
        BY <1>1, <1>3, <2>2, <3>1 DEF RequestSound, Landed, Committed
    <2> QED
      BY <2>1, <2>2
  <1>7. RowsCounted'
    <2> SUFFICES ASSUME NEW tx \in Transactions
                 PROVE  proposals[tx] <= Cardinality(Over(tx)')
      BY <1>1 DEF RowsCounted, Over
    <2>1. Over(tx) \subseteq Over(tx)' /\ Over(tx)' \in SUBSET Requests
      BY <1>3 DEF Over
    <2>2. /\ IsFiniteSet(Over(tx)) /\ IsFiniteSet(Over(tx)')
          /\ Cardinality(Over(tx)) \in Nat /\ Cardinality(Over(tx)') \in Nat
          /\ Cardinality(Over(tx)) <= Cardinality(Over(tx)')
      BY <2>1, SubmissionAssumption, FS_Subset, FS_CardinalityType
    <2>3. proposals[tx] \in Nat /\ proposals[tx] <= Cardinality(Over(tx))
      BY DEF SubmissionInv, TablesTypeOK, RowsCounted
    <2> QED
      BY <2>2, <2>3
  <1> QED
    BY <1>4, <1>5, <1>6, <1>7 DEF SubmissionInv

(* Every step keeps the invariant.                                         *)
THEOREM SubmissionStep == SubmissionInv /\ [Next]_vars => SubmissionInv'
  <1> SUFFICES ASSUME SubmissionInv, [Next]_vars PROVE SubmissionInv'
    OBVIOUS
  <1>1. CASE Prepare
    BY <1>1, PrepareKeeps
    DEF Prepare, PrepareOrganization, PrepareContributorProposal, PrepareProjectProposal,
        PrepareTaskProposal, PrepareVote, PrepareTaskCompletion, PrepareTaskWithdrawal,
        TransactionTypes, VoteTypes
  <1>2. CASE \E r \in Requests, tx \in Transactions : Submit(r, tx)
    BY <1>2, SubmitKeeps
  <1>3. CASE \E r \in Requests : Process(r)
    BY <1>3, FindKeeps, SendKeeps, ConfirmKeeps, UpdateKeeps, CreateKeeps DEF Process
  <1>4. CASE Network
    BY <1>4, NetworkKeeps DEF Network
  <1>5. CASE Crash
    BY <1>5, CrashKeeps
  <1>6. CASE \E o \in Orgs : JoinUnknownOrganization(o)
    BY <1>6, JoinKeeps
  <1>7. CASE UNCHANGED vars
    <2>1. UNCHANGED <<transactions, organizations, proposals, chain, on_chain, requests>>
      BY <1>7 DEF vars, tables, network
    <2>2. TablesTypeOK' /\ Grows /\ ChainSound' /\ RecordedIsOnChain'
      BY <2>1 DEF SubmissionInv, TablesTypeOK, Grows, ChainSound, RecordedIsOnChain, Committed
    <2> QED
      BY <2>1, <2>2, RestKeeps
  <1> QED
    BY <1>1, <1>2, <1>3, <1>4, <1>5, <1>6, <1>7 DEF Next

(* The invariant of submission holds in every reachable state.             *)
THEOREM SubmissionInvariant == Spec => []SubmissionInv
  BY SubmissionInit, SubmissionStep, PTL DEF Spec

(* The tables keep their shape, and no request makes more than one row of  *)
(* the proposal it carries, whatever crashed or failed after it.           *)
THEOREM SubmissionTypes == Spec => []TypeOK
  <1>1. SubmissionInv => TypeOK
    <2> SUFFICES ASSUME SubmissionInv
                 PROVE  proposals \in [Transactions -> 0..Cardinality(Requests)]
      BY DEF SubmissionInv, TablesTypeOK, RequestsTypeOK, TypeOK
    <2> SUFFICES ASSUME NEW tx \in Transactions
                 PROVE  proposals[tx] \in 0..Cardinality(Requests)
      BY DEF SubmissionInv, TablesTypeOK
    <2>1. Over(tx) \in SUBSET Requests
      BY DEF Over
    <2>2. /\ Cardinality(Over(tx)) \in Nat /\ Cardinality(Requests) \in Nat
          /\ Cardinality(Over(tx)) <= Cardinality(Requests)
      BY <2>1, SubmissionAssumption, FS_Subset, FS_CardinalityType
    <2> QED
      BY <2>2 DEF SubmissionInv, TablesTypeOK, RowsCounted
  <1> QED
    BY <1>1, SubmissionInvariant, PTL

(* What the database records of a transaction is confirmed or final, as    *)
(* its use case awaits, whatever crashed, timed out, was rolled back or    *)
(* sent twice (sendTransaction and its callers).                           *)
THEOREM DatabaseFollowsChain == Spec => []RecordedIsOnChain
  <1>1. SubmissionInv => RecordedIsOnChain
    BY DEF SubmissionInv
  <1> QED
    BY <1>1, SubmissionInvariant, PTL

(* Success is reported after the rows are stored.                          *)
THEOREM AnswersAreRecorded == Spec => []AnsweredIsRecorded
  <1>1. SubmissionInv => AnsweredIsRecorded
    BY DEF SubmissionInv, RequestsSound, RequestSound, Answered, Landed, AnsweredIsRecorded, At
  <1> QED
    BY <1>1, SubmissionInvariant, PTL

(* A transaction that is final is not carried again: no later request      *)
(* stores anything, whatever the earlier ones stored or lost.              *)
THEOREM ResubmissionsAreRefused == Spec => []ResubmissionRefused
  <1>1. SubmissionInv => ResubmissionRefused
    BY DEF SubmissionInv, RequestsSound, RequestSound, ResubmissionRefused
  <1> QED
    BY <1>1, SubmissionInvariant, PTL
=============================================================================
