------------------------------ MODULE Submission ------------------------------
(***************************************************************************)
(* How the API carries transactions to the chain (sendTransaction and the  *)
(* use cases around it): a first request prepares a transaction and stores *)
(* a row for it, the client signs, and a second request sends it, waits    *)
(* for its confirmation and then stores what it did.  Several requests may *)
(* carry one transaction, the process may stop between any two awaits, and *)
(* a wait may end without an answer.                                       *)
(*                                                                         *)
(* A client sends the transaction it was given to the endpoint that goes   *)
(* with its type, as the author of its row.                                *)
(***************************************************************************)
EXTENDS Naturals, FiniteSets

CONSTANTS
    Transactions,   \* rows of the transactions table, one signature each
    Orgs,           \* organizations, in the database and on the chain
    Requests,       \* requests that submit a signed transaction
    NoTransaction   \* what a request submits before it is made

ASSUME SubmissionAssumption == IsFiniteSet(Requests)

VARIABLES
    transactions,   \* the table: what was prepared, and whether it has a txHash
    chain,          \* what the network made of each signature
    on_chain,       \* organizations that exist in what the network has confirmed
    organizations,  \* organizations that have a row
    proposals,      \* rows of the proposals table that name each transaction's proposal
    requests        \* the submitting requests

tables == <<transactions, organizations, proposals>>
network == <<chain, on_chain>>
vars == <<tables, network, requests>>

VoteTypes == {"VOTE_CONTRIBUTOR_PROPOSAL", "VOTE_PROJECT_PROPOSAL"}

(* WITHDRAW_TASK_FUNDS is in the enumeration, but nothing prepares one. *)
TransactionTypes ==
    {"CREATE_ORGANIZATION", "PROPOSAL_CONTRIBUTOR", "PROPOSAL_PROJECT", "CREATE_TASK",
     "COMPLETE_TASK", "ENABLE_TASK_WITHDRAWAL"} \cup VoteTypes

(* What each use case awaits, up to the row of the transaction, and the    *)
(* commitment that it passes to sendTransaction or leaves to its default.  *)
(* Votes are sent after the proposal was read from the chain.              *)
(* (withdraw-task looks for a row of the type nothing prepares, and        *)
(* refuses.)                                                               *)
Carry == {"find", "send", "confirm"}
CompleteTask == [steps |-> Carry, commitment |-> "confirmed"]
CreateTask == [steps |-> Carry \cup {"update"}, commitment |-> "finalized"]
EnableWithdraw == [steps |-> Carry \cup {"update"}, commitment |-> "confirmed"]
VoteProposal == [steps |-> Carry \cup {"update"}, commitment |-> "finalized"]

(* The other three make further rows. *)
StoresMore == [steps |-> Carry \cup {"update", "create"}, commitment |-> "finalized"]

UseCase == [CREATE_ORGANIZATION       |-> StoresMore,
            PROPOSAL_CONTRIBUTOR      |-> StoresMore,
            PROPOSAL_PROJECT          |-> StoresMore,
            CREATE_TASK               |-> CreateTask,
            COMPLETE_TASK             |-> CompleteTask,
            ENABLE_TASK_WITHDRAWAL    |-> EnableWithdraw,
            VOTE_CONTRIBUTOR_PROPOSAL |-> VoteProposal,
            VOTE_PROJECT_PROPOSAL     |-> VoteProposal]

Row == [type : TransactionTypes, organization : Orgs, recorded : BOOLEAN]

(* A transaction is processed in a block, which the network then votes for *)
(* (confirmed) and roots (finalized); err tells that its execution failed. *)
Executed == {"processed", "confirmed", "finalized"}
ChainStatus == [level : Executed \cup {"unsent", "pending", "dropped"}, err : BOOLEAN]

AtLeast == [confirmed |-> {"confirmed", "finalized"}, finalized |-> {"finalized"}]

(* A request is over when it is answered, refused (nothing was sent, or    *)
(* what was sent failed) or interrupted after sending.                     *)
Running == {"find", "send", "confirm", "update", "create"}
Step == Running \cup {"none", "answered", "refused", "interrupted"}

Type(r) == transactions[requests[r].transaction].type
Organization(r) == transactions[requests[r].transaction].organization

At(r, step) == requests[r].step = step

Goto(r, step) == requests' = [requests EXCEPT ![r].step = step]

(* On to the step, or to the answer when the use case has no such step.    *)
Proceed(r, step) == Goto(r, IF step \in UseCase[Type(r)].steps THEN step ELSE "answered")

-----------------------------------------------------------------------------
CreateTransaction(tx, type, o) ==
    /\ tx \notin DOMAIN transactions
    /\ transactions' = [t \in DOMAIN transactions \cup {tx} |->
         IF t = tx THEN [type |-> type, organization |-> o, recorded |-> FALSE]
                   ELSE transactions[t]]
    /\ UNCHANGED <<organizations, proposals, network, requests>>

(* The id of an organization is drawn when its creation is prepared. *)
PrepareOrganization(tx, o) ==
    /\ o \notin on_chain
    /\ \A t \in DOMAIN transactions : transactions[t].organization # o
    /\ CreateTransaction(tx, "CREATE_ORGANIZATION", o)

(* The other preparations read the organization from the chain first, and  *)
(* with it the contributors, the proposal or the project they are about;   *)
(* they are refused, and leave nothing, unless these allow the step.       *)
PrepareContributorProposal(tx, o) ==
    o \in on_chain /\ CreateTransaction(tx, "PROPOSAL_CONTRIBUTOR", o)

PrepareProjectProposal(tx, o) ==
    o \in on_chain /\ CreateTransaction(tx, "PROPOSAL_PROJECT", o)

PrepareTaskProposal(tx, o) ==
    o \in on_chain /\ CreateTransaction(tx, "CREATE_TASK", o)

(* A vote on a task is stored as a vote on a project. *)
PrepareVote(tx, o) ==
    o \in on_chain /\ \E type \in VoteTypes : CreateTransaction(tx, type, o)

PrepareTaskCompletion(tx, o) ==
    o \in on_chain /\ CreateTransaction(tx, "COMPLETE_TASK", o)

PrepareTaskWithdrawal(tx, o) ==
    o \in on_chain /\ CreateTransaction(tx, "ENABLE_TASK_WITHDRAWAL", o)

Prepare ==
    \E tx \in Transactions, o \in Orgs :
        \/ PrepareOrganization(tx, o)
        \/ PrepareContributorProposal(tx, o)
        \/ PrepareProjectProposal(tx, o)
        \/ PrepareTaskProposal(tx, o)
        \/ PrepareVote(tx, o)
        \/ PrepareTaskCompletion(tx, o)
        \/ PrepareTaskWithdrawal(tx, o)

-----------------------------------------------------------------------------
(* The network: a signature is processed at most once on a fork, and one   *)
(* that was not processed in time never is.                                *)
Advance(tx, from, to) ==
    /\ chain[tx].level = from
    /\ chain' = [chain EXCEPT ![tx].level = to]

Execute(tx) ==
    /\ chain[tx].level = "pending"
    /\ \E err \in BOOLEAN : chain' = [chain EXCEPT ![tx] = [level |-> "processed", err |-> err]]
    /\ UNCHANGED <<tables, on_chain, requests>>

(* The fork is abandoned; elsewhere the outcome may differ.                *)
RollBack(tx) ==
    /\ chain[tx].level = "processed"
    /\ chain' = [chain EXCEPT ![tx] = [level |-> "pending", err |-> FALSE]]
    /\ UNCHANGED <<tables, on_chain, requests>>

(* A confirmed block is not rolled back.                                   *)
Confirm(tx) ==
    /\ Advance(tx, "processed", "confirmed")
    /\ on_chain' = on_chain \cup
         (IF transactions[tx].type = "CREATE_ORGANIZATION" /\ ~chain[tx].err
          THEN {transactions[tx].organization} ELSE {})
    /\ UNCHANGED <<tables, requests>>

Finalize(tx) ==
    /\ Advance(tx, "confirmed", "finalized")
    /\ UNCHANGED <<tables, on_chain, requests>>

Drop(tx) ==
    /\ Advance(tx, "unsent", "dropped") \/ Advance(tx, "pending", "dropped")
    /\ UNCHANGED <<tables, on_chain, requests>>

-----------------------------------------------------------------------------
(* The same signed transaction may be submitted again at any time. *)
Submit(r, tx) ==
    /\ At(r, "none")
    /\ tx \in DOMAIN transactions
    /\ requests' = [requests EXCEPT ![r] = [transaction |-> tx, step |-> "find",
                                            resubmission |-> chain[tx].level = "finalized"]]
    /\ UNCHANGED <<tables, network>>

(* create-contributor-proposal looks for the organization's row first.     *)
(* Anything read here may be missing, or its service may fail.             *)
FindTransaction(r) ==
    /\ At(r, "find")
    /\ \/ /\ Type(r) = "PROPOSAL_CONTRIBUTOR" => Organization(r) \in organizations
          /\ Goto(r, "send")
       \/ Goto(r, "refused")
    /\ UNCHANGED <<tables, network>>

(* sendRawTransaction simulates a transaction before it sends it.  The     *)
(* connections are made without a commitment, so this is done on the state *)
(* that is finalized, and refuses what was processed there: until it is    *)
(* final a transaction passes again.  (Anything may be refused for another *)
(* reason; one too old that passes is never processed.)                    *)
Simulated(tx) == chain[tx].level # "finalized"

Send(tx) == chain' = [chain EXCEPT ![tx].level = IF @ = "unsent" THEN "pending" ELSE @]

FaultySendRawTransaction(r) ==               \* fault: skipPreflight
    /\ At(r, "send")
    /\ Send(requests[r].transaction)
    /\ Goto(r, "confirm")
    /\ UNCHANGED <<tables, on_chain>>

SendRawTransaction(r) ==
    LET tx == requests[r].transaction
    IN  /\ At(r, "send")
        /\ \/ Simulated(tx) /\ Send(tx) /\ Goto(r, "confirm")
           \/ UNCHANGED chain /\ Goto(r, "refused")
        /\ UNCHANGED <<tables, on_chain>>

(* The transaction has the commitment that its use case awaits.            *)
Committed(tx) == chain[tx].level \in AtLeast[UseCase[transactions[tx].type].commitment]

FaultyConfirmed(tx) == Committed(tx)         \* fault: value.err not looked at

Confirmed(tx) == Committed(tx) /\ ~chain[tx].err

(* An error is reported as soon as the transaction was processed.  The     *)
(* wait also ends without an answer, whatever becomes of the transaction   *)
(* later.                                                                  *)
ConfirmTransaction(r) ==
    LET tx == requests[r].transaction
    IN  /\ At(r, "confirm")
        /\ \/ /\ Confirmed(tx)
              /\ Proceed(r, "update")
           \/ /\ chain[tx].level \in Executed /\ chain[tx].err
              /\ Goto(r, "refused")
           \/ Goto(r, "interrupted")
        /\ UNCHANGED <<tables, network>>

FaultyUpdateTransaction(r) ==                \* fault: answered before the rows are stored
    /\ At(r, "update")
    /\ transactions' = [transactions EXCEPT ![requests[r].transaction].recorded = TRUE]
    /\ Goto(r, "answered")
    /\ UNCHANGED <<organizations, proposals, network>>

FaultyUpdateInMemory(r) ==                   \* fault: the row is changed but not saved
    /\ At(r, "update")
    /\ Proceed(r, "create")
    /\ UNCHANGED <<tables, network>>

UpdateTransaction(r) ==
    /\ At(r, "update")
    /\ transactions' = [transactions EXCEPT ![requests[r].transaction].recorded = TRUE]
    /\ Proceed(r, "create")
    /\ UNCHANGED <<organizations, proposals, network>>

(* The row's id comes from the transaction, so there is one row at most;   *)
(* storing it over one that join made may fail on that row's members.      *)
CreateOrganization(r) ==
    /\ At(r, "create") /\ Type(r) = "CREATE_ORGANIZATION"
    /\ organizations' = organizations \cup {Organization(r)}
    /\ \/ Goto(r, "answered")
       \/ Organization(r) \in organizations /\ Goto(r, "interrupted")
    /\ UNCHANGED <<transactions, proposals, network>>

FaultyCreateContributorProposal(r) ==        \* fault: tried again after what follows it failed
    /\ At(r, "create") /\ Type(r) = "PROPOSAL_CONTRIBUTOR"
    /\ proposals' = [proposals EXCEPT ![requests[r].transaction] = @ + 1]
    /\ Goto(r, "answered") \/ UNCHANGED requests
    /\ UNCHANGED <<transactions, organizations, network>>

(* Every request that comes here makes a row.  What follows, the candidate *)
(* as a user and a member, may fail after it.                              *)
CreateContributorProposal(r) ==
    /\ At(r, "create") /\ Type(r) = "PROPOSAL_CONTRIBUTOR"
    /\ proposals' = [proposals EXCEPT ![requests[r].transaction] = @ + 1]
    /\ Goto(r, "answered") \/ Goto(r, "interrupted")
    /\ UNCHANGED <<transactions, organizations, network>>

(* Without a row of its organization a project proposal gets none either,  *)
(* and the request is answered all the same.                               *)
CreateProjectProposal(r) ==
    /\ At(r, "create") /\ Type(r) = "PROPOSAL_PROJECT"
    /\ proposals' = IF Organization(r) \in organizations
                    THEN [proposals EXCEPT ![requests[r].transaction] = @ + 1] ELSE proposals
    /\ Goto(r, "answered")
    /\ UNCHANGED <<transactions, organizations, network>>

(* The process stops: what it had sent is on its way, what it had not      *)
(* stored is forgotten.                                                    *)
Crash ==
    /\ \E r \in Requests : requests[r].step \in Running
    /\ requests' = [r \in Requests |->
         CASE requests[r].step \in {"find", "send"} -> [requests[r] EXCEPT !.step = "refused"]
           [] requests[r].step \in {"confirm", "update", "create"} ->
                [requests[r] EXCEPT !.step = "interrupted"]
           [] OTHER -> requests[r]]
    /\ UNCHANGED <<tables, network>>

(* A user joins an organization the database does not know. *)
JoinUnknownOrganization(o) ==
    /\ o \in on_chain \ organizations
    /\ organizations' = organizations \cup {o}
    /\ UNCHANGED <<transactions, proposals, network, requests>>

-----------------------------------------------------------------------------
Init ==
    /\ transactions = [t \in {} |-> 0]
    /\ chain = [tx \in Transactions |-> [level |-> "unsent", err |-> FALSE]]
    /\ on_chain \in SUBSET Orgs
    /\ organizations = {}
    /\ proposals = [tx \in Transactions |-> 0]
    /\ requests = [r \in Requests |-> [transaction |-> NoTransaction, step |-> "none",
                                       resubmission |-> FALSE]]

Process(r) ==
    \/ FindTransaction(r) \/ SendRawTransaction(r) \/ ConfirmTransaction(r)
    \/ UpdateTransaction(r)
    \/ CreateOrganization(r) \/ CreateContributorProposal(r) \/ CreateProjectProposal(r)

Network ==
    \E tx \in DOMAIN transactions :
        Execute(tx) \/ RollBack(tx) \/ Confirm(tx) \/ Finalize(tx) \/ Drop(tx)

Next ==
    \/ Prepare
    \/ \E r \in Requests, tx \in Transactions : Submit(r, tx)
    \/ \E r \in Requests : Process(r)
    \/ Network
    \/ Crash
    \/ \E o \in Orgs : JoinUnknownOrganization(o)

Spec == Init /\ [][Next]_vars

(* A running request takes its next step: every await ends. *)
FairSpec == Spec /\ \A r \in Requests : WF_vars(Process(r))

-----------------------------------------------------------------------------
TypeOK ==
    /\ DOMAIN transactions \subseteq Transactions
    /\ \A tx \in DOMAIN transactions : transactions[tx] \in Row
    /\ chain \in [Transactions -> ChainStatus]
    /\ on_chain \subseteq Orgs
    /\ organizations \subseteq Orgs
    /\ proposals \in [Transactions -> 0..Cardinality(Requests)]
    /\ requests \in [Requests -> [transaction : Transactions \cup {NoTransaction}, step : Step,
                                  resubmission : BOOLEAN]]

(* The database never runs ahead of the chain: a txHash or a proposal row  *)
(* is there only for what was executed without error and is confirmed, or  *)
(* final where the use case awaits that; an organization row only for one  *)
(* that exists; whatever crashed, timed out, rolled back or was sent twice.*)
RecordedIsOnChain ==
    /\ organizations \subseteq on_chain
    /\ \A tx \in DOMAIN transactions :
         transactions[tx].recorded \/ proposals[tx] > 0 => Committed(tx) /\ ~chain[tx].err

(* A client that was told of success finds its transaction on the chain,   *)
(* its txHash stored, and the rows its use case makes.                     *)
AnsweredIsRecorded ==
    \A r \in Requests : At(r, "answered") =>
        /\ Committed(requests[r].transaction) /\ ~chain[requests[r].transaction].err
        /\ Type(r) # "COMPLETE_TASK" => transactions[requests[r].transaction].recorded
        /\ Type(r) = "CREATE_ORGANIZATION" => Organization(r) \in organizations
        /\ Type(r) = "PROPOSAL_CONTRIBUTOR" => proposals[requests[r].transaction] > 0

(* A transaction submitted again after it is final, with an error or       *)
(* without, is refused before anything is stored.  So is every retry of    *)
(* what was answered, but for the two use cases that await 'confirmed'     *)
(* only; and the retry of a request that a crash interrupted, whose rows   *)
(* nobody stored.  (Before it is final a retry is carried again: it may be *)
(* answered a second time, and make a second row of a proposal.)           *)
ResubmissionRefused ==
    \A r \in Requests :
        requests[r].resubmission => requests[r].step \in {"find", "send", "refused"}

(* Under FairSpec a transaction that ends final and without error has its  *)
(* txHash stored, unless every request that sent it was cut off: one that  *)
(* ran to its end is enough, whatever the others met.                      *)
LandedIsRecorded ==
    \A tx \in Transactions :
        chain[tx] = [level |-> "finalized", err |-> FALSE] ~>
            \/ /\ tx \in DOMAIN transactions
               /\ (transactions[tx].recorded \/ transactions[tx].type = "COMPLETE_TASK")
            \/ \A r \in Requests : requests[r].transaction = tx =>
                 requests[r].step \in {"none", "refused", "interrupted"}
=============================================================================
