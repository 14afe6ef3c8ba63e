-------------------------------- MODULE Escrow --------------------------------
(***************************************************************************)
(* What the task vaults promise, without ballots, treasuries or token      *)
(* accounts: the payment of a task is set aside in full before the work,   *)
(* stays set aside until somebody other than the worker has accepted the   *)
(* delivery, and then goes to the worker, once.                            *)
(***************************************************************************)
EXTENDS Integers

CONSTANTS
    Jobs,       \* names of escrows
    Parties,    \* payees and judges
    NoJudge     \* stands for a judge before there is one

VARIABLE escrows   \* escrows opened so far, a function on some of Jobs

Phases == {"Ready", "Completed", "Paid"}

Opened(payee, amount) ==
    [payee |-> payee, amount |-> amount, held |-> amount, phase |-> "Ready", judge |-> NoJudge]

EscrowInit == DOMAIN escrows = {}

Open(job) ==
    /\ job \notin DOMAIN escrows
    /\ DOMAIN escrows' = DOMAIN escrows \cup {job}
    /\ \A j \in DOMAIN escrows : escrows'[j] = escrows[j]
    /\ escrows'[job] = Opened(escrows'[job].payee, escrows'[job].amount)
    /\ escrows'[job].payee \in Parties

Deliver(job) ==
    /\ escrows[job].phase = "Ready"
    /\ escrows' = [escrows EXCEPT ![job].phase = "Completed"]

Settle(job, judge) ==
    /\ escrows[job].phase = "Completed"
    /\ judge # escrows[job].payee
    /\ escrows' = [escrows EXCEPT ![job].phase = "Paid", ![job].judge = judge,
                                  ![job].held = @ - escrows[job].amount]

EscrowNext ==
    \/ \E job \in Jobs : Open(job)
    \/ \E job \in DOMAIN escrows :
         \/ Deliver(job)
         \/ \E judge \in Parties : Settle(job, judge)

EscrowSpec == EscrowInit /\ [][EscrowNext]_escrows
=============================================================================
