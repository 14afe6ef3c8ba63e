-------------------------------- MODULE Ballots --------------------------------
(***************************************************************************)
(* What a ballot promises, whatever it decides on and by whatever rule:    *)
(* its subject is fixed when it is opened, a voter of the electorate of    *)
(* the moment votes once while the ballot is open and undecided, every     *)
(* vote is counted on its side, and a decision is never touched again.     *)
(* The four kinds of proposals each implement it.                          *)
(***************************************************************************)
EXTENDS Naturals

CONSTANT Voters

VARIABLES
    ballots,     \* ballots opened so far: subject, voters, votes and status
    open,        \* ballots whose time is not over
    electorate   \* for each ballot, those who may vote on it

BallotsInit == DOMAIN ballots = {}

(* Who opens a ballot may be its first voter, in favour. *)
Open(a) ==
    /\ a \notin DOMAIN ballots
    /\ DOMAIN ballots' = DOMAIN ballots \cup {a}
    /\ \A b \in DOMAIN ballots : ballots'[b] = ballots[b]
    /\ \/ ballots'[a].voters = {} /\ ballots'[a].votes_for = 0
       \/ \E voter \in electorate'[a] : ballots'[a].voters = {voter} /\ ballots'[a].votes_for = 1
    /\ ballots'[a].votes_against = 0
    /\ ballots'[a].status = "Active"

(* A ballot with one more voter, and his vote in favour or against. *)
Counted(ballot, voter, for, against, status) ==
    [ballot EXCEPT !.votes_for = @ + for, !.votes_against = @ + against,
                   !.voters = @ \cup {voter}, !.status = status]

Cast(a, voter) ==
    /\ a \in open
    /\ ballots[a].status = "Active"
    /\ voter \in electorate[a] \ ballots[a].voters
    /\ \E for \in {0, 1}, status \in {"Active", "Approved", "Rejected"} :
         ballots' = [ballots EXCEPT ![a] = Counted(ballots[a], voter, for, 1 - for, status)]

BallotsNext ==
    \/ \E a \in DOMAIN ballots' : Open(a)
    \/ \E a \in DOMAIN ballots, voter \in Voters : Cast(a, voter)

BallotsSpec == BallotsInit /\ [][BallotsNext]_ballots
=============================================================================
