------------------------------ MODULE VotingRules ------------------------------
(***************************************************************************)
(* The pure rules of the on-chain program (utils.rs): the quorum and the   *)
(* threshold of a ballot, the status a vote leaves it in, and the checks   *)
(* on percentages and periods.  Percentages are whole numbers, as in the   *)
(* source; a quotient is rounded as the source rounds it (the quorum up,   *)
(* the approval down).  Every instruction module uses these operators.     *)
(***************************************************************************)
EXTENDS Integers

CONSTANT
    I64Max      \* largest value of an i64 timestamp, where saturating_add stops

ASSUME I64MaxAssumption == I64Max \in Nat

ProposalStatus == {"Active", "Approved", "Rejected", "Expired"}

FaultyPlainAdd(a, b) == a + b                \* fault: no saturation

(* i64::saturating_add, for the non-negative times and periods it is given *)
SaturatingAdd(a, b) == IF a + b > I64Max THEN I64Max ELSE a + b

ValidateThreshold(threshold) == threshold \in 0..100

ValidateValidityPeriod(period) == period > 0

HasEnoughTokensToVote(amount, minimum_token_requirement) ==
    amount >= minimum_token_requirement

FaultyQuorumRoundedDown(total_votes, total_contributors, quorum_percentage) ==
    total_votes >= (total_contributors * quorum_percentage) \div 100 \* fault: rounded down

FaultyQuorumIgnored(total_votes, total_contributors, quorum_percentage) ==
    total_contributors # 0                   \* fault: votes not compared

(* The least number of votes is quorum% of the electorate, rounded up. *)
MeetsQuorumRequirement(total_votes, total_contributors, quorum_percentage) ==
    /\ total_contributors # 0
    /\ total_votes >= (total_contributors * quorum_percentage + 99) \div 100

(* The share of yes votes, rounded down, against the threshold; a ballot   *)
(* without a yes vote never reaches it, not even a threshold of zero.      *)
HasReachedThreshold(votes_for, votes_against, threshold_percentage) ==
    /\ votes_for # 0
    /\ (votes_for * 100) \div (votes_for + votes_against) >= threshold_percentage

IsProposalExpired(expires_at, now) == now >= expires_at

UpdateProposalStatus(votes_for, votes_against, expired, threshold, contributors, quorum) ==
    LET quorum_met    == MeetsQuorumRequirement(votes_for + votes_against, contributors, quorum)
        threshold_met == HasReachedThreshold(votes_for, votes_against, threshold)
    IN  CASE expired -> "Expired"
          [] ~expired /\ quorum_met /\ threshold_met -> "Approved"
          [] ~expired /\ quorum_met /\ ~threshold_met /\ votes_against > votes_for -> "Rejected"
          [] OTHER -> "Active"

-----------------------------------------------------------------------------
(***************************************************************************)
(* Reference definitions: what the documents promise, in exact fractions.  *)
(* A quorum is a share of the electorate and the threshold a share of the  *)
(* votes cast (business-rules.md, rules 5 and 8), with no rounding.        *)
(***************************************************************************)
QuorumShare(total_votes, total_contributors, quorum_percentage) ==
    100 * total_votes >= quorum_percentage * total_contributors

ThresholdShare(votes_for, votes_against, threshold_percentage) ==
    100 * votes_for >= threshold_percentage * (votes_for + votes_against)
=============================================================================
