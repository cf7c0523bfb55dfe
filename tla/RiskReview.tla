------------------------------ MODULE RiskReview ------------------------------
(***************************************************************************)
(* SimpleRiskManager (quant_os/risk/simple.py): the targets of a strategy   *)
(* are clipped to the single-name limit, then to what the cash buffer       *)
(* leaves, then towards the current weights to the turnover limit.          *)
(***************************************************************************)
EXTENDS PortfolioAnalytics

RiskPolicy == [max_single_name_weight : 1 .. Scale, min_cash_buffer : 0 .. Scale,
               max_turnover : 1 .. Scale, fail_closed : BOOLEAN]

\* What TargetExposure accepts; building any other raises a ValueError.
Valid(targets) == \A s \in DOMAIN targets : Magnitude(targets[s]) <= Scale

clip_single_name_limits(targets, max_weight) ==
    WithoutZeros([s \in DOMAIN targets |->
        Larger(-max_weight, Smaller(max_weight, targets[s]))])

\* Mutant: the buffer counts only once nothing would be left.
clip_to_whole(targets, gross_cap) ==
    IF Gross(targets) <= Scale THEN targets
    ELSE WithoutZeros([s \in DOMAIN targets |->
            HalfUp(targets[s] * gross_cap, Gross(targets))])

clip_cash_buffer(targets, gross_cap) ==
    IF Gross(targets) <= gross_cap THEN targets
    ELSE WithoutZeros([s \in DOMAIN targets |->
            HalfUp(targets[s] * gross_cap, Gross(targets))])

\* Mutant: symbols held but no longer wanted do not count as turnover.
clip_wanted_turnover(targets, current, max_turnover) ==
    LET turnover == SumFunction([s \in DOMAIN targets |-> Magnitude(targets[s] - Get(current, s))])
    IN  IF turnover <= max_turnover THEN targets
        ELSE WithoutZeros([s \in (DOMAIN current) \cup (DOMAIN targets) |->
                HalfUp(Get(current, s) * turnover
                         + (Get(targets, s) - Get(current, s)) * max_turnover, turnover)])

clip_turnover(targets, current, max_turnover) ==
    LET turnover == Between(targets, current)
    IN  IF turnover <= max_turnover THEN targets
        ELSE WithoutZeros([s \in (DOMAIN current) \cup (DOMAIN targets) |->
                HalfUp(Get(current, s) * turnover
                         + (Get(targets, s) - Get(current, s)) * max_turnover, turnover)])

\* The three limits, in the order of review.
Clipped(targets, current, policy) ==
    clip_turnover(
        clip_cash_buffer(clip_single_name_limits(targets, policy.max_single_name_weight),
                         Scale - policy.min_cash_buffer),
        current, policy.max_turnover)

\* A result that is not Valid stands for the exception that leaves review: of the
\* targets only the ones clip_turnover mixes with a current weight above 1 are
\* refused, and holding those weights is refused again.
review(targets, portfolio, policy) ==
    LET current == current_weights(portfolio)
        clipped == Clipped(targets, current, policy)
    IN  IF DOMAIN targets = {} THEN targets
        ELSE IF Valid(clipped) THEN clipped
        ELSE IF policy.fail_closed THEN WithoutZeros(current)
        ELSE targets
=============================================================================
