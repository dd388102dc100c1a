----------------------------- MODULE Clustering -----------------------------
(***************************************************************************)
(* app/clustering as pure operators: ancestry (which strategies may share  *)
(* a cluster and which one represents it), the cluster key and the         *)
(* confluence boost.  Prices are integers in points (0.00001), times in    *)
(* minutes.                                                                *)
(***************************************************************************)
EXTENDS Integers, Sequences, FiniteSets

CONSTANT BucketMinutes   \* the 5 of time_bucket_5min

ASSUME BucketAssumption == BucketMinutes \in Nat \ {0}

ConfirmationFamily == << "01_unicorn", "04_silver_bullet", "09_mmm",
                         "14_cisd", "03_confirmation" >>

JudasFamily == << "02_judas", "10_po3" >>

IndependentRoots == {"05_nested_fvg", "06_ifvg", "07_ote_fvg", "08_rejection_block",
                     "11_propulsion", "12_vacuum", "13_reclaimed_fvg", "15_bpr_ob"}

Elems(s) == {s[i] : i \in DOMAIN s}

StrategyIds == Elems(ConfirmationFamily) \cup Elems(JudasFamily) \cup IndependentRoots

Family(strategy) ==
    IF strategy \in Elems(ConfirmationFamily) THEN "confirmation_family"
    ELSE IF strategy \in Elems(JudasFamily) THEN "judas_family"
    ELSE strategy

CanCluster(a, b) ==
    /\ a \notin IndependentRoots
    /\ b \notin IndependentRoots
    /\ Family(a) = Family(b)

\* The search order of select_representative: Confirmation before Judas.
Precedence == ConfirmationFamily \o JudasFamily

Outranks(a, b) ==
    \E i, j \in DOMAIN Precedence : Precedence[i] = a /\ Precedence[j] = b /\ i < j

RepresentativeStrategy(strategies) ==
    IF \E i \in DOMAIN Precedence : Precedence[i] \in strategies
    THEN Precedence[CHOOSE i \in DOMAIN Precedence :
                        /\ Precedence[i] \in strategies
                        /\ \A j \in DOMAIN Precedence :
                            Precedence[j] \in strategies => i <= j]
    ELSE CHOOSE s \in strategies : TRUE

BucketPoints == 50

\* round(value / bucket) * bucket with Python's round: a tie goes to the even multiple.
RoundToBucket(points) ==
    LET below == points \div BucketPoints
        rest  == points % BucketPoints
    IN  IF 2 * rest < BucketPoints \/ (2 * rest = BucketPoints /\ below % 2 = 0)
        THEN BucketPoints * below
        ELSE BucketPoints * (below + 1)

\* A signature is << direction, sweep_level, mss_level, entry_midpoint >>, or
\* NoSignature when the strategy found no setup.
NoSignature == << >>

ClusterKey(t, signature) ==
    << t \div BucketMinutes, signature[1], RoundToBucket(signature[2]),
       RoundToBucket(signature[3]), RoundToBucket(signature[4]) >>

ConfluenceBoostCap == 20

ConfluenceBoost(size) ==
    LET boost == CASE size = 1 -> 0 [] size = 2 -> 10 [] OTHER -> 15
    IN  IF boost < ConfluenceBoostCap THEN boost ELSE ConfluenceBoostCap

Boosted(confidence, size) ==
    IF confidence + ConfluenceBoost(size) < 100
    THEN confidence + ConfluenceBoost(size) ELSE 100
============================================================================
