SPECIFICATION Spec
CONSTANTS
    Campaigns <- MCCampaigns
    Iterations <- MCIterations
    Plain = "plain"
INVARIANTS MatrixTypeOK EvidenceFirst SameWork NothingAfterFailure
PROPERTIES MatrixEnds
CHECK_DEADLOCK FALSE
