SPECIFICATION StageSpec
CONSTANTS
    ann = ann
    bob = bob
    cyd = cyd
    None = None
    Uploader = Uploader
    Rows = {ann, bob, cyd}
    AlreadyHired = {cyd}
    Files <- FewFiles
    MaxAccepts = 3
    MaxCrashes = 2
INVARIANTS
    BulkTypeOK
    QuietMeansSettled
    ProcessedMeansImported
    NobodyTwice
    ApproverAsNamed
    FailedMeansNotApplied
PROPERTIES
    AcceptedEnds
CHECK_DEADLOCK FALSE
