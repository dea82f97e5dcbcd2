SPECIFICATION Spec
CONSTANTS
    Modes = {"check_only", "fetch_only", "pull_ff_only"}
    MaxCommits = 1
    MaxMeddling = 2
INVARIANTS
    TypeOK
    RowTrue
    OutcomeTrue
    PreviewTrue
PROPERTIES
    NeverPullsDirty
