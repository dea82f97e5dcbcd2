SPECIFICATION Spec
CONSTANTS
    Modes = {"pull_ff_only"}
    MaxCommits = 1
    MaxMeddling = 1
INVARIANTS
    CommitRangeTrue
