CONSTANTS
    Runners = {r1, r2}
    LatestVersion = 12
    Migration <- Excerpt
    InitialVersions = {0, 3, 15}
    MaxFaults = 2
SPECIFICATION MigrationSpec
INVARIANTS VersionIsBacked OverlapHeals
PROPERTIES SoleLaunchesComplete
