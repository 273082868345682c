SPECIFICATION FairSpec
CONSTANTS
    Migrators <- MCMigrators
    Release <- AllReleases
    Refused <- BadBuilds
    Plugin <- BothPlugins
    Deletable <- TodoOnly
    SeedOrder <- TodoThenBlog
    Target <- MCTarget
    MaxUserRows = 3
    MaxDeaths = 2
INVARIANTS TypeOK ServesOwnSchema SeedsOnceFirst
PROPERTIES RefusedLeavesFile InRegistryOrder Resumes
