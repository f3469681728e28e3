\* Every allow-list of up to three entries over projects p, q and datasets
\* d, e, with the default project q.
CONSTANTS
    DefaultProjectID <- ProjectQ
    EntrySet <- PlainEntries
    MaxEntries = 3

SPECIFICATION Spec

\* The function returns its two parameters and the model stops.
CHECK_DEADLOCK FALSE

INVARIANT TypeOK
INVARIANT AdvertisesAllowList
