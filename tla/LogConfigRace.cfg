\* Two threads loading documents: setValue checks and notifies under the read lock and stores under the write lock.
CONSTANTS
    Loaders = {l1, l2}
    Names = {"root", "system"}
    Keys = {"logs"}
    MaxLoads = 2
    Docs <- MCDocs
    DefaultFmt <- MCDefaultFmt
    Letters <- MCLetters
SPECIFICATION Spec
INVARIANTS
    ConfigApplied
