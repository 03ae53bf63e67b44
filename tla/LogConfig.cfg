\* One loader: the configuration is loaded by the program's main thread.
CONSTANTS
    Loaders = {l1}
    Names = {"root", "system"}
    Keys = {"logs"}
    MaxLoads = 4
    Docs <- MCDocs
    DefaultFmt <- MCDefaultFmt
    Letters <- MCLetters
SPECIFICATION Spec
INVARIANTS
    ConfigApplied
    FormattersValid
