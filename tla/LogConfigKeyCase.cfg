\* One loader; documents may spell the key "Logs": ListAllMember rejects it before LoadFromYaml lowercases it.
CONSTANTS
    Loaders = {l1}
    Names = {"root", "system"}
    Keys = {"logs", "Logs"}
    MaxLoads = 2
    Docs <- MCDocs
    DefaultFmt <- MCDefaultFmt
    Letters <- MCLetters
SPECIFICATION Spec
INVARIANTS
    LoadHonoursKey
