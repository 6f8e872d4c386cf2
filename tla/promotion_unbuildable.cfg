CONSTANTS
    Entries = {"Foo", "FooPrime"}
    WordNames = {"Foo"}
    Theorems = {"clean", "typed", "planted"}
    Self = {}
    Axioms = {"propext", "sorryAx"}
    Whitelist = {"propext"}
    Sessions = {s1, s2, s3}
    NoSession = NoSession
    Text <- MCText
    Answered <- MCAnswered
    Brought <- MCBrought
    MaxCommands = 3
    MaxStops = 1
SPECIFICATION Spec
INVARIANTS
    PromotedEntriesBuild
CHECK_DEADLOCK FALSE
