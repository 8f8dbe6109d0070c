SPECIFICATION Spec
CONSTANTS
    app = app
    bridge = bridge
    core = core
    alias = alias
    Targets = {app, bridge, core}
    Aliases = {alias}
    AliasOf <- MCAliasOf
    Solvers = {app}
    Linkable <- MCLinkable
INVARIANTS
    MetadataMatchesOwnCode
PROPERTIES
    MismatchesAreRejected
    OnlyMismatchesAreRejected
CHECK_DEADLOCK FALSE
