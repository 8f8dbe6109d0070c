SPECIFICATION CatalogSpec
CONSTANTS
    Catalogs <- MCCatalogs
    Files = {"a", "b"}
    NumericKeys = {"1"}
    NotUtf8 = NotUtf8
    Padded = Padded
    WithNul = WithNul
    Infinite = Infinite
    Missing = Missing
    MaxChanges = 1
INVARIANTS
    PublishedMeansOneThing
    PromisedIsPublished
CHECK_DEADLOCK FALSE
