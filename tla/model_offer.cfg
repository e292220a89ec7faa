\* Everything control may send in a few short lists, and every question of the
\* five skill tools after every listing; tools with limits that cut and one that
\* does not.
SPECIFICATION MCSpec
CONSTANTS
    LocalSkills <- SomeLocalSkills
    SkillLists <- SomeSkillLists
    ManagedLists <- SomeManagedLists
    CustomLists <- SomeCustomLists
    HintLists <- SomeHintLists
    Supplies <- SomeSupplies
    Refs <- SomeRefs
    Catalogs <- SomeCatalogs
    Limits = {1, 2, 3, 128}
INVARIANTS DescribesWhatItOffers AvailabilityIsReal CatalogIsWhatWasSent OfferIsSound
