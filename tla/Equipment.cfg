SPECIFICATION Spec
CONSTANTS
    Cars <- FourCars
    Reports <- SomeReports
    Manifests <- SomeManifests
    MinGroups = 5
    Bodies <- SomeBodies
    Lists <- SomeLists
INVARIANTS TypeOK SupportSound DecodedTruth OfferedExactly
CHECK_DEADLOCK FALSE
