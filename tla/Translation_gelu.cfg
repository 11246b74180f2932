SPECIFICATION Spec
CONSTANT Models <- TripledModels
INVARIANT GeluHalvesItsRoot
