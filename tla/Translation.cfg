SPECIFICATION Spec
CONSTANT Models <- TranslationModels
INVARIANTS
  EdgeCountsAgree
  GroupsCoverSupported
  FusedGraphIsAcyclic
  LayoutClaimsStand
  AffinityHolds
  SupportedComposes
  GraphIsDataFlow
  DeclarationsHold
  ComputesOnnx
