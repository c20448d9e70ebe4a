CONSTANTS
  Scale = 2
  Unit = 16
  MaxLegalActions = 2
  Draws = 2
  Games <- SmallGames
  Malformed <- BadGames
  Vectors <- SmallVectors
  Iterations = {3}
  MaxFault = 50
  SampleWeights <- SmallWeights
SPECIFICATION Spec
INVARIANTS FullTraversalIsCounterfactual SamplingIsUnbiased AveragesAreProportional EvaluationIsBestResponse FailureLeavesNoTrace SamplerCoversPositiveActions
