SPECIFICATION Spec
CONSTANTS
  v = v
  Nodes = {v}
  Vless = {v}
  Threshold = 3
  MaxSamples = 4
  MaxProbes = 3
  MaxReviews = 2
PROPERTY QuarantineHolds
