SPECIFICATION Spec
CONSTANTS
  Tokens = {htr, tk}
  Htr = htr
  Default = tk
  NoToken = NoToken
  Utxos = {u1, u2, u3, u4}
  MaxAmount = 3
  MaxOutput = 3
  MaxOutputs = 2
INVARIANTS
  InputsFillOutputs
  FewestInputs
  RefusedOnlyWhenShort
