SPECIFICATION CosignSpec
CONSTANTS
  k1 = k1
  k2 = k2
  i1 = i1
  stranger = stranger
  p = p
  q = q
  m1 = m1
  m2 = m2
  m3 = m3
  m4 = m4
  Material = {m1, m2, m3, m4}
  KindOf <- KindOfM
  PayloadOf <- PayloadOfM
  SignerOf <- SignerOfM
  HintOf <- HintOfM
  KeyOrder <- KeyOrderM
  Identities = {i1}
  Nobody = Nobody
INVARIANT UnavailableShown
