SPECIFICATION CredentialsSpec
CONSTANTS
  f1 = f1
  f2 = f2
  pub = pub
  c = c
  a = a
  b = b
  Profiles = {f1, f2}
  Publishers = {pub}
  ProfileType <- MCProfileType
  PublisherType <- MCPublisherType
  SecretSlots <- MCSecretSlots
  Needs <- MCNeeds
  Keys = {a, b}
  Administrators = {c}
  RotationBuffer = 1
  MaxMaterial = 2
  MaxAsks = 2
  MaxBoots = 1
  None = None
INVARIANTS CredentialApplied
\* Requests run out.
CHECK_DEADLOCK FALSE
