CONSTANTS
  Names = {"tick", "alert"}
  Ids = {"u1", "u2"}
  Stamps = {0, 5}
SPECIFICATION Spec
INVARIANT PickleRoundTrip
