\* Two overlapping invocations, an owner and a registering command over one artifact.
SPECIFICATION FairSpec
CONSTANTS
  Workers = {w1, w2}
  Artifacts = {1}
INVARIANTS PassMeansComplete CountsOwnTime NoPublishCollision LeftoversExact
PROPERTIES UnambiguousAtCommit QuarantineKeeps ImplementsProcessing Converges
