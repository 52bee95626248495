\* Every way to cut messages of up to 128 octets into calls of these sizes.
SPECIFICATION Spec
CONSTANTS
  BlockSize = 8
  WordOctets = 2
  OctetBits = 2
  ChunkSizes <- Chunks
INVARIANTS
  TypeOK
  DigestOfMessage
  Accumulated
  LengthKept
