------------------------ MODULE MCBufferSizeAdapter ------------------------
EXTENDS BufferSizeAdapter

\* An explicit map with a destination the device does not have.
MCChannelMap == Explicit(<< <<0, 1>>, <<0, 7>> >>)

\* Empty, minimal, smaller and larger than a host buffer, and up to the ring.
MCBlockSizes == {0, 1, 2, 5, 23, 24}
=============================================================================
