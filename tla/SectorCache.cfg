\* An image that ends between 2 GiB (Reach) and 4 GiB (2 * Reach): sector 2
\* lies where the 32-bit seek fails.  The cache holds MaxEntries + 1 = 2
\* of the 3 sectors, so that eviction happens.
SPECIFICATION Spec
CONSTANTS
  Size = 3
  Data = {a, b}
  MaxEntries = 1
  Reach = 2
  MaxTicks = 3
INVARIANTS TypeOK Coherent CapacityBound
PROPERTIES ImplementsStore EvictsOldest
