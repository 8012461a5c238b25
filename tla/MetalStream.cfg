\* Two blocks, buffers of two dispatches, two in flight: throttling, failures, late
\* handlers and reuse all happen within four command buffers.
SPECIFICATION Spec
CONSTANTS
  Blocks = {b1, b2}
  CommitEvery = 2
  MaxInFlight = 2
  NoBlock = NoBlock
  MaxSeq = 4
  MaxFaults = 1
INVARIANTS FreeIsSettled FenceCovers NoFailureLost
PROPERTIES CallsReturn
