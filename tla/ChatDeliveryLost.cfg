CONSTANTS
    m1 = m1
    loop = loop  listener = listener
    Message = {m1}
    Consumers = 2
    Events = 3
    Streams <- EitherStream
    Flight = {loop, listener}
    Loop = loop
    FlushLimit = 4
SPECIFICATION Spec
INVARIANT PassedIsSaved
