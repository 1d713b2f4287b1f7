\* Messages of each kind, one after the other, cut anywhere.  A client that gets
\* no answer stops.
CONSTANTS
    Messages <- AllMessages
    MaxRequestLine = 7
    MaxHeaderSize = 7
    MaxHeaderCount = 2
    MaxBodySize = 2
    MaxSize = 99
CHECK_DEADLOCK FALSE
SPECIFICATION Spec
INVARIANT CutIsUnderstood
