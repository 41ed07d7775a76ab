\* Chunked bodies: base two instead of sixteen, so that sizes of more than one
\* digit are short enough to be followed by their data.  Buffers of up to two
\* characters and bodies of up to fourteen with four printable ones: a chunk and
\* the last chunk, an extension or a line of trailer with either.  The bounds of
\* the other subjects are in MCParsers.
CONSTANTS
    Base = 2
    Digits <- BinaryDigits
    MaxRead = 2
    MaxLen = 14
    MaxText = 4

SPECIFICATION MCSpec

INVARIANTS
    ChunkedAsDefined
    HeadersAsDefined
    ForwardedAsDefined
    TargetAsDefined
    RangesAsDefined
    FastCgiAsDefined
    DocumentFound
    RuleAsDefined
    HostFound
    ConfigAsDocumented

\* A text that has ended, or been refused, is the end of the run.
CHECK_DEADLOCK FALSE
