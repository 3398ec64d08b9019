\* Three lines of up to three bytes are appended.  A file of up to four bytes,
\* changed three times while it is read in chunks of two, or with preads of
\* one.  Two threads look at /proc, twice each, while a third comes or goes or
\* a file is opened or closed; three files may be open.
CONSTANTS
    Lengths = {0, 1, 3}
    MaxCalls = 3
    kBuffSize = 2
    MaxSizes <- MCMaxSizes
    SizeMax = 16
    MaxLength = 4
    MaxChanges = 3
    MaxReads = 2
    Callers = {2, 3}
    Others = {1}
    MaxFiles = 3
    MaxScans = 2
    MaxEvents = 1
SPECIFICATION FileUtilSpec
INVARIANTS
    LinesIntact CountNotAhead
    ReadIsHonest NothingMissed BufferIsText
    ScanIsOwn
