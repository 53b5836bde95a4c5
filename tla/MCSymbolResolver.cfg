CONSTANTS
    server = server  engine = engine  exe = exe
    a = a  b = b
    Lib <- MCLib
    Executable = exe
    Name <- MCName
    Systems <- MCSystems
    Updates <- MCUpdates
SPECIFICATION FairSpec
INVARIANTS
    TypeOK
    AnswersFirst
    CacheCoversSkipped
    NoLeak
PROPERTIES
    AnswersAreStable
    CallsReturn
