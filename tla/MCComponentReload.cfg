SPECIFICATION FairSpec
CONSTANTS
    Calls = {"c1", "c2"}
    Replacements = {"next", "plain", "other"}
    Initial = "first"
    Wit <- MCWit
    Disposable <- MCDisposable
INVARIANTS NoCallOnDisposed DrainedIsDisposed OneLiveVersion InterfaceIsKept
PROPERTIES EveryReplacementSettles
CHECK_DEADLOCK FALSE
