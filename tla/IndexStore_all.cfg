SPECIFICATION FairSpec
CONSTANTS
    lib = lib
    app = app
    lib1 = lib1
    lib2 = lib2
    lib3 = lib3
    app1 = app1
    app2 = app2
    File = {lib, app}
    Symbol = {"A.run", "B.run", "main"}
    Content = {lib1, lib2, lib3, app1, app2}
    Versions <- MCVersions
    Defines <- MCDefines
    Calls <- MCCalls
    SimpleName <- OwnNames
    Unstorable = {lib3}
    Absent = Absent
    NoRecord = NoRecord
    Operations = {"sync", "files", "full"}
    MaxEdits = 2
    MaxCrashes = 1
INVARIANTS PrefilterSound RecordedFileIsWhole CallersKept
PROPERTY CatchesUp
