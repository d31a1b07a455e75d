CONSTANTS
    t1 = t1  t2 = t2  k1 = k1
    a = a  b = b  c = c  w = w  pa = pa  pb = pb
    None = None
    Tasks = {t1, t2}
    Imports = {k1}
    Media = {a, b, c, w}
    Posters = {pa, pb}
    Family <- MCFamily
    Uploaded <- MCUploaded
    Declared <- MCDeclared
    Reports <- MCReports
    Requests = {"k"}
    MaxRequests = 1
    MaxViews = 1
    Legacy <- MCLegacy
    MaxVersion = 3
    r1 = r1  r2 = r2  old = old  c1 = c1  c2 = c2
    s1 = s1  s2 = s2  parent = parent  e1 = e1  e2 = e2
    Renders = {r1, r2}
    Outputs <- MCOutputs
    Historical <- MCHistorical
    Infer <- MCInfer
    Videos = {"video/mp4"}
    Clients = {c1, c2}
    MaxUpdates = 2
    Unknown = Unknown
    Retained = {"a1", "a2", "a3"}
    FileName <- MCFileName
    ExportKeys = {e1, e2}
    MaxUserFiles = 2
    MaxAborts = 2
    NoExport = NoExport
    Children = {s1, s2}
    ParentOf <- MCParentOf
    SnapshotKeys = {e1, e2}
    Revisions = {1, 2}
    Sizes = {1, 2}
    MaxSnapshots = 3
    MaxBytes = 4
    MaxSnapshotBytes = 2
SYMMETRY ResourceSymmetry
SPECIFICATION ResourcesSpec
INVARIANTS GalleryCoherent ExportHonest SnapshotsMetered
PROPERTIES SettledOnSeen LifecycleOnSeen
CHECK_DEADLOCK FALSE
