\* One upload with two completions at once, one import, two consents; and a
\* product with one picture, two members, two analyses and one fault.
SPECIFICATION MCSpec
CONSTANTS
    Uploads = {u1}
    Completions = {c1, c2}
    Imports = {i1}
    MaxConsents = 2
    MaxTries = 2
    MaxFaults = 1
    Persons = {p1, p2}
    Fields = {f1, f2}
    Usable = {f1, f2}
    Pictures = {k1}
    MaxPictures = 1
    MaxAnalyses = 2
    MaxVersion = 4
    MaxTrouble = 1
    NoFields = NoFields
    NoPicture = NoPicture
SYMMETRY Symmetric
INVARIANTS
    RecordedIsStored
    NothingLeftBehind
    WithdrawnIsQuiet
    ConfirmedAsSubmitted
    PictureIsReadable
PROPERTIES
    ImportedOnce
CHECK_DEADLOCK FALSE
