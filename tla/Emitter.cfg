SPECIFICATION MCSpec
CONSTANTS
    Scanners = {"daemon"}
    Cli = "cli"
    FaceAuth = "face"
    Vendor <- MCVendor
    Last = 1
    MaxByte = 4
    Original <- MCOriginal
    Maximum <- MCMaximum
    Supported <- MCSupported
    Databases <- MCDatabases
    PerByte = 1
INVARIANTS HandedBack
PROPERTIES LightGoesOut
