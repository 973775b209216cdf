SPECIFICATION PackageSpec
CONSTANTS
    Uploads = {1, 2}
    Matrices = {2}
    MaxFailures = 1
CHECK_DEADLOCK FALSE
PROPERTIES
    DeletionsFinish
