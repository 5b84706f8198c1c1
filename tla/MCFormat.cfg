CONSTANTS
    Kinds = {"DD", "HD"}
    Cylinders = 2
    PerCylinder <- MCPerCylinder
    ImageCylinders <- MCImageCylinders
    BlocksPerPage = 16
    Leftovers <- MCLeftovers
SPECIFICATION Spec
INVARIANTS
    ValidFlagMeansSound
    UnfinishedHandsOutNothingInUse
PROPERTIES
    FailsForAReason
