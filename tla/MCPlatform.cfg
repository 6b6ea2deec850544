CONSTANTS
    BME = BME
    MSE = MSE
    DPE = DPE
    RMA = RMA
    CLIST = CLIST
    FBC = FBC
    Reserved = Reserved
    Null = Null
    Bits = {BME, MSE, DPE, RMA, CLIST, FBC}
    Writable = {BME, FBC}
    Status = {DPE, RMA}
    CBits = {DPE, RMA}
    Fields = {BME, MSE, CLIST}
    Flippable = {BME, MSE}
    P2sbBits = {Reserved}
    Buses = {0, 1, 2, 3, 4}
    Offsets = {0, 252}
    Word = 1073741824
    TestFunction <- MCTestFunction
    Machines <- MCMachines
SPECIFICATION Spec
INVARIANTS
    TypeOK
    AccessesAreRight
    FindsTheTable
    BasesAreTheDevices
PROPERTY FlipTouchesOneBit
