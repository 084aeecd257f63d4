SPECIFICATION Spec
CONSTANTS
    Lower <- MCLower
    Dotted <- MCDotted
    Extension <- MCExtension
    Forbidden = {"ctl"}
    Overlong = {"x255"}
    MaxComponents = 3
    MaxFileBytes = 3
    Tree <- MCTree
    MaxUnsigned = 15
    Lists <- MCLists
    Urls <- MCUrls
    FileUrl <- MCFileUrl
    Size <- MCSize
    GzSize <- MCGzSize
    Modified <- MCModified
    Decimal <- MCDecimal
    RangeHeaders <- MCRangeHeaders
    AcceptHeaders <- MCAcceptHeaders
    MaxRangeText = 10
INVARIANTS RangeExact CopyCoherent NotModifiedCurrent GzipOnlyWhenAccepted ServedIsListed
