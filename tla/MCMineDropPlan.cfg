CONSTANTS
    l1 = l1
    l2 = l2
    near = near
    far = far
    direct = direct
    detour = detour
    astray = astray
    Absent = Absent
    Garbled = Garbled
    Lists <- MCLists
    Plans <- MCPlans
    Outlines <- MCOutlines
    Details <- MCDetails
    Invalid = {astray}
    EditedLists <- MCEditedLists
    MaxPlans = 2
    Faults = {"open", "copy", "full", "remove"}
SPECIFICATION Spec
SYMMETRY MCSymmetry
INVARIANTS TypeOK ServedIsValid ServedIsStored
PROPERTY OnlyEditsDuplicate
