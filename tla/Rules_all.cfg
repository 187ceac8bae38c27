SPECIFICATION Spec
CONSTANTS
    HostOrder <- Order
    Within <- Names
    Blank = ""
    Worlds <- RuleWorlds
    Texts <- RuleTexts
    Ids = {1, 2}
    Minute = 3
    Week = 9
    Steps = {1, 2}
    Never = 15
    MaxDialogs = 1
    MaxChanges = 1
    Offered = {2}
PROPERTIES
    AllMustHold
