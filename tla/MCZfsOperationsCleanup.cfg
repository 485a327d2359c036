CONSTANTS
    Names = {a, b}
    Props = {p, q}
    MaxWrites = 3
    MaxEvents = 3
SPECIFICATION OpsSpec
PROPERTY CleanupSparesYoung
