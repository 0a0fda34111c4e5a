SPECIFICATION Spec
CONSTANTS
    ann = ann
    Characters = {ann}
    MaxHp = 1
    MaxFights = 2
    Gone = Gone
PROPERTIES
    OnlyIdleTurnsTimeOut
CHECK_DEADLOCK FALSE
