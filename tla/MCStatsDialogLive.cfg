CONSTANTS
    MaxBytes = 3
    MaxDialogs = 3
SPECIFICATION LiveSpec
PROPERTY LabelsCatchUp
