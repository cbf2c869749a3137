SPECIFICATION Spec
CONSTANTS
    Names = {"f", "rb_ary_new"}
    Provided = {"rb_ary_new"}
    rb_func = "rb_ary_new"
    MaxModules = 1
    MaxStarts = 2
    MaxFunctions = 4
    MaxEdits = 2
    MaxLists = 1
CHECK_DEADLOCK FALSE
INVARIANTS
    TypeOK
    
    VMNeverAborts
