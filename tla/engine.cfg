SPECIFICATION Spec
CONSTANTS
    Names = {"f", "rb_ary_new"}
    Provided = {"rb_ary_new"}
    rb_func = "rb_ary_new"
    MaxModules = 1
    MaxStarts = 1
    MaxFunctions = 3
    MaxEdits = 3
    MaxLists = 2
CHECK_DEADLOCK FALSE
INVARIANTS
    
    AnswersCurrent
    
