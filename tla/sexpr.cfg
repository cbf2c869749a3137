SPECIFICATION Spec
CONSTANTS
    IntLimit = 8
    Unset = Unset
    Programs <- MCPrograms
    Sexprs <- MCSexprs
    Names <- MCNames
    StrLen <- MCStrLen
    Meaning <- Eval
    MeaningAll <- EvalAll
    Evaluations <- MCEvaluations
    Class <- Classify
    ClassAll <- ClassifyAll
INVARIANTS
    TypeOK
    ClassesSound
    SetBeforeRead
    OutputMatches
    
