SPECIFICATION Spec
CONSTANT
    Supabase = TRUE
INVARIANTS
    StepsApply
    HeadHasModels
