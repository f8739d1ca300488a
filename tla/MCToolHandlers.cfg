CONSTANTS
    Call = {c1, c2}
    MaxRecords = 3
    Limit = {1}
    Offset = {1}
SPECIFICATION Spec
SYMMETRY CallSymmetry
INVARIANTS TypeOK GuardrailsHold ChangesAreAudited SuccessIsReal TruncationTold NoticeIsTrue OnlyAllowedServed AnswersAreAudited
PROPERTIES WorksOnce
