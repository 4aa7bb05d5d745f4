\* Up to MaxLines lines over two sources; see MCToolchain for the lines.
SPECIFICATION Spec
CONSTANTS
    Names <- MCNames
    FileText <- MCFileText
    Commands <- MCCommands
    SourceLines <- MCSourceLines
    Spelling <- MCSpelling
    MaxLines = 2
    CondMax = 2
    OnceMax = 2
    StackMax = 3
    TextMax = 2
INVARIANTS
    SourcesGetTheirHeaders
CHECK_DEADLOCK FALSE
