SPECIFICATION Spec
CONSTANTS
    color = color
    font = font
    vcolor = vcolor
    content = content
    None = None
    Prop = {color, font, vcolor, content}
    CustomProp = {vcolor}
    Content = content
    FieldMax = 3
    ResolveCSSVariables = TRUE
    PreserveImportant = FALSE
    Documents <- MCDocuments
INVARIANTS
    TypeOK
    WinnerIsMaximal
    FallbacksSurvive
    InlineMeansCascade
    CustomStaysOnlyAlone
PROPERTIES
    ImplementsCascadeSpec
