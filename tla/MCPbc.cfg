INIT PbcInit
NEXT PbcNext
CONSTANTS
    Reg = {x, y}
    Field <- FpFieldValue
    Number <- NumberValue
    Table <- TableValue
    FieldName = {"fp", "fq", "fi", "cubic", "quartic", "sextic", "tower"}
    FieldNamed <- FieldNamedValue
    Operand <- OperandValue
    Small <- SmallValue
    Rooted = {"fp", "fq", "fi", "cubic"}
    Draw <- DrawValue
    CurveName = {"whole", "twist", "quotient", "j"}
    CurveNamed <- CurveNamedValue
    Multiple <- MultipleValue
    System = {"a7", "a11", "a1", "d6", "d2", "e", "f", "g"}
    PairingNamed <- PairingNamedValue
    H <- HValue
    Methods <- MethodsValue
    Span <- SpanValue
INVARIANTS
    FpRepresents
    FpObserved
    FieldsAreFields
    PointRepresents
    PairingIsBilinear
