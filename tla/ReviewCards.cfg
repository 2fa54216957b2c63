\* Two messages, two clicks at once, three rows and an edit.
SPECIFICATION Spec
CONSTANTS
    Sessions = {s1}
    Cards = {m1, m2}
    Handlers = {h1, h2}
    MaxRows = 3
    MaxEdits = 1
VIEW WithoutPast
CONSTRAINT FewBusy
SYMMETRY Symmetry
INVARIANTS ToldOnce
PROPERTIES SkipsShowAll ApprovedAsShown
CHECK_DEADLOCK FALSE
