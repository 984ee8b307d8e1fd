SPECIFICATION ImportSpec

CONSTANTS
    n1 = n1
    n2 = n2
    n3 = n3
    u1 = u1
    u2 = u2
    s1 = s1
    Readers = {"priority", "export", "comments", "workbook"}
    Rows <- MCRows
    Names = {n1, n2, n3}
    Uids = {u1, u2}
    Secs = {s1}
    Blank = Blank
    MaxRows = 5
    ShortFile = 3

SYMMETRY Alike
CONSTRAINT Short

INVARIANTS
    OneTargetPerPerson
    RowsAccounted

CHECK_DEADLOCK FALSE
