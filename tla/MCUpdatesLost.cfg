INIT VuInit
NEXT VuNext
CONSTANTS
 a = a
 b = b
 t1 = t1
 t2 = t2
 t3 = t3
 Cells = {a, b}
 Values = {0, 1}
 Threads = {t1, t2, t3}
 Ticker = t3
 Declared <- MCDeclared
 Bulk = {{b}}
 Single = {a, b}
 InitialValue = 0
 None = None
 MaxCommits = 3
INVARIANT RestIsRaised
CHECK_DEADLOCK FALSE
