SPECIFICATION VuSpec
CONSTANTS
 a = a
 b = b
 t1 = t1
 t2 = t2
 t3 = t3
 Cells = {a, b}
 Values = {0, 1}
 Threads = {t1, t2, t3}
 Ticker = t3
 Declared <- MCDeclared
 Bulk = {{a}}
 Single = {a, b}
 InitialValue = 0
 None = None
 MaxCommits = 2
PROPERTIES ImplementsFeed CallsReturn
