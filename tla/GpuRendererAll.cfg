SPECIFICATION Spec
CONSTANTS
    t1 = t1
    t2 = t2
    w1 = w1
    w2 = w2
    a1 = a1
    a2 = a2
    d1 = d1
    d2 = d2
    i1 = i1
    i2 = i2
    x1 = x1
    x2 = x2
    x3 = x3
    Threads = {t1, t2}
    Widgets = {w1}
    Addrs = {a1, a2}
    Data = {d1, d2}
    Images = {i1, i2}
    Texs = {x1, x2, x3}
    Faults = {"makeCurrent"}
INVARIANTS IInv ShownIsDrawn
PROPERTY StaysOnGpu
SYMMETRY Interchangeable
