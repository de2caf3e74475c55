\* The two threads of the code, three rounds each.
CONSTANTS
    t1 = t1
    t2 = t2
    Workers = {t1, t2}
    Main = Main
    None = None
    MaxLoops = 3
SPECIFICATION Spec
PROPERTIES
    ImplementsAtomicPair
