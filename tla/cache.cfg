\* Three texts against a limit of one entry, two requests at a time.
SPECIFICATION Spec
CONSTANTS
    t1 = t1  t2 = t2  t3 = t3  h1 = h1  h2 = h2
    Texts <- ThreeTexts
    Handlers <- TwoHandlers
    MaxEntries = 1
    MaxClock = 2
INVARIANTS TypeOK BoundedSize
PROPERTIES KeepsLimit VictimsAreLeastRecent ShrinksBack
