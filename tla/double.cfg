\* Three images, a batch of two, two calls at a time.
SPECIFICATION Spec
CONSTANTS
    i1 = i1  i2 = i2  i3 = i3  s1 = s1  s2 = s2  NoSlot = NoSlot
    Images <- ThreeImages
    Slots <- TwoSlots
    MinInterval = 1
    Threshold = 2
    MaxStarts = 1
PROPERTY NoStartWhileProcessing
