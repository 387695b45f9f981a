SPECIFICATION ScreensSpec
CONSTANTS
    None = None
    Images = {i1, i2, i3}
    MaxScreens = 3
SYMMETRY ImageSymmetry
INVARIANTS WheelShowsTheInterval ShownIsChosen SelectionIsAnImage SavedImagesStayAway ShownIsKnown
PROPERTIES LossNeedsReturn
CHECK_DEADLOCK FALSE
