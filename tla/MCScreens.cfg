\* A tab may be left alone for ever, with every change of the bound made.
CHECK_DEADLOCK FALSE
CONSTANT MaxClock = 2
SPECIFICATION ScreensSpec
INVARIANTS PagesAreServed ScreensAnnounced OwnChangesShow
