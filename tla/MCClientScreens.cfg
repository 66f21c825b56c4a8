SPECIFICATION ScreensSpec
CONSTANTS
    Calls = {1, 2}
    Online = {1}
    PageSize = 1
    Filters = {None, "DELETED"}
    Scenes <- MCScenes
    Products = {"cake", "tea"}
    Prices = {1, 2}
    Requests = {1, 2}
    MaxChanges = 2
    Uses <- MCUses
    MaxOrders = 3
    MaxPages = 3
    None = None
CHECK_DEADLOCK FALSE
INVARIANTS
    DeskIsUsable
    ListIsTrue
    ProductEditsAreSound
