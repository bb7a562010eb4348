SPECIFICATION SiteSpec
CONSTANTS
    Likeables = {"live", "product"}
    Broadcasts = {"live"}
    Toggles = {1, 2, 3, 4, 5}
    LikeOf <- ToggleTargets
    Emails = {"a@x", "b@x"}
    Signups = {1, 2}
    EmailOf <- OneEmail
    Visits = {"route", "optional", "logout"}
    Purpose <- VisitPurposes
    Life = 1
    LastMoment = 2
    Posts = {"event", "activity"}
    LogTasks = {"task1", "task2"}
    MaxTries = 2
    OrderLines = {"kok1", "kok2", "hs"}
    HsLine = "hs"
    Prices = {0, 3}
    Quantities = {1, 2}
    Absent = absent
    Searchers = {"user", "other"}
    Postings = {"post"}
    Removals = {"remove", "removeOther"}
    Searches = {"search"}
    SearcherOf <- HistoryUsers
    Views = {1, 2, 3}
    Subjects = {"one", "other"}
    SubjectOf <- ViewSubjects
    Sweeps = {1}
    LastVersion = 1
    EmptyAt = {1}
    PageViews = {1, 2, 3}
    PageOf <- PagesOfViews
    Dishes = {"a", "b"}
    PageSize = 1
    Ingredients = {"egg", "leek", "tofu"}
    Units = {"", "ea", "g"}
    Asks <- SmallAsks
    Pool <- SmallPool
    Ranking <- RankedRecipes
    Recipes = {"a", "b", "c", "d"}
    MaterialNames <- MaterialsOfRecipes
    NameLists <- SmallLists
    Requests <- PagesAsked
    RecipesPerPage = 2
    MLRetries = 1
    Goods = {"soy", "eggs"}
    KeywordOf <- KeywordsOfGoods
    NoKeyword = "none"
    MaterialsOf <- RecipeMaterials
    StatusViews = {1}
    MaxMoments = 3
INVARIANTS
    SavedLogsAreKept
CHECK_DEADLOCK FALSE
