\* Order files of up to seven rows in both formats, every kind of customer and article.
SPECIFICATION Spec
CONSTANTS
    Files <- MCFiles
    CardRows <- MCCardRows
    ArticleRows <- MCArticleRows
    Ratio <- MCRatio
    Begins <- MCBegins
    StopWords = {"SARL", "DE"}
    NotLatin = {"ZHUANG"}
    Threshold = 60
    MinWords = 2
    MaxWarningLines = 3
    MaxClientLines = 1
CHECK_DEADLOCK FALSE
INVARIANTS LinesKept AttachedForAReason MentionMatchesRegion OwnColourFirst NothingHidden
