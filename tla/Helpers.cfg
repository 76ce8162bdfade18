CONSTANTS
    TopicRange = 2048
    PostIDs = {1, 2, 3, 4, 5, 6, 15, 16, 17, 18, 255, 256, 257, 258, 4000, 4095}
    GroupSize = 2
    Characters = {1, 97, 127, 128, 256, 65535}
    MaxText = 5
    PostsPerPage = 3
    TopicsPerPage = 2
    Kinds = {"plain", "special"}
    MaxTopics = 7
    MaxTopicPosts = 10
    MaxPairs = 3
    Words = {32, 65, 97, 98}
    MaxQuery = 5
    Pieces = {"ticks", "tick", "ref", "rule", "[", "]", "<", ">", "a", "h", "P", "0", "/", " ", "line"}
    MaxPieces = 5
    w1 = w1
    w2 = w2
    Cap = 3
    Writers = {w1, w2}
    MaxMessages = 8
\* the inputs end
CHECK_DEADLOCK FALSE
SPECIFICATION HelpersSpec
INVARIANTS LongIDRoundTrip StringsReadBack PagesShowAll SearchGivesMatches MarkupIsClosed AddsInTurnAreKept
