SPECIFICATION LearnSpec
CONSTANTS
 FileNames <- MCNames
 Titles <- MCTitles
 Stopwords = {"facture"}
 Targets <- MCTargets
 OverlayRules <- MCOverlayRules
 Papers <- MCPapers
 MaxKeywordsPerDecision = 1
 MaxDecisionRules = 1
 MaxLessons = 1
INVARIANT NeverOutranked
CHECK_DEADLOCK FALSE
