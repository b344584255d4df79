-------------------------- MODULE MCCrawlPipeline --------------------------
EXTENDS CrawlPipeline, TLC

MCBudgets == {1, NoBudget}
Workforce == Permutations(Workers)
=============================================================================
