----------------------------- MODULE MCStoryRun -----------------------------
EXTENDS StoryRun, TLC
CONSTANTS o1
Chain == (1 :> {}) @@ (2 :> {}) @@ (3 :> {2})
Pair == (1 :> {}) @@ (2 :> {})
=============================================================================
