---------------------------- MODULE MCStateStore ----------------------------
EXTENDS StateStore

CONSTANTS c1, c2, r1

OneRepo == [c \in Clients |-> r1]
SameStory == [k \in Keys |-> "s1"]
TasksThenActions == <<"tasks", "actions">>
\* A task changes status back and forth, an action is appended, the story ends.
TaskAndStory ==
    {[field |-> "tasks", key |-> "k1", val |-> "v1"],
     [field |-> "tasks", key |-> "k1", val |-> "v2"],
     [field |-> "actions", key |-> "k1", val |-> "v1"],
     [field |-> "state", key |-> "k1", val |-> "v2"]}
=============================================================================
