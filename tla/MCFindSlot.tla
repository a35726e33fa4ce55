---------------------------- MODULE MCFindSlot ----------------------------
EXTENDS FindSlot

\* One sequence and one token: the search does not look at them.
OneToken == {"a"}
=============================================================================
