------------------------------ MODULE MCFeedCards ------------------------------
(* Model-checking instance of FeedCards: an author with two videos and two    *)
(* profiles, and two requests at a time.                                      *)
EXTENDS FeedCards, TLC

TwoVideos == 1..2
================================================================================
