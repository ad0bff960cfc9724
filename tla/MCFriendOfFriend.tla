-------------------------- MODULE MCFriendOfFriend --------------------------
(* Model-checking instance of FriendOfFriend. *)
EXTENDS FriendOfFriend
=============================================================================
