------------------------- MODULE MCWebSocketManager -------------------------
(* Instances of WebSocketManager for TLC. *)
EXTENDS WebSocketManager, TLC

CONSTANTS s1, s2, s3, home, other, bad

MCSockets2 == {s1, s2}
MCSockets3 == {s1, s2, s3}
MCUrls == {home, other, bad}
MCTwoUrls == {home, bad}
MCBadUrls == {bad}
MCHomeOnly == {home}
MCNoUrls == {}
MCSymmetry == Permutations({s1, s2})
=============================================================================
